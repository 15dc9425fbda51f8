SPECIFICATION Spec
CONSTANTS
    N = 5
    Dirs <- MCDirs
    Above <- MCAbove
    Blocks <- MCBlocks
    late1 = late1
    Late = {late1}
    LateIn <- MCLateIn
    SrcLocal = TRUE
    DestLocal = TRUE
    IsMove = TRUE
    Holding = {}
    MaxErrors = 3
INVARIANTS TypeOK ContentSafe SkippedStay CancelKeepsSource NoTruncatedFile SuccessAccounted LateOnlyWithWholeFolder
PROPERTIES KeepsPromise
CHECK_DEADLOCK FALSE
