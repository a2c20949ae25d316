CONSTANTS
    Radix = 2
    SeqDelta = 2
    MaxSeq = 3
    MaxStart = 2
    MaxRebuild = 2
    MaxSaveFailure = 1
SPECIFICATION FairSpec
INVARIANTS
    CursorInv
    CursorSafe
    ReplayCursorSafe
    CleanExitKeepsCursor
PROPERTIES
    CursorCatchesUp
CHECK_DEADLOCK FALSE
