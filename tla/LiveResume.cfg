CONSTANTS
    Radix = 10
    SeqDelta = 2
    MaxSeq = 4
    MaxStart = 2
    MaxRebuild = 0
    MaxSaveFailure = 0
SPECIFICATION Spec
INVARIANT ResumeSkipsNothing
CHECK_DEADLOCK FALSE
