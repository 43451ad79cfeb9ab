CONSTANT MaxBlocks = 3
SPECIFICATION Spec
INVARIANTS
    FailedDownloadKeepsFile
    ScpReleased
    TrueIsExact
    TrueIsAccepted
CHECK_DEADLOCK FALSE
