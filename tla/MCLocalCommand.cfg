CONSTANTS
    BufferSize = 2
    OutputSize = 2
    MaxLength = 5
SPECIFICATION LocalSpec
INVARIANTS
    AtMostOnePast
    TextKept
    LoggedAreLines
    SuccessIsSuccess
CHECK_DEADLOCK FALSE
