CONSTANTS
    MaxWritten = 4
    Initial = 2
    Full = 4
    Low = 3
    Codes = {0, 1}
    NoStatus = NoStatus
SPECIFICATION FairSpec
INVARIANTS
    TypeOK
    ExitStatusVouches
    ChannelReleased
    StandstillTakesAFlood
CHECK_DEADLOCK FALSE
 
