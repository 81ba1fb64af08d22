SPECIFICATION FairSpec
CONSTANTS
    a1 = a1  a2 = a2
    Stop = Stop
    Nothing = Nothing
    AuditSids <- TwoAuditSids
    MaxItems = 3
    Faults <- AllFaults
    MayCrash = TRUE
INVARIANTS
    TypeOK
    CrashLosesSuffix
    StopDrains
    FlushIsBarrier
    ClosedByItsOwnSession
PROPERTIES
    ReadsNeverShrink
    CallersAnswered
    EventuallyRecorded
