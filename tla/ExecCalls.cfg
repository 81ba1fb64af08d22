SPECIFICATION FairSpec
CONSTANTS
    e1 = e1  e2 = e2
    None = None
    Execs <- TwoExecs
    MaxOutput = 2
    Hazards <- AllHazards
INVARIANTS
    TypeOK
    OwnOutput
    
    ExclusiveUnlessAbandoned
    AuditedOnce
PROPERTY ExecAnswered
