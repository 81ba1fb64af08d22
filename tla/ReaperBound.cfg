SPECIFICATION Spec
CONSTANTS
    s1 = s1  s2 = s2  s3 = s3
    None = None
    Sids <- ThreeSids
    IdleTtl = 2
    MaxCall = 2
    MaxAge = 4
    Period = 3
    DestroyTime = 1
    ClockOffset = 30
    MaxTime = 10
SYMMETRY Symmetry
INVARIANTS
    TypeOK
    IdleIsBounded
PROPERTY ScanSparesBusy
