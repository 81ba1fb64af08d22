SPECIFICATION Spec
CONSTANTS
    NoList = NoList
    Labels <- SmallLabels
    Settings <- SmallSettings
    Hosts <- SmallHosts
    Hazards <- AllHazards
INVARIANTS
    TypeOK
    SafeFailureMode
    SquidParses
    ProxyServesItsAllowlist
PROPERTY RunningProxyIsKept
