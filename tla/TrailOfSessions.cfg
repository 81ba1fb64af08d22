SPECIFICATION TrailSpec
CONSTANTS
    r1 = r1  r2 = r2
    s1 = s1  s2 = s2
    c1 = c1  c2 = c2
    None = None
    Reaper = Reaper
    Lifespan = Lifespan
    Stop = Stop
    Nothing = Nothing
    Reqs <- TwoReqs
    Sids <- TwoSids
    Cids <- TwoCids
    MaxSessions = 2
    Failures <- SomeFailures
    MayCrash = TRUE
    SlowRemoval = FALSE
    MaxItems = 4
    Faults <- NoFault
INVARIANT TrailIsMap
PROPERTIES
    KeepsContract
    ShutdownEnds
