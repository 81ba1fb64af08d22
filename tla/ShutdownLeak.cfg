SPECIFICATION Spec
CONSTANTS
    r1 = r1  r2 = r2  r3 = r3
    s1 = s1  s2 = s2
    c1 = c1  c2 = c2  c3 = c3  c4 = c4
    None = None
    Reaper = Reaper
    Lifespan = Lifespan
    Reqs <- TwoReqs
    Sids <- OneSid
    Cids <- TwoCids
    MaxSessions = 2
    Failures <- NoFailure
    MayCrash = FALSE
    SlowRemoval = FALSE
PROPERTY ShutdownLeavesNoContainer
