SPECIFICATION Spec
CONSTANTS
    r1 = r1  r2 = r2  r3 = r3
    s1 = s1  s2 = s2
    c1 = c1  c2 = c2  c3 = c3  c4 = c4
    None = None
    Reaper = Reaper
    Lifespan = Lifespan
    Reqs <- ThreeReqs
    Sids <- TwoSids
    Cids <- FourCids
    MaxSessions = 2
    Failures <- AllFailures
    MayCrash = TRUE
    SlowRemoval = TRUE
SYMMETRY Symmetry
INVARIANTS
    TypeOK
    SingleCreate
    UniqueReady
    SingleDestroyer
    ReadyHasContainer
PROPERTY OrphanBlocksConversation
