SPECIFICATION Spec
CONSTANTS
    q1 = q1  q2 = q2  q3 = q3
    x1 = x1  x2 = x2
    Lookups <- ThreeLookups
    Callers <- TwoCallers
    Names <- SomeNames
    Templates <- SomeTemplates
    SandboxImage = "sandbox:none"
    Threads = 2
INVARIANT ListedOnce
PROPERTY LookupAnswered
