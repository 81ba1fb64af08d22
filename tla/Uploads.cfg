SPECIFICATION Spec
CONSTANTS
    u1 = u1  u2 = u2  u3 = u3
    d1 = d1  d2 = d2
    p1 = p1
    Sandbox = Sandbox
    None = None
    Uploads <- ThreeUploads
    Deletes <- TwoDeletes
    Paths <- OnePath
    Size <- Sizes
    MaxSize = 2
INVARIANTS
    UploadKept
    DeletesCount
