CONSTANTS
    u = u
    k1 = k1
    g = g
    t1 = t1
    t2 = t2
    Users = {u}
    NoUser = NoUser
    Clients = {k1, g}
    NoDevice = NoDevice
    UserOf <- HubUserOf
    Threads = {t1, t2}
    NoThread = NoThread
    Paths <- SmallPaths
    MayFollow <- HubMayFollow
    Changes <- HubChanges
    cMaxPathsPerFrame = 1
    MaxConns = 2
    MaxFrames = 1
SYMMETRY ThreadSymmetry
SPECIFICATION Spec
INVARIANTS OwedWhatItMissed TrackedFramesArmed NothingLeaks
