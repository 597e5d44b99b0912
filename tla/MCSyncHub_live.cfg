CONSTANTS
    u = u
    k1 = k1
    g = g
    t1 = t1
    t2 = t2
    Users = {u}
    NoUser = NoUser
    Clients = {k1}
    NoDevice = NoDevice
    UserOf <- DeviceUserOf
    Threads = {t1, t2}
    NoThread = NoThread
    Paths <- OnePath
    MayFollow <- DeviceMayFollow
    Changes <- LiveChanges
    cMaxPathsPerFrame = 1
    MaxConns = 2
    MaxFrames = 2
SPECIFICATION LiveSpec
PROPERTIES ToldOrDropped FramesSettle
