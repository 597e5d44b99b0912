CONSTANTS
    ip = ip
    h1 = h1
    h2 = h2
    Ips = {ip}
    Kinds <- SmallKinds
    Limit <- SmallLimit
    WindowOf <- SmallWindow
    cMaxWindow = 4
    Handlers = {h1, h2}
SPECIFICATION LiveSpec
INVARIANTS OvershootBounded
PROPERTIES FixedWindows LockoutEnds
