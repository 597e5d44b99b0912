CONSTANTS
    old = old
    new = new
    other = other
    Procs = {old, new, other}
    Ships <- Shipped
    Comments = {c1}
    MaxCrashes = 1
    Host = new
    Visitors = {v1, v2}
    cCacheTtl = 3
    cTimeout = 1
SPECIFICATION ServerSpec
INVARIANTS ServesOnItsSchema CommentsSurvive ListingsFresh
PROPERTIES ImplementsUpgrades GetsThrough
