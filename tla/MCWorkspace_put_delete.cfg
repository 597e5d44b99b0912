CONSTANTS
    h1 = h1
    h2 = h2
    notes = notes
    pics = pics
    x = x
    y = y
    Names = {notes, pics, x, y}
    Handlers = {h1, h2}
    Requests <- PutAgainstDelete
    ClientMaxBodySize = 3
    Quota = 0
    Dirs0 <- SmallDirs
    Files0 <- SmallFiles
    MayFail = FALSE
    OneMishap = TRUE
SPECIFICATION Spec
INVARIANT NoStaleTombstone
