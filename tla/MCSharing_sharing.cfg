CONSTANTS
    owner = owner
    g1 = g1
    g2 = g2
    name = name
    h1 = h1
    h2 = h2
    Users = {owner, g1, g2}
    Owners = {owner}
    Names = {name}
    Trees <- SmallTrees
    Shared <- SmallShared
    Handlers = {h1, h2}
    MaxMinted = 2
    Char <- Characters
    MaxText = 6
SPECIFICATION JointSpec
SYMMETRY Symmetry
INVARIANTS ActsWereGranted AnsweredSharesWork KeysAreExact KeysAreStable SharesStayInside
PROPERTIES SharesKeepTheirId
CHECK_DEADLOCK FALSE
