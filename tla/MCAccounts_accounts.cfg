CONSTANTS
    old = old
    new = new
    h1 = h1
    h2 = h2
    Emails = {old, new}
    Legacy = {old}
    Handlers = {h1, h2}
    Inactivity = 2
    MaxClock = 3
    MaxMinted = 3
SPECIFICATION Spec
SYMMETRY Symmetry
INVARIANTS LogoutIsFinal AccountsLast TokensStay
PROPERTIES IdleSessionsRefused
