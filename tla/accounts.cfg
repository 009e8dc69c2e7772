SPECIFICATION AccountsSpec
CONSTANTS
    h1 = h1 h2 = h2 s1 = s1 s2 = s2
    Handlers = {h1, h2}
    Sessions = {s1, s2}
    MaxToken <- MCMaxToken
    MaxPassword = 2
    MaxFaults = 1
    MaxCodes = 3
    MaxTime = 4
    Expires = 3
    Cooldown = 1
    Window = 4
    MaxPerWindow = 2
    MaxAttempts = 2
SYMMETRY Symmetry
INVARIANTS SessionsEnd NewestTokenWorks
PROPERTIES CodesLimited RevokedStays
CHECK_DEADLOCK FALSE
