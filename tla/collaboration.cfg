SPECIFICATION CollaborationSpec
CONSTANTS
    u1 = u1 u2 = u2 a = a b = b
    Handlers = {1, 2}
INVARIANTS ViewIsTrue SignalsEnd LoneClaimStays
CHECK_DEADLOCK FALSE
