SPECIFICATION CollaborationSpec
CONSTANTS
    u1 = u1 u2 = u2 a = a b = b
    Handlers = {1, 2}
INVARIANT UnsubscribeClearsOwn
CHECK_DEADLOCK FALSE
