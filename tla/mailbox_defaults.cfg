SPECIFICATION Spec
CONSTANTS
    h1 = h1  h2 = h2
    Handlers = {h1, h2}
    MaxMailboxes = 3
    ActiveLimit = 2
    MaxFaults = 1
SYMMETRY HandlerSymmetry
INVARIANTS LoneRequestsRepair OneActiveDefault
PROPERTIES OnlySetDefaultMoves
CHECK_DEADLOCK FALSE
