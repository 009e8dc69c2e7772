SPECIFICATION DeskSpec
CONSTANTS
    k1 = k1 k2 = k2 k3 = k3 k4 = k4 o1 = o1 l1 = l1 m1 = m1 u1 = u1 u2 = u2
    Handlers = {1, 2}
    Reqs = {1, 2}
    Orgs = {o1}
    Labels = {l1}
    Members = {m1}
    MaxFaults = 2
INVARIANTS TreeHolds RecordsAgree
PROPERTIES CreatedWhole OnlyAskedSteps
CHECK_DEADLOCK FALSE
