SPECIFICATION SlaSpec
CONSTANTS
    p1 = p1 p2 = p2 m1 = m1 h1 = h1 h2 = h2
    Policies = {p1, p2}
    Mailboxes = {m1}
    Handlers = {h1, h2}
    MaxFaults = 1
    DayLength = 4
    WeekDays = 2
    Offset = 1
    MaxTime = 8
    Targets = {0, 2}
SYMMETRY Symmetry
INVARIANT PoliciesAligned
PROPERTIES ClockIsRight OnlyActivationActivates CountsAsStopwatch
CHECK_DEADLOCK FALSE
