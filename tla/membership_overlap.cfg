SPECIFICATION MembershipSpec
CONSTANTS
    o1 = o1  a1 = a1  n1 = n1  n2 = n2
    s1 = s1  s2 = s2  i1 = i1  i2 = i2  h1 = h1  h2 = h2
    Users = {o1, a1, n1, n2}
    Founders = {o1}
    Staff = {a1}
    StaffRole <- MCStaffRole
    Invites = {i1, i2}
    Sessions = {s1, s2}
    SessionUser <- MCSessionUser
    Handlers = {h1, h2}
    Roles = {"owner", "admin", "agent"}
    SeatLimit = 2
    Operations = {"role", "suspend", "activate", "remove", "invite", "resend", "revoke", "accept", "enter"}
    CanFail = TRUE
    None = None
SYMMETRY JoinerSymmetry
INVARIANTS TypeOK MembersRemain SeatOvershootBounded
PROPERTIES NoOldSessionSurvives LoneRequestsObey
CHECK_DEADLOCK FALSE
