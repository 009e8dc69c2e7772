SPECIFICATION LifecycleSpec
CONSTANTS
    boss = boss  agent = agent  box1 = box1  box2 = box2  h1 = h1  h2 = h2
    Handlers = {h1, h2}
    Agents = {boss, agent}
    Managers = {boss}
    Mailboxes = {box1, box2}
    FirstMailbox = box1
    SlaOffered = {TRUE, FALSE}
    MaxMessages = 3
    Operations = {"message", "assign", "self_assign", "unassign", "status", "close", "reopen", "priority", "mailbox"}
    Failures = {"read", "save", "delete", "undo", "stop", "late"}
    Nobody = Nobody
SYMMETRY HandlerSymmetry
INVARIANTS CountersNeverExceed AssignedNotNew ClosedHasDate MailboxAligned
PROPERTIES FirstResponseOnce LoneRequestsObey
CHECK_DEADLOCK FALSE
