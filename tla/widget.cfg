SPECIFICATION WidgetSpec
CONSTANTS
    e1 = e1 e2 = e2 m1 = m1 m2 = m2
    Ops = {"initialize", "message", "status"}
    Emails = {e1}
    Mailboxes = {m1, m2}
    Statuses = {"open", "closed"}
    Handlers = {1, 2}
    MaxSessions = 2
    MaxTickets = 2
    MaxContacts = 2
    MaxRecoveries = 0
    MaxRequests = 4
    MaxFaults = 0
INVARIANTS OwnConversation RecoveryReplaces EndedIsSilent
CHECK_DEADLOCK FALSE
