SPECIFICATION WorkspaceSpec
CONSTANTS
    h1 = h1  box1 = box1
    Nobody = Nobody
    Handlers = {h1}
    Agents = {}
    Managers = {}
    Mailboxes = {box1}
    FirstMailbox = box1
    SlaOffered = {TRUE}
    MaxMessages = 0
    Operations = {}
    Failures = {}
    FileOps = {"upload", "delete", "attach"}
    FileHandlers = {1, 2}
    StorageLimit = 1
    MaxFiles = 3
    MaxFileMessages = 2
    MaxFileRequests = 5
    MaxFaults = 1
    BillingOps = {"use", "extend", "suspend", "reactivate", "checkout", "change", "sync"}
    BillingHandlers = {1, 2}
    TrialDays = 1
    GraceDays = 1
    ExtendDays = 1
    Items = {1, 2}
    FirstItems = 1
    MaxDay = 4
    MaxSessions = 2
    MaxBillingRequests = 5
INVARIANTS FilesAgree SubscriptionHolds
PROPERTY OnlyAllowedSteps
CHECK_DEADLOCK FALSE
