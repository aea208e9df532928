CONSTANTS
    Calls = {c1, c2}
    Namespaces = {n1, n2}
    Kinds <- EveryKind
    MaxStarted = 3
    MaxCrashes = 1
    MaxEntries = 2
    MaxBytes = 3
    s1 = s1
    s2 = s2
    Sessions <- BothSessions
    TTL = 2
    MaxTime = 6
    Mailboxes = {m1, m2}
    MaxMails = 3
    MailLimit = 2
    MaxRecipients = 2
    MaxCodes = 2
    MaxMoves = 1
    MaxCalls = 2
SPECIFICATION ToolsSpec
INVARIANTS StoreFollowsCalls QuotaHolds
           DecisionsFollowTheUser
           SentIsAccepted MarkedWasShown
           
 
SYMMETRY Symmetric
CHECK_DEADLOCK FALSE
