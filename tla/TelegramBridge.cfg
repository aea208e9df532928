CONSTANTS
    u1 = u1  u2 = u2  g1 = g1  g2 = g2  k1 = k1  k2 = k2
    Users = {u1, u2}
    Chats = {g1, g2}
    Senders <- PrivateChats
    Codes = {k1, k2}
    MaxApprovals = 1
    MaxProgress = 2
    BatchLines = 1
    MaxTexts = 3
    Policies = {"disabled", "open", "allowlist", "pairing"}
    Allowed = {}
    MaxUpdates = 2
    MaxFailures = 1
SPECIFICATION FairSpec
INVARIANTS UpdatesTakenOnce OnlyApprovedPass  RelayKeepsOrderAndLimit ATimerIsArmedUnlessStale
PROPERTIES LoopCatchesUp
CHECK_DEADLOCK FALSE
