CONSTANTS
    Messages <- WorkMessages
    Calls <- WorkCalls
    Texts <- WorkTexts
    MaxBatch = 2
    MaxToolRounds = 3
    MaxTurns = 1
    CompactMode = TRUE
    Telegram = TRUE
SPECIFICATION FairSpec
INVARIANTS VerifiedBeforeClaim BlockedEndsToolUse
PROPERTIES TurnEnds
CHECK_DEADLOCK FALSE
