CONSTANTS
    Messages <- LoginMessages
    Calls <- LoginCalls
    Texts <- LoginTexts
    MaxBatch = 1
    MaxToolRounds = 2
    MaxTurns = 2
    CompactMode = FALSE
    Telegram = FALSE
SPECIFICATION Spec
INVARIANTS AskedCodeIsAwaited
PROPERTIES CodeContinuesChallenge
CHECK_DEADLOCK FALSE
