CONSTANTS
    a = a  i = i  n = n  e = e  s1 = s1
    Sessions = {s1}
    Chats = {a}
    Injections = {i}
    Resets = {n}
    Erasures = {e}
    Telegram = {a, n}
    SessionOf <- OneSession
    Configs <- EveryConfig
    MaxCrashes = 1
SPECIFICATION FairSpec
INVARIANTS ResumeRunsAlone  AnswersAreWritten
PROPERTIES EveryRequestAnswered
CHECK_DEADLOCK FALSE
