CONSTANTS
    a = a  i = i  n = n  e = e  s1 = s1
    Sessions = {s1}
    Chats = {a}
    Injections = {}
    Resets = {n}
    Erasures = {}
    Telegram = {a, n}
    SessionOf <- OneSession
    Configs <- RoutedConfigs
    MaxCrashes = 0
SPECIFICATION Spec
INVARIANTS ResetIsFresh
CHECK_DEADLOCK FALSE
