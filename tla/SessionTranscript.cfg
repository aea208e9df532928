CONSTANTS
    c1 = c1  c2 = c2
    Ids = {c1, c2}
    Alphabet <- SomeMessages
    MaxSession = 4
    MaxRaw = 5
SPECIFICATION TranscriptSpec
INVARIANTS SavedIsPaired SavedIsStable TalkIsKept
CHECK_DEADLOCK FALSE
