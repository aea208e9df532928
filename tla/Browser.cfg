SPECIFICATION Spec
CONSTANTS
    Urls = {home, form}
    None = None
    Slots = {c1, c2}
    MaxTabs = 2
    MaxPages = 2
    MaxLaunches = 2
    MaxObjects = 5
    MaxEvents = 3
SYMMETRY BrowserSymmetry
INVARIANTS
    TabIdsAreUnique
    FetchTabAgrees
    SerialUseIsClean
PROPERTIES
    LoneResetCleans
CHECK_DEADLOCK FALSE
