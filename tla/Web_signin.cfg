CONSTANTS
    MaxSockets = 2  MaxTyped = 3  MaxKeys = 2  MaxIncidents = 2  MaxEvents = 4  FreshKey = 9
    MaxJobs = 2  MaxPolls = 2  MaxRestarts = 1  Reachable = FALSE
SPECIFICATION Spec
INVARIANTS SignedInIsActive
CHECK_DEADLOCK FALSE
