CONSTANTS
    s1 = s1  mail = mail  bank = bank
    Sessions = {s1}
    Services = {mail, bank}
    Absent = Absent
    MaxFlows = 2
    MaxCalls = 3
    MaxWork = 4
    MaxBusy = 2
    MaxCrashes = 1
    cloud = cloud  local = local  own = own  p1 = p1
    Providers = {cloud, local, own}
    Catalogued = {cloud, local}
    Keyless = {local}
    Slots = {"default", "coding"}
    Nothing = Nothing
    Pages = {p1}
    InitialConfigs <- SomeConfigs
    MaxSaves = 2
    MaxConfigCrashes = 1
SPECIFICATION Spec
INVARIANTS  StoredForItsService NoFlowStealsInput
             
SYMMETRY ServiceSymmetry
CHECK_DEADLOCK FALSE
