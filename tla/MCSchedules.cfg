SPECIFICATION MCSpec
CONSTANTS
    Workers = {w1, w2}
    NTenants = 2
    Static = {"beat", "clean"}
    Objects = {}
    NoId = NoId
    TenantOf <- TenantOfKey
    SpecPaused = {}
    Minute = 2
    Periods = {1, 2}
    DefaultPeriod = 2
    MaxNow = 4
    MaxPatches = 1
    MaxStarts = 0
    MaxCrashes = 1
PROPERTIES FiredOnce NextIsLeast DueEnds
