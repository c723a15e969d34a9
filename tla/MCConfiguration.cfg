SPECIFICATION Spec
CONSTANTS
    Paths = {"app", "base"}
    Needs <- MCNeeds
    Desired <- MCDesired
    BWorkers = {1, 2}
    Keys = {1, 2, 3}
    MaxHappens = 1
    Conns = {1, 2, 3}
    Routines = {1, 2}
    Refreshers = {"event", "interval"}
    MaxSaves = 1
    MaxFailures = 2
    Platforms = {"docker", "kubernetes"}
    KObjects = {1, 2}
    Names = {"a", "b"}
    DWorkers = {1, 2}
    MaxEvents = 2
INVARIANTS HashTrue PushReaches 
PROPERTIES  ConfigConverges ConnectionReturns 
CHECK_DEADLOCK FALSE
