SPECIFICATION Spec
CONSTANTS
    Users = {1}
    Workers = {w1, w2}
    Configs <- AllConfigs
    PageSize = 1
    None = None
    MaxChanges = 2
    MaxFaults = 2
    MaxEvents = 2
    MaxIds = 6
    Keys = {1, 2}
    MaxSyncs = 1
INVARIANTS OneConnection
 
