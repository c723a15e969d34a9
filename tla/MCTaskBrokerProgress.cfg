CONSTANTS
    Procs = {p1}
    Msgs = {m1}
    Tenants = {public}
    DefaultTenant = public
    MaxRetries = 1
    Prefetch = 1
    MaxApiRetries = 0
    MaxLosses = 1
    MaxCrashes = 1
    MaxStops = 1
SPECIFICATION FairSpec
 
PROPERTY EveryTaskEnds
\* With every task finished and purged there is nothing left to do.
CHECK_DEADLOCK FALSE
\* Orderly is false for good from where a message was misrouted.
CONSTRAINT Routed
