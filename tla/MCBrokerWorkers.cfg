CONSTANTS
    Procs = {p1, p2}
    Msgs = {m1}
    Tenants = {public}
    DefaultTenant = public
    MaxRetries = 0
    Prefetch = 1
    MaxApiRetries = 1
    MaxLosses = 0
    MaxCrashes = 1
    MaxStops = 1
SPECIFICATION Spec
SYMMETRY Symmetry
INVARIANTS MutualExclusion
PROPERTIES  ImplementsQueue
\* With every task finished and purged there is nothing left to do.
CHECK_DEADLOCK FALSE
CONSTRAINT Routed
