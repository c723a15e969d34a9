CONSTANTS
    Procs = {p1, p2}
    Msgs = {m1}
    Tenants = {public}
    DefaultTenant = public
    MaxRetries = 1
    Prefetch = 1
    MaxApiRetries = 0
    MaxLosses = 0
    MaxCrashes = 0
    MaxStops = 0
SPECIFICATION Spec
SYMMETRY Symmetry
INVARIANT Exclusive
\* With every task finished and purged there is nothing left to do.
CHECK_DEADLOCK FALSE
