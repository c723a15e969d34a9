SPECIFICATION MCSpec
CONSTANTS
    Reqs = {r1, r2}
    Users = {alice, bob}
    Flows = {"authentication", "login", "refuse"}
    FlowBindings <- MCFlowBindings
    Unauthenticated = {"login"}
    MaxTries = 2
    MaxPlans = 3
    MaxSids = 3
    MaxPolicyChanges = 1
SYMMETRY Symmetry
INVARIANTS CompleteLogin
\* The browser may send no further request, and the bounds end every run.
CHECK_DEADLOCK FALSE
