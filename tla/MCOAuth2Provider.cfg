SPECIFICATION Spec
CONSTANTS
    Users = {alice}
    Sessions = {s1}
    SessionUser <- OneUser
    Reqs = {r1, r2}
    ResponseTypes = {"code id_token"}
    Scopes = {"openid", "offline_access"}
    Asked <- AskedScopes
    None = None
    MaxRows = 3
    MaxExpired = 1
SYMMETRY Symmetry
INVARIANTS LogoutEndsAccess DeactivationComplete
PROPERTIES GoneStaysGone NoExchangeAfterAnswer
\* The bounds end every run.
CHECK_DEADLOCK FALSE
