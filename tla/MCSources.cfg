SPECIFICATION Spec
CONSTANTS
    Sources = {1}
    People = {1, 2}
    Groups = {3}
    UserNames = {"x", "y"}
    SyncWorkers = {1, 2}
    PKs = {1, 2, 3, 4, 5, 6}
    Options <- MCOptions
    MaxEdits = 2
    MaxMishaps = 2
    Browsers = {1, 2}
    LoginNames = {"x", "y"}
    Identities = {"i"}
    UserKeys = {1, 2, 3}
    ConnKeys = {1, 2, 3}
    SourceGroups = {"g"}
    MatchModes = {"identifier", "username_link", "username_deny"}
    GroupModes = {"identifier", "name_link", "name_deny"}
    MaxChanges = 1
    Sessions = {1}
    Tabs = {1}
    Instances = {1, 2}
    Assignments <- MCAssignments
    MaxTokens = 2
    Limit = 1
INVARIANTS  NotTakenOver LimitKept
PROPERTIES PresentKept LdapConverges  TabsClosed 
CHECK_DEADLOCK FALSE
