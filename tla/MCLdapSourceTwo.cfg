SPECIFICATION LdapSpec
CONSTANTS
    Sources = {1, 2}
    People = {1, 2}
    Groups = {3}
    UserNames = {"x", "y"}
    SyncWorkers = {1, 2}
    PKs = {1, 2, 3, 4, 5, 6}
    Options <- MCOptions
    MaxEdits = 0
    MaxMishaps = 0
PROPERTIES PresentKept
