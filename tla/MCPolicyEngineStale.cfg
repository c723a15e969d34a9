SPECIFICATION PolicySpec
CONSTANTS
    Bindings = {1}
    Attrs <- OneRow
    Rows <- PlainRows
    Outcomes = {"pass", "fail"}
    Matches <- SomeMatches
    Requests = {1, 2}
    Of <- OneUser
    MaxEdits = 1
INVARIANT FreshAfterSave
CHECK_DEADLOCK FALSE
