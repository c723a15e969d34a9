SPECIFICATION Spec
CONSTANTS
    Bindings = {1, 2}
    Attrs <- MCAttrs
    Rows <- MCRows
    Outcomes = {"pass", "exception"}
    Matches <- MCMatches
    Requests = {1, 2}
    Of <- MCOf
    MaxEdits = 1
    AuthBrowsers = {1, 2}
    Devices = {1, 2}
    Classes <- MCClasses
    StaticTokens = {1}
    Step = 1
    Validity = 2
    MaxTime = 2
    MaxSent = 1
    MaxEntries = 2
    Guests = {1, 2}
    Links = {1, 2, 3}
    MaxAttempts = 1
    Window = 1
    MaxClock = 1
    Recipients = {1, 2}
    Rules = {1, 2}
    Transports = {1}
    NotifyWorkers = {1}
    Setups <- MCSetups
    MaxEvents = 4
    MaxOccurring = 1
    MaxRemovals = 1
    MaxFaults = 1
    Streams = {1}
    SignalWorkers = {1, 2}
    MaxSignals = 2
    MaxAgain = 1
    MaxDeaths = 1
    Persons = {1, 2}
    ScimKeys = {1, 2}
    ScimNames = {1, 2}
    Labels = {1}
    Callers = {1, 2}
    Patches <- MCPatches
    MaxCalls = 3
INVARIANTS AnswerExplained OnceEach RateKept
INVARIANTS LoopStopped  PushedOnce  DataAgree ListTrue
PROPERTIES SpentLink
\* Browsers may stop, and the bounds end every run.
CHECK_DEADLOCK FALSE
