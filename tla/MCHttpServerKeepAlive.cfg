\* The body is enough for it: `ok' is taken to hold TRUE when it is not set.
SPECIFICATION Spec
CONSTANTS
    Routes <- MCRoutes
    Templates <- MCTemplates
    MaxRequests = 2
    Uninitialised = {TRUE}
    Files <- MCFiles
    PageSize = 1
CHECK_DEADLOCK FALSE
INVARIANTS
    KeepAliveKept
