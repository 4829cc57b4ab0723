SPECIFICATION FairSpec
CONSTANTS
    Routes <- MCRoutes
    Templates <- MCTemplates
    MaxRequests = 3
    Uninitialised = {TRUE, FALSE}
    Files <- MCFiles
    PageSize = 1
CHECK_DEADLOCK FALSE
INVARIANTS
    TypeOK
    HandlersGetTheirRequests
    AnswersInOrder
PROPERTIES
    PlainRequestsAnswered
