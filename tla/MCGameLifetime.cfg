SPECIFICATION Spec
CONSTANTS
    Actors = {host, guest}
    Host = host
    TotalQuestions = 2
    IdleTTL = 3
    FinishedTTL = 1
CHECK_DEADLOCK FALSE
INVARIANTS
    TypeOK
    WholeOrGone
    AnswersOutliveQuestion
    FinishedLeavesNothing
    ListedUnlessForgotten
PROPERTY
    EverythingExpires
