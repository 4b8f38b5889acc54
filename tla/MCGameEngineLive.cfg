SPECIFICATION FairSpec
CONSTANTS
    Workers = {w1}
    Pollers = {d1, d2}
    NoLock = NoLock
    LostToken = LostToken
    Players = {host, ann}
    Owner = host
    OptionIDs = {"a", "b"}
    TotalQuestions = 2
    OptionsOf <- MCOptionsOf
    Correct <- MCCorrect
    InitialLives = 1
    Timed = TRUE
    Faults = {}
    Watched <- AllEvents
PROPERTIES
    DeadlinesHonored
    GameOverAnnounced
