SPECIFICATION HSpec
CONSTANTS
    Players = {host, ann}
    Owner = host
    OptionIDs = {"a", "b"}
    TotalQuestions = 2
    OptionsOf <- MCOptionsOf
    Correct <- MCCorrect
    InitialLives = 2
    MayAbandon = TRUE
    GameRow = game
    DefaultLives = 3
    HistoryFaults = {"error", "crash"}
CHECK_DEADLOCK FALSE
INVARIANTS
    HistoryNeverAhead
    HistoryCatchesUp
