SPECIFICATION Spec
CONSTANTS
    Workers = {w1}
    Pollers = {d1}
    NoLock = NoLock
    LostToken = LostToken
    Players = {host, ann}
    Owner = host
    OptionIDs = {"a"}
    TotalQuestions = 2
    OptionsOf <- MCOnlyCorrect
    Correct <- MCCorrectIsA
    InitialLives = 1
    Timed = TRUE
    Faults = {"error"}
    Watched = {"question_closed", "game_over"}
PROPERTY NoEarlyClose
