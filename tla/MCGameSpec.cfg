SPECIFICATION LSpec
CONSTANTS
    Players = {host, ann, bob}
    Owner = host
    OptionIDs = {"a", "b", "c"}
    TotalQuestions = 3
    OptionsOf <- MCOptionsOf
    Correct <- MCCorrect
    InitialLives = 2
    MayAbandon = TRUE
SYMMETRY GuestSymmetry
CHECK_DEADLOCK FALSE
INVARIANTS
    TypeOK
    LivesMatchAnswers
    EndedForItsReason
    LeaderIsStrict
PROPERTIES
    AnswersAreFinal
    OnlyForward
