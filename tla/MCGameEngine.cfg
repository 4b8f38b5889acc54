SPECIFICATION Spec
CONSTANTS
    Workers = {w1, w2}
    Pollers = {d1}
    NoLock = NoLock
    LostToken = LostToken
    Players = {host, ann}
    Owner = host
    OptionIDs = {"a", "b"}
    TotalQuestions = 2
    OptionsOf <- MCOnlyCorrect
    Correct <- MCCorrectIsA
    InitialLives = 2
    Timed = TRUE
    Faults = {}
    Watched <- AllEvents
SYMMETRY WorkerSymmetry
INVARIANTS
    Serialized
    ClosedQuestionsSettled
    AnnouncedIsTrue
    CloseEventsInOrder
PROPERTIES
    NoEarlyClose
    ImplementsGameSpec
