SPECIFICATION Spec
CONSTANTS
    Offered = {"small", "large"}
    Retired = {"retired"}
    DefaultModel = "small"
    MaxHistory = 3
    Episodes = {"episode"}
    MaxQuestions = 2
    MaxTokens = 2
    MaxSplits = 2
    MaxVisits = 2
    MaxPicks = 1
INVARIANTS
    AnswersOwnQuestion
    FinishedIsWhole
    BlockedWhileReading
    HistoryPaired
    ModelOffered
PROPERTIES
    StoredIsChosen
    ErrorKept
CHECK_DEADLOCK FALSE
