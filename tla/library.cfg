SPECIFICATION LibrarySpec
CONSTANTS
    Feeds = {"a", "b"}
    MaxEpisodes = 2
    MaxClicks = 3
    Queries = {q1, q2}
    Sources = {"uploads"}
    Speakers = {"ann"}
    Sizes = {1, 2}
    DefaultSize = 1
    Hits <- SomeHits
    SpeakersOf <- SomeSpeakers
    MaxMoves = 3
    MaxVisits = 2
    MaxFaults = 1
    Episodes = {"a", "b"}
    Stages = {"transcribing"}
    DoneLimit = 1
    MaxPolls = 1
    MaxSteps = 1
    MaxFilters = 1
    Recordings = {"a", "b"}
    Length = 2
    MaxOpenings = 3
SYMMETRY SomeSymmetry
CHECK_DEADLOCK FALSE
INVARIANTS
    PreviewOfThisDialog
    ListSettled
    TotalsTrue
    PageInRange
    UrlAgrees
    FreshOptions
    PlaysWhatItShows
    BarMatchesRows
    EveryEpisodeShown
PROPERTIES
    HiddenKept
