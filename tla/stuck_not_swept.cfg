\* One episode added by URL; an API request or the worker dies once.
SPECIFICATION FairSpec
CONSTANTS
    Episode = {e1}
    NoEpisode = NoEpisode
    MaxJobs = 10
    RetryMax = 1
    ArchiveAudio = TRUE
    Inference = TRUE
    Faults = {}
    Kinds = {"url"}
    Stragglers = {}
    MaxCrashes = 1
    MaxManual = 0
PROPERTIES
    StuckIsSwept
CHECK_DEADLOCK FALSE
