\* One episode of a feed; the worker dies once and nothing else goes wrong.
SPECIFICATION Spec
CONSTANTS
    Episode = {e1}
    NoEpisode = NoEpisode
    MaxJobs = 10
    RetryMax = 1
    ArchiveAudio = TRUE
    Inference = TRUE
    Faults = {}
    Kinds = {"feed"}
    Stragglers = {}
    MaxCrashes = 1
    MaxManual = 0
PROPERTIES
    DoneRests
CHECK_DEADLOCK FALSE
