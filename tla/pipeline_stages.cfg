\* Two episodes of feeds, one automatic retry each; nothing dies and no user retries.
SPECIFICATION Spec
CONSTANTS
    Episode = {e1, e2}
    NoEpisode = NoEpisode
    MaxJobs = 13
    RetryMax = 1
    ArchiveAudio = TRUE
    Inference = TRUE
    Faults = {"TRANSIENT_NETWORK"}
    Kinds = {"feed"}
    Stragglers = {}
    MaxCrashes = 0
    MaxManual = 0
INVARIANTS
    OneInFlight
    StageInputs
SYMMETRY Interchangeable
CHECK_DEADLOCK FALSE
