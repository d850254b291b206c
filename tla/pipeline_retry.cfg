\* One episode; a user may retry it once, at any moment the API accepts it, and the
\* worker or an API request may die once.
SPECIFICATION Spec
CONSTANTS
    Episode = {e1}
    NoEpisode = NoEpisode
    MaxJobs = 17
    RetryMax = 0
    ArchiveAudio = TRUE
    Inference = TRUE
    Faults = {"TRANSIENT_NETWORK"}
    Kinds = {"url", "upload"}
    Stragglers = {}
    MaxCrashes = 1
    MaxManual = 1
INVARIANTS
    AudioBacked
    DonePlayable
    NeverStranded
    PipelinesBounded
CHECK_DEADLOCK FALSE
