\* One episode of a feed, uploaded, or left in mid-pipeline by older code; the worker or
\* an API request may die twice, anywhere; one automatic retry.
SPECIFICATION FairSpec
CONSTANTS
    Episode = {e1}
    NoEpisode = NoEpisode
    MaxJobs = 10
    RetryMax = 1
    ArchiveAudio = TRUE
    Inference = TRUE
    Faults = {"TRANSIENT_NETWORK"}
    Kinds = {"feed", "upload"}
    Stragglers = {"embedding"}
    MaxCrashes = 2
    MaxManual = 0
INVARIANTS
    TypeOK
    RetryBudget
    LeakedClaims
PROPERTIES
    NoSilentFailure
    Settles
    AlertsFlushed
    LifecycleImplemented
CHECK_DEADLOCK FALSE
