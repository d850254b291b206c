\* One episode added by URL whose download is refused; nothing dies.
SPECIFICATION Spec
CONSTANTS
    Episode = {e1}
    NoEpisode = NoEpisode
    MaxJobs = 10
    RetryMax = 1
    ArchiveAudio = TRUE
    Inference = TRUE
    Faults = {"HTTP_ACCESS"}
    Kinds = {"url"}
    Stragglers = {}
    MaxCrashes = 0
    MaxManual = 0
INVARIANTS
    TerminalFailureNotified
CHECK_DEADLOCK FALSE
