SPECIFICATION Spec
CONSTANTS
    TextFields = {"token"}
    ListFields = {"to"}
    ModelFields = {"model"}
    Sensitive = {"token"}
    Atom = {"a"}
    Keys = 2
    Retentions <- SomeRetentions
    Dumps = {"d1"}
    MaxEdits = 2
    MaxRequests = 2
    MaxOpenings = 1
INVARIANTS
    StoredIsEntered
    UnlistedIsStored
    SavingHasRequest
PROPERTIES
    NeverHalfFinished
    DraftsKept
CHECK_DEADLOCK FALSE
