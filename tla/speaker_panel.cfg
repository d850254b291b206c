SPECIFICATION Spec
CONSTANTS
    N = 3
    Labels = 3
    Person = {"ann"}
    Episodes <- SomeEpisodes
    Again <- SomeAgain
    Pauses = {}
    Carried = {0}
    MaxRebuilds = 1
    Cards = {0}
    Buttons = {"host"}
    MaxRequests = 2
    MaxEditors = 1
INVARIANTS
    CarriedNamesFlagged
    NoPhantoms
    PageFollows
    BlockedByRequest
PROPERTIES
    ConfirmedStays
CHECK_DEADLOCK FALSE
