SPECIFICATION Spec
CONSTANTS
    sonarr = sonarr
    radarr = radarr
    decline = decline
    Service = {sonarr, radarr, decline}
    Own = {decline}
    Claiming = {sonarr}
    MaxPin = 2
    MaxMain = 3
CONSTRAINT Scope
INVARIANTS
    PinAndRecordings
    NeverEmptied
    CommitFindsItsBase
PROPERTIES
    NothingUndone
    HeldBackAlone
