SPECIFICATION Spec
CONSTANTS
    sonarr = sonarr
    decline = decline
    lscr = lscr
    elsewhere = elsewhere
    Service = {sonarr}
    OwnImages = {}
    Image = {lscr}
    Tag <- MCTag
    MaxBuild = 2
    MaxLog = 3
    MaxDay = 0
INVARIANT
    ReaffirmedPasses
