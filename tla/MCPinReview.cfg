SPECIFICATION Spec
CONSTANTS
    sonarr = sonarr
    decline = decline
    lscr = lscr
    elsewhere = elsewhere
    Service = {sonarr}
    OwnImages = {elsewhere}
    Image = {lscr, elsewhere}
    Tag <- MCTag
    MaxBuild = 2
    MaxLog = 3
    MaxDay = 1
CONSTRAINT Scope
INVARIANTS
    TagWasReviewed
    RunsOnBoth
    BotPasses
PROPERTIES
    MovedPinIsNamed
    BotTakesNewest
