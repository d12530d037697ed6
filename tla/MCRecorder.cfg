SPECIFICATION Spec
CONSTANTS
    one = one
    other = other
    sonarr = sonarr
    radarr = radarr
    jellyfin = jellyfin
    nosuch = nosuch
    Port = {p1, p2}
    Probes = 2
    Runner <- MCRunner
    Service <- MCService
    Wanted <- MCWanted
    Recipes <- MCRecipes
    Theirs <- MCTheirs
CONSTRAINTS
    TwoAtOnce
    OneIsFree
INVARIANTS
    ExitMeansRecorded
    TheirImagesStay
    ClearedAway
    AsksItsOwn
PROPERTIES
    NotEachOthers
    InvocationEnds
