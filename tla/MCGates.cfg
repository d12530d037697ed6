SPECIFICATION GatesSpec
CONSTANTS
    rust = rust
    actions = actions
    Language = {rust, actions}
    Unnamed = {rust}
    Elsewhere = {actions}
    MaxCommit = 2
    MaxPolls = 2
    Releases = 3
    Spelled <- MCSpelled
    Files = 2
    Key <- MCKey
    Osi = {"gpl"}
    Records = {"own", "gpl-only"}
    MaxPins = 4
    MIN_HISTORY_DAYS = 2
    QUIET_DAYS = 2
    ABANDONED_DAYS = 3
    PAGE = 2
    Project <- MCProject
INVARIANTS
    GreenMeansLooked
    NotRefusedForNothing
    NoFileUnread
    GateBearsOut
    CandidateBearsOut
CHECK_DEADLOCK FALSE
