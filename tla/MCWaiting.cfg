SPECIFICATION Spec
CONSTANTS
    jellyfin = jellyfin
    caddy = caddy
    recyclarr = recyclarr
    Service <- MCService
    Position <- MCPosition
    Container <- MCContainer
    Timeout <- MCTimeout
    Longest = 6
    Settle = 4
    Poll = 1
    Attempt = 2
INVARIANTS
    OneRoundsQueue
    DwellIsNeverLate
    AsLongAsTheSlowest
PROPERTIES
    DecidesOnce
    SteadyIsHeard
    WaitEnds
