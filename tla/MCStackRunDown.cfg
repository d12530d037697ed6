SPECIFICATION Spec
CONSTANTS
    jellyfin = jellyfin
    recyclarr = recyclarr
    caddy = caddy
    media = media
    tuning = tuning
    proxy = proxy
    empty = empty
    torrent = torrent
    Unknown = unknown
    Service <- MCService
    Profile <- MCProfile
    Request <- MCRequest
    ProfileOf <- MCProfileOf
    Unrunnable <- MCUnrunnable
    KnownBroken <- MCKnownBroken
    Container <- MCContainer
    MaxRestarts = 1
INVARIANT
    DownLeavesNothing
