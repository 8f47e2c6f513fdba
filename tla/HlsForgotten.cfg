\* playlists come from a cache that may be one segment behind
SPECIFICATION Spec
CONSTANTS
    MaxSeg = 8
    Window = 3
    Lag = 1
    Hosts = {home}
    Home = home
    PlaylistMoves = FALSE
    SegmentsMove = FALSE
    Masters <- NoVariants
INVARIANT OnlyUnplayed
