\* segments are redirected to another host
SPECIFICATION Spec
CONSTANTS
    MaxSeg = 3
    Window = 2
    Lag = 0
    Hosts = {home, cdn}
    Home = home
    PlaylistMoves = FALSE
    SegmentsMove = TRUE
    Masters <- NoVariants
INVARIANT OnlyUnplayed
