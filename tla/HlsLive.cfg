\* playlists are never older than the last one read
SPECIFICATION FairSpec
CONSTANTS
    MaxSeg = 6
    Window = 3
    Lag = 0
    Hosts = {home}
    Home = home
    PlaylistMoves = FALSE
    SegmentsMove = FALSE
    Masters <- AnyMaster
INVARIANTS LiveInv ReadPosInRange EndedIsComplete OnlyUnplayed QualityHonoured
PROPERTIES PlaysInOrder SessionEnds
