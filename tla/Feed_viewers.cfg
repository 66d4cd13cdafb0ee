SPECIFICATION FeedSpec
CONSTANTS
    k1 = k1
    k2 = k2
    c1 = c1
    b1 = b1
    b2 = b2
    NoCmd = NoCmd
    Cmd <- TwoCommands
    Viewer <- OneViewer
    Builder <- TwoBuilders
    QueueLen = 2
    MaxLines = 3
    KeepLines = 1
    OldLog <- ShortOrFull
CHECK_DEADLOCK FALSE
INVARIANTS
    StreamHasNoHole
PROPERTIES
    ViewersConverge
