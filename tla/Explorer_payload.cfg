SPECIFICATION MCExplorerSpec
CONSTANTS
    Node <- TheNodes
    TypeOf <- TheTypes
    LookOf <- TheLooks
    DateOf <- TheDates
    Links <- TheLinks
    Spare <- Added
    Targets <- Staged
    Stores <- TheStores
    MaxEdits = 2
CHECK_DEADLOCK FALSE
INVARIANTS
    PayloadSound
    NothingCollides
    RowsAreLongestPaths
    RoutesKeepToRoads
