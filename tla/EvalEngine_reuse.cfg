SPECIFICATION FromAFullTree
CONSTANTS
    Paths <- ThePaths
    Facts <- TheFacts
    Content <- TheContent
    MayHold <- TheMayHold
    LinesOf <- TheLines
    Root <- OneRoot
    SpecsOf <- TheSpecs
    Absent = Absent
    Nil = Nil
    Item = Item
    Failed = Failed
    Interferes = TRUE
    MaxEdits = 2
    MaxEvals = 2
PROPERTIES
    ReuseIsSound
    NoVacuousHolds
CHECK_DEADLOCK FALSE
