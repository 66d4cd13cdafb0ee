SPECIFICATION LifecycleSpec
CONSTANTS
    adr1 = adr1
    adr2 = adr2
    prd1 = prd1
    c31 = c31
    c3101 = c3101
    text1 = text1
    text2 = text2
    Unwritten = Unwritten
    NoDoc = NoDoc
    NoFact = NoFact
    NoStore = NoStore
    Adr <- TwoAdrs
    Memo <- OnePrd
    Fact <- TwoFacts
    ParentOf <- ListedBy
    SweepOrder <- IdOrder
    Text <- TwoTexts
    Retires <- Retiring
    Origins <- AllOrigins
    MaxVersion = 3
    MaxRuns = 3
CHECK_DEADLOCK FALSE
INVARIANTS
    MigrationFolds
PROPERTIES
    SettledHolds
    SupersedeKeepsAcyclic
    LatchProvedByDocuments
