SPECIFICATION Spec
CONSTANTS
    m1 = m1
    m2 = m2
    m3 = m3
    r1 = r1
    k1 = k1
    k2 = k2
    f1 = f1
    f2 = f2
    old = old
    mine = mine
    theirs = theirs
    NoProcess = NoProcess
    NoDoc = NoDoc
    Keep = Keep
    NoDb = NoDb
    Mutator <- AllMutators
    Repairer <- OneRepairer
    Checker <- TwoCheckers
    Casts <- AllCasts
    Killable <- MayBeKilled
    Alone <- EveryWriter
    Doc <- Facts
    Decision <- Nobody
    Content <- Contents
    Change <- Changes
    Original <- Start0
    MaxEdits = 1
PROPERTIES
    
    SyncedOnSuccess
    FailureLeavesNoTrace
SYMMETRY Alike
