\* One arm, its unit killed at any moment, every deadline passing at any moment.
CONSTANTS
    a = a
    b = b
    NoParent = NoParent
    None = None
    Entity <- TheEntities
    Corpora <- TheCorpora
    Queries = 1
    Codes <- TheCodes
SPECIFICATION FairSpec
INVARIANT AcceptedIsWhole
INVARIANT ReturnsQuiet
PROPERTY ArmReturns
CHECK_DEADLOCK FALSE
