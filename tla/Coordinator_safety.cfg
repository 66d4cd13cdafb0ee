SPECIFICATION Spec
CONSTANTS
    c1 = c1
    c2 = c2
    c3 = c3
    c4 = c4
    NoClient = NoClient
    Client <- FourClients
    QueueCap = 1
    Denied <- NoneOfThem
    Killable <- TwoOfThem
INVARIANTS
    TypeOK
    WriterExclusion
    LeaderReachable
    AtMostOnce
    HonestOutcome
PROPERTIES
    ImplementsSerialWriter
