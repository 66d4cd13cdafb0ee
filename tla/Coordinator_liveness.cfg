SPECIFICATION Spec
CONSTANTS
    c1 = c1
    c2 = c2
    c3 = c3
    c4 = c4
    NoClient = NoClient
    Client <- ThreeClients
    QueueCap = 1
    Denied <- OneOfThem
    Killable <- TwoOfThem
PROPERTIES
    EveryRunReports
    LockComesFree
