SPECIFICATION Spec
CONSTANTS
    S = S
    K1 = K1
    K2 = K2
    A = A
    B = B
    R1 = R1
    R2 = R2
    old = old
    new = new
    goal = goal
    own = own
    Scope = Scope
    rename = rename
    reparent = reparent
    make = make
    makeBox = makeBox
    dropBox = dropBox
    dropRef = dropRef
    dropA = dropA
    reword = reword
    climb = climb
    clash = clash
    addText = addText
    NoFact = NoFact
    NoType = NoType
    NoTitle = NoTitle
    NoUnit = NoUnit
    Members = "Members"
    Cited = "Cited"
    Goal = goal
    Fact <- Facts
    Type <- Types
    TypeOf <- Kinds
    ChildType <- Kids
    Title <- Titles
    Text <- Texts
    Section <- Sections
    Unit <- EveryDay
    Plan <- PlanOf
    Genesis <- Start
    Canvases <- Shapes
    MaxRuns = 3
INVARIANTS
    MembershipExact
    GraphNeverStrands
    InstancesValid
PROPERTIES
    
    AuthoredKept
