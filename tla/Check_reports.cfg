SPECIFICATION CheckSpec
CONSTANTS
    S = S
    K = K
    L = L
    C = C
    D = D
    R = R
    RX = RX
    U = U
    P = P
    M = M
    Gone = Gone
    None = None
    goal = goal
    own = own
    must = must
    short = short
    Id <- Everything
    IdOrder <- Order
    Kind <- Kinds
    KindOf <- Kinded
    BuiltIn = {"system", "container", "component", "ref", "prd"}
    Canvases <- Definitions
    ChildKind <- Kids
    Members <- Tabled
    Key = "ID"
    Shaped <- LookAlikes
    Needed = short
    Title <- Titles
    Goal <- GoalCell
    Derived = {"Name"}
    Longer <- Prefixed
    Scope <- Scopes
    Origin <- Origins
    Drafts <- Writings
    Starts <- Bases
    Asked <- Requests
    MaxEdits = 1
INVARIANTS
    ReadersAgree
    FixSettles
    FocusedSaysTheSame
PROPERTIES
    ReadyIsFinished
CHECK_DEADLOCK FALSE
