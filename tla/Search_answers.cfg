SPECIFICATION Spec
CONSTANTS
    p1 = p1
    p2 = p2
    p3 = p3
    a = a
    b = b
    c = c
    d = d
    Gone = Gone
    Old = Old
    Mixed = Mixed
    Proc <- ThreeProcs
    Entity <- FourEntities
    MaxEdits = 1
    Killable <- FirstTwo
    Hampered <- SecondOne
    Late <- LastOne
    Corpora <- Everything
CHECK_DEADLOCK FALSE
INVARIANTS
    QuietSearchAnswers
    FilesLeftWhole
PROPERTIES
    FreshWhenAlone
    AnswerFollowsHits
