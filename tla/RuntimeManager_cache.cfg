SPECIFICATION Spec
CONSTANTS
    p1 = p1
    p2 = p2
    p3 = p3
    proj1 = proj1
    proj2 = proj2
    Latest = Latest
    Unset = Unset
    Torn = Torn
    NoFile = NoFile
    Proc <- ThreeProcs
    Project <- TwoProjects
    Version <- TwoVersions
    Released = 2
    Assets = 2
    Killable <- OneOfThem
    Casts <- AllCasts
INVARIANTS
    CacheServes
