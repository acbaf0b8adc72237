SPECIFICATION Spec
CONSTANTS
    p1 = p1  p2 = p2
    d1 = d1  d2 = d2
    n1 = n1  n2 = n2  n3 = n3
    Callers <- MCCallers
    Docs    <- MCDocs
    Names   <- MCNames
    Missing = Missing
    Special = Special
    MaxBegun = 3
    MaxHarm  = 2
SYMMETRY Interchangeable
INVARIANTS
    TypeOK
    AlwaysWhole
    NothingLeftBehind
PROPERTIES
    SpecialFilesStay
    IsAtomicCell
CHECK_DEADLOCK FALSE
