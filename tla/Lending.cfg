SPECIFICATION Spec
CONSTANTS
    b1 = b1
    b2 = b2
    b3 = b3
    b4 = b4
    b5 = b5
    b6 = b6
    o1 = o1
    None = None
    Blocks = {b1, b2, b3, b4, b5, b6}
    Objects = {o1}
    Signatures <- Both
    MaxDepth = 2
SYMMETRY Interchangeable
CHECK_DEADLOCK FALSE
INVARIANTS
    TypeOK
    OwnedOnce
    LentIsReadable
    UndefinedOnlyAfterDetach
    IInv
