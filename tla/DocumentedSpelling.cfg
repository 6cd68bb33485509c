SPECIFICATION Spec
CONSTANTS
    Types <- AllTypes
    Values <- AllValues
CHECK_DEADLOCK FALSE
INVARIANTS
    DeclaredIsCompiled
