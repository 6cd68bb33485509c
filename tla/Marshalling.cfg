SPECIFICATION Spec
CONSTANTS
    Types <- AllTypes
    Values <- AllValues
\* A value that was rejected, passed or returned goes no further.
CHECK_DEADLOCK FALSE
INVARIANTS
    TypeOK
    IntegersFit
    ValidatedCompiles
    CheckedConverts
    NoDanglingResult
    ReceivedCanBePassedBack
    SameKeySameSignature
