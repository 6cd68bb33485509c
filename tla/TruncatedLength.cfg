SPECIFICATION Spec
CONSTANTS
    Platforms <- Scaled
    U64Range = 16
    U32Range = 6
    I64Max = 7
    Sizes = {1, 2, 4}
    MaxSource = 7
\* A request that is done or refused goes no further.
CHECK_DEADLOCK FALSE
INVARIANTS
    TooShortIsTrue
