SPECIFICATION Spec
CONSTANTS
    add = add
    mul = mul
    charSig = charSig
    int8Sig = int8Sig
    int32Sig = int32Sig
    int8 = int8
    int32 = int32
    None = None
    Names = {add, mul}
    Keys = {charSig, int32Sig}
    NativeSigs = {int8, int32}
    Compile <- Compiled
    MaxDepth = 2
CHECK_DEADLOCK FALSE
INVARIANTS
    TypeOK
    WrapperCallable
    OneSpecPerName
    CallIntact
    ListedIsCached
    StableKeyDescribesSpec
    LoadedIsReachable
    IInv
PROPERTIES
    ImplementsFunctionCache
    LateGivesNothingNew
