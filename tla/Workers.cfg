SPECIFICATION Spec
CONSTANTS
    t1 = t1
    t2 = t2
    lib1 = lib1
    lib2 = lib2
    s1 = s1
    g1 = g1
    g2 = g2
    p1 = p1
    p2 = p2
    f1 = f1
    f2 = f2
    None = None
    Threads = {t1, t2}
    Libs = {lib1, lib2}
    Symbols = {s1}
    Sigs = {g1}
    Ptrs = {p1}
    Fns = {f1, f2}
    LibThread <- TwoThreadLibs
    FnThread <- TwoThreadFns
    MaxDepth = 2
CHECK_DEADLOCK FALSE
INVARIANTS
    RunningCallbackBacked
    UndefinedOnlyAfterRelease
    CallableIsAlive
