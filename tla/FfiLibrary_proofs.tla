------------------------- MODULE FfiLibrary_proofs -------------------------
(***************************************************************************)
(* Proofs about FfiLibrary, for any names and signatures, any definitions, *)
(* stable or not, and any nesting of operations.                           *)
(***************************************************************************)
EXTENDS FfiLibrary, TLAPS

-----------------------------------------------------------------------------
(* Stacks.                                                                 *)

\* What is left of a nonempty sequence without its last element.
LEMMA ShorterProperties ==
    ASSUME NEW S, NEW s \in Seq(S), s # <<>>
    PROVE  /\ SubSeq(s, 1, Len(s) - 1) \in Seq(S)
           /\ DOMAIN SubSeq(s, 1, Len(s) - 1) = 1 .. (Len(s) - 1)
           /\ Len(SubSeq(s, 1, Len(s) - 1)) = Len(s) - 1
           /\ \A n \in 1 .. (Len(s) - 1) :
                n \in DOMAIN s /\ n # Len(s) /\ SubSeq(s, 1, Len(s) - 1)[n] = s[n]
<1>1. Len(s) \in Nat /\ Len(s) # 0 /\ DOMAIN s = 1 .. Len(s)
    OBVIOUS
<1>2. SubSeq(s, 1, Len(s) - 1) \in Seq(S)
    OBVIOUS
<1>3. Len(SubSeq(s, 1, Len(s) - 1)) = Len(s) - 1
    BY <1>1
<1>4. \A n \in 1 .. (Len(s) - 1) : SubSeq(s, 1, Len(s) - 1)[n] = s[n]
    OBVIOUS
<1>5. DOMAIN SubSeq(s, 1, Len(s) - 1) = 1 .. (Len(s) - 1)
    BY <1>2, <1>3
<1>6. ASSUME NEW k \in Nat PROVE \A n \in 1 .. (k - 1) : n \in 1 .. k /\ n # k
    OBVIOUS
<1> QED
    BY <1>1, <1>2, <1>3, <1>4, <1>5, <1>6

\* The operation in progress, when there is one.
LEMMA TopProperties ==
    ASSUME TypeOK, Busy
    PROVE  /\ Len(stack) \in Nat
           /\ Len(stack) \in DOMAIN stack
           /\ DOMAIN stack = 1 .. Len(stack)
           /\ Top \in Frame
           /\ Top = stack[Len(stack)]
BY DEF TypeOK, Top, Busy

\* A change of the operation in progress leaves the others as they are.
LEMMA ContinueProperties ==
    ASSUME TypeOK, Busy, NEW fr \in Frame, Continue(fr)
    PROVE  /\ stack' \in Seq(Frame)
           /\ DOMAIN stack' = DOMAIN stack
           /\ stack'[Len(stack)] = fr
           /\ \A i \in DOMAIN stack : i # Len(stack) => stack'[i] = stack[i]
BY DEF TypeOK, Continue, Busy

\* The end of an operation leaves the others as they are.
LEMMA EndProperties ==
    ASSUME TypeOK, Busy, End
    PROVE  /\ stack' \in Seq(Frame)
           /\ DOMAIN stack' = 1 .. (Len(stack) - 1)
           /\ \A i \in DOMAIN stack' : i \in DOMAIN stack /\ i # Len(stack) /\ stack'[i] = stack[i]
<1>1. stack \in Seq(Frame) /\ stack # <<>>
    BY DEF TypeOK, Busy
<1> QED
    BY <1>1, ShorterProperties DEF End, Below

\* The start of an operation leaves the others as they are.
LEMMA AppendProperties ==
    ASSUME TypeOK, NEW fr \in Frame, stack' = Append(stack, fr)
    PROVE  /\ stack' \in Seq(Frame)
           /\ DOMAIN stack = 1 .. Len(stack)
           /\ DOMAIN stack' = 1 .. (Len(stack) + 1)
           /\ Len(stack) \in Nat
           /\ stack'[Len(stack) + 1] = fr
           /\ \A i \in DOMAIN stack : i \in DOMAIN stack' /\ stack'[i] = stack[i]
           /\ \A i \in DOMAIN stack' : i \in DOMAIN stack \/ i = Len(stack) + 1
<1>1. stack \in Seq(Frame) /\ DOMAIN stack = 1 .. Len(stack) /\ Len(stack) \in Nat
    BY DEF TypeOK
<1>2. stack' \in Seq(Frame) /\ Len(stack') = Len(stack) + 1
    BY <1>1
<1>3. DOMAIN stack' = 1 .. (Len(stack) + 1)
    BY <1>1, <1>2
<1>4. stack'[Len(stack) + 1] = fr
    BY <1>1
<1>5. \A i \in DOMAIN stack : i \in DOMAIN stack' /\ stack'[i] = stack[i]
    BY <1>1, <1>3
<1>6. \A i \in DOMAIN stack' : i \in DOMAIN stack \/ i = Len(stack) + 1
    BY <1>1, <1>3
<1> QED
    BY <1>1, <1>2, <1>3, <1>4, <1>5, <1>6

-----------------------------------------------------------------------------
(* Parts of the invariant that a step keeps.                               *)

\* A step that finds nothing new, and keeps the table of an open library.
LEMMA NothingFound ==
    ASSUME IInv,
           \A n \in Names, s \in NativeSigs : Found(n, s)' => Found(n, s),
           object' = "open" => object = "open" /\ bound' = bound
    PROVE  FoundIsBound'
BY DEF IInv, FoundIsBound

\* An operation that does not move stays in order, as long as the library of a
\* call is not closed and entries of the cache are not removed.
LEMMA FrameKept ==
    ASSUME IInv, volatile' = volatile, NEW i \in DOMAIN stack, stack'[i] = stack[i],
           stack[i].op = "call" /\ library => library',
           \A n \in Names : functionCache[n] # NoEntry => functionCache'[n] # NoEntry
    PROVE  InProgress(i)'
<1>1. stack[i] \in Frame
    BY DEF IInv, TypeOK
<1>2. stack[i].hits \subseteq Names
    BY <1>1 DEF Frame
<1>3. InProgress(i)
    BY DEF IInv
<1>4. CASE stack[i].op = "call"
    BY <1>3, <1>4 DEF InProgress
<1>5. CASE stack[i].op # "call"
    BY <1>2, <1>3, <1>5 DEF InProgress, LookedUp, Asked
<1> QED
    BY <1>4, <1>5

\* A signature that an operation has is one of the native layer.
LEMMA SpecsAreSignatures ==
    ASSUME TypeOK, NEW i \in DOMAIN stack, NEW n \in Names, stack[i].specs[n] # None
    PROVE  stack[i].specs[n] \in NativeSigs /\ Found(n, stack[i].specs[n])
<1>1. stack[i] \in Frame
    BY DEF TypeOK
<1>2. stack[i].specs \in [Names -> NativeSigs \cup {None}]
    BY <1>1 DEF Frame
<1> QED
    BY <1>2 DEF Found

\* While the object is not open, nothing is compiled.
LEMMA Entries ==
    ASSUME TypeOK, NEW n \in Names
    PROVE  /\ functionCache[n] \in Entry
           /\ functionCache[n].key \in Keys \cup {None}
           /\ functionCache[n].spec \in NativeSigs \cup {None}
           /\ bound[n] \in NativeSigs \cup {None}
           /\ functions[n] \in NativeSigs \cup {None}
           /\ functionCache[n].key # None => functionCache[n] # NoEntry
           /\ functionCache[n].spec # None => functionCache[n] # NoEntry
BY DEF TypeOK, Entry, NoEntry

\* A step that leaves both caches and what they are made of as they were, but
\* for the known addresses: it only has to keep the operations in order.
LEMMA OnlyOperations ==
    ASSUME IInv, UNCHANGED <<volatile, object, native, functionCache, functions, wrappers>>,
           symbolCache \subseteq symbolCache', symbolCache' \subseteq Names,
           reachable' = reachable, process' \in {"running", "aborted"}, servedClosed' \in BOOLEAN,
           stack' \in Seq(Frame),
           object = "none" => stack' = stack,
           \A i \in DOMAIN stack' : InProgress(i)',
           \A i \in DOMAIN stack', n \in Names, s \in NativeSigs :
                stack'[i].specs[n] = s => Found(n, s),
           library => reachable \/ \E i \in DOMAIN stack' : stack'[i].op = "dlopen"
    PROVE  IInv'
<1>1. TypeOK'
    BY DEF IInv, TypeOK, native
<1>2. OpenIsLoaded'
    BY DEF IInv, OpenIsLoaded, native
<1>3. FoundIsBound'
    <2>1. \A n \in Names, s \in NativeSigs : Found(n, s)' => Found(n, s)
        BY DEF Found
    <2> QED
        BY <2>1, NothingFound DEF native
<1>4. CachedIsWhole'
    BY DEF IInv, CachedIsWhole
<1>5. ListedIsCached'
    BY DEF IInv, ListedIsCached
<1>6. LoadedIsReachable'
    BY DEF LoadedIsReachable, native
<1> QED
    BY <1>1, <1>2, <1>3, <1>4, <1>5, <1>6 DEF IInv

-----------------------------------------------------------------------------
(* Steps that start, advance or end an operation.                          *)

\* An operation begins, with nothing found but what the others have.
LEMMA PushIInv ==
    ASSUME IInv, NEW fr \in Frame, stack' = Append(stack, fr),
           UNCHANGED <<volatile, object, reachable, native, caches, process, servedClosed>>,
           reachable, fr.op # "dlopen",
           fr.op # "call" => LookedUp(fr),
           fr.op = "call" => library /\ fr.compiling # None /\ fr.specs[fr.compiling] # None,
           \A n \in Names, s \in NativeSigs : fr.specs[n] = s => Found(n, s)
    PROVE  IInv'
<1>1. TypeOK
    BY DEF IInv
<1>2. /\ stack' \in Seq(Frame)
      /\ DOMAIN stack = 1 .. Len(stack)
      /\ DOMAIN stack' = 1 .. (Len(stack) + 1)
      /\ Len(stack) \in Nat
      /\ stack'[Len(stack) + 1] = fr
      /\ \A i \in DOMAIN stack : i \in DOMAIN stack' /\ stack'[i] = stack[i]
      /\ \A i \in DOMAIN stack' : i \in DOMAIN stack \/ i = Len(stack) + 1
    BY <1>1, AppendProperties
<1>3. \A i \in DOMAIN stack' : InProgress(i)'
    <2>1. ASSUME NEW i \in DOMAIN stack PROVE InProgress(i)'
        BY <1>2, FrameKept DEF native, caches
    <2>2. ASSUME NEW i \in DOMAIN stack', i = Len(stack) + 1 PROVE InProgress(i)'
        BY <1>2, <2>2 DEF InProgress, LookedUp, Asked, native, caches
    <2> QED
        BY <1>2, <2>1, <2>2
<1>4. \A i \in DOMAIN stack', n \in Names, s \in NativeSigs :
            stack'[i].specs[n] = s => Found(n, s)
    <2>1. \A i \in DOMAIN stack, n \in Names, s \in NativeSigs :
                stack[i].specs[n] = s => Found(n, s)
        BY NoneAssumption DEF Found
    <2> QED
        BY <1>2, <2>1
<1>5. object # "none"
    BY DEF IInv, OpenIsLoaded
<1> QED
    BY <1>1, <1>2, <1>3, <1>4, <1>5, OnlyOperations DEF IInv, TypeOK, caches

\* An operation goes on, and has found what a cache or another one has.
LEMMA ContinueIInv ==
    ASSUME IInv, Busy, NEW fr \in Frame, Continue(fr),
           UNCHANGED <<volatile, object, reachable, native, caches, process, servedClosed>>,
           fr.op = Top.op, fr.op # "call", LookedUp(fr),
           \A n \in Names, s \in NativeSigs : fr.specs[n] = s => Found(n, s)
    PROVE  IInv'
<1>1. TypeOK
    BY DEF IInv
<1>2. /\ stack' \in Seq(Frame)
      /\ DOMAIN stack' = DOMAIN stack
      /\ stack'[Len(stack)] = fr
      /\ \A i \in DOMAIN stack : i # Len(stack) => stack'[i] = stack[i]
    BY <1>1, ContinueProperties
<1>3. Len(stack) \in DOMAIN stack /\ Top = stack[Len(stack)]
    BY <1>1, TopProperties
<1>4. \A i \in DOMAIN stack' : InProgress(i)'
    <2>1. ASSUME NEW i \in DOMAIN stack, i # Len(stack) PROVE InProgress(i)'
        BY <1>2, <2>1, FrameKept DEF native, caches
    <2>2. InProgress(Len(stack))
        BY <1>3 DEF IInv
    <2>3. ASSUME NEW i \in DOMAIN stack, i = Len(stack) PROVE InProgress(i)'
        BY <1>2, <1>3, <2>2, <2>3 DEF InProgress, LookedUp, Asked, native, caches
    <2> QED
        BY <1>2, <2>1, <2>3
<1>5. \A i \in DOMAIN stack', n \in Names, s \in NativeSigs :
            stack'[i].specs[n] = s => Found(n, s)
    <2>1. \A i \in DOMAIN stack, n \in Names, s \in NativeSigs :
                stack[i].specs[n] = s => Found(n, s)
        BY NoneAssumption DEF Found
    <2> QED
        BY <1>2, <2>1
<1>6. object # "none"
    BY DEF IInv, OpenIsLoaded, Busy
<1>7. library => reachable \/ \E i \in DOMAIN stack' : stack'[i].op = "dlopen"
    BY <1>2, <1>3 DEF IInv, LoadedIsReachable
<1> QED
    BY <1>1, <1>2, <1>4, <1>5, <1>6, <1>7, OnlyOperations DEF IInv, TypeOK, caches

\* An operation ends and leaves no trace.
LEMMA EndIInv ==
    ASSUME IInv, Busy, End,
           UNCHANGED <<volatile, object, reachable, native, caches, process>>,
           servedClosed' \in BOOLEAN, Top.op # "dlopen"
    PROVE  IInv'
<1>1. TypeOK
    BY DEF IInv
<1>2. /\ stack' \in Seq(Frame)
      /\ DOMAIN stack' = 1 .. (Len(stack) - 1)
      /\ \A i \in DOMAIN stack' : i \in DOMAIN stack /\ i # Len(stack) /\ stack'[i] = stack[i]
    BY <1>1, EndProperties
<1>3. Len(stack) \in Nat /\ DOMAIN stack = 1 .. Len(stack) /\ Top = stack[Len(stack)]
    BY <1>1, TopProperties
<1>4. \A i \in DOMAIN stack' : InProgress(i)'
    BY <1>2, FrameKept DEF native, caches
<1>5. \A i \in DOMAIN stack', n \in Names, s \in NativeSigs :
            stack'[i].specs[n] = s => Found(n, s)
    BY <1>2, NoneAssumption DEF Found
<1>6. object # "none"
    BY DEF IInv, OpenIsLoaded, Busy
<1>7. library => reachable \/ \E i \in DOMAIN stack' : stack'[i].op = "dlopen"
    <2>1. \A i \in DOMAIN stack : stack[i].op = "dlopen" => i \in DOMAIN stack'
        BY <1>2, <1>3
    <2> QED
        BY <1>2, <2>1 DEF IInv, LoadedIsReachable
<1> QED
    BY <1>1, <1>2, <1>4, <1>5, <1>6, <1>7, OnlyOperations DEF IInv, TypeOK, caches

\* The library is closed, by close() or by a dlopen that fails: nothing is
\* found by it, and no call is in progress.
LEMMA CloseIInv ==
    ASSUME IInv, UNCHANGED <<volatile, reachable, caches, process, servedClosed>>,
           object' = "closed", library' = FALSE, bound' = [n \in Names |-> None],
           stack' \in Seq(Frame),
           \A i \in DOMAIN stack' : i \in DOMAIN stack /\ stack'[i] = stack[i],
           \A i \in DOMAIN stack : stack[i].op # "call"
    PROVE  IInv'
<1>1. TypeOK'
    BY DEF IInv, TypeOK, caches
<1>2. OpenIsLoaded'
    BY DEF OpenIsLoaded
<1>3. FoundIsBound'
    <2>1. \A n \in Names, s \in NativeSigs : Found(n, s)' => Found(n, s)
        BY DEF Found, caches
    <2> QED
        BY <2>1, NothingFound
<1>4. CachedIsWhole' /\ ListedIsCached' /\ LoadedIsReachable'
    BY DEF IInv, CachedIsWhole, ListedIsCached, LoadedIsReachable, caches
<1>5. \A i \in DOMAIN stack' : InProgress(i)'
    BY FrameKept DEF caches
<1> QED
    BY <1>1, <1>2, <1>3, <1>4, <1>5 DEF IInv

-----------------------------------------------------------------------------
(* Each action.                                                            *)

\* There is nothing at first.
LEMMA InitIInv == Init => IInv
<1> SUFFICES ASSUME Init PROVE IInv
    OBVIOUS
<1>4. stack \in Seq(Frame)
    BY DEF Init
<1>1. TypeOK
    BY <1>4 DEF Init, TypeOK, Entry, NoEntry
<1>2. DOMAIN stack = {}
    BY DEF Init
<1>3. FoundIsBound
    BY <1>2 DEF Init, FoundIsBound, Found, NoEntry
<1> QED
    BY <1>1, <1>2, <1>3 DEF Init, IInv, OpenIsLoaded, CachedIsWhole, ListedIsCached,
        LoadedIsReachable, NoEntry

\* The frame an operation starts with is one, and has found nothing.
LEMMA FirstFrame ==
    ASSUME TypeOK, NEW op \in {"getFunction", "getFunctions", "dlopen"},
           NEW def \in Definitions
    PROVE  LET fr == [op |-> op, def |-> def, todo |-> Asked(def), compiling |-> None,
                      specs |-> [n \in Names |-> None], hits |-> {},
                      unpublished |-> Asked(def), late |-> object = "closed"]
           IN  fr \in Frame /\ LookedUp(fr) /\ \A n \in Names : fr.specs[n] = None
BY DEF Frame, LookedUp, Asked, Definitions

LEMMA NewIInv == IInv /\ New /\ UNCHANGED volatile => IInv'
<1> SUFFICES ASSUME IInv, New, UNCHANGED volatile PROVE IInv'
    OBVIOUS
<1>1. stack = <<>> /\ wrappers = {} /\ functionCache = [n \in Names |-> NoEntry]
    BY DEF IInv, OpenIsLoaded, New
<1>2. TypeOK'
    BY DEF IInv, TypeOK, New, caches
<1>3. OpenIsLoaded'
    BY DEF IInv, OpenIsLoaded, New, caches
<1>4. FoundIsBound'
    BY <1>1 DEF FoundIsBound, Found, New, caches, NoEntry
<1>5. CachedIsWhole' /\ ListedIsCached' /\ LoadedIsReachable'
    BY DEF IInv, CachedIsWhole, ListedIsCached, LoadedIsReachable, New, caches
<1>6. DOMAIN stack' = {}
    BY <1>1 DEF New
<1> QED
    BY <1>2, <1>3, <1>4, <1>5, <1>6 DEF IInv

LEMMA DlopenIInv ==
    ASSUME IInv, NEW def \in Definitions, Dlopen(def), UNCHANGED volatile
    PROVE  IInv'
<1> DEFINE fr == [op |-> "dlopen", def |-> def, todo |-> Asked(def), compiling |-> None,
                  specs |-> [n \in Names |-> None], hits |-> {},
                  unpublished |-> Asked(def), late |-> object = "closed"]
<1>1. stack = <<>> /\ wrappers = {} /\ functionCache = [n \in Names |-> NoEntry]
    BY DEF IInv, OpenIsLoaded, Dlopen
<1>2. fr \in Frame /\ LookedUp(fr) /\ (\A n \in Names : fr.specs[n] = None) /\ fr.op = "dlopen"
    BY FirstFrame DEF IInv
<1>3. stack' = Append(stack, fr)
    BY DEF Dlopen, Begin
<1> HIDE DEF fr
<1>4. stack' = <<fr>> /\ stack' \in Seq(Frame) /\ DOMAIN stack' = {1} /\ stack'[1] = fr
    BY <1>1, <1>2, <1>3
<1>5. TypeOK'
    BY <1>4 DEF IInv, TypeOK, Dlopen, caches
<1>6. OpenIsLoaded'
    BY <1>4 DEF IInv, OpenIsLoaded, Dlopen, caches
<1>7. FoundIsBound'
    <2>1. \A n \in Names, s \in NativeSigs : ~Found(n, s)'
        BY <1>1, <1>2, <1>4 DEF Found, Dlopen, caches, NoEntry
    <2> QED
        BY <2>1 DEF FoundIsBound
<1>8. CachedIsWhole' /\ ListedIsCached'
    BY DEF IInv, CachedIsWhole, ListedIsCached, Dlopen, caches
<1>9. LoadedIsReachable'
    BY <1>2, <1>4 DEF LoadedIsReachable
<1>10. \A i \in DOMAIN stack' : InProgress(i)'
    BY <1>2, <1>4 DEF InProgress, LookedUp, Asked, Dlopen, caches
<1> QED
    BY <1>5, <1>6, <1>7, <1>8, <1>9, <1>10 DEF IInv

LEMMA AbortIInv == IInv /\ Abort /\ UNCHANGED volatile => IInv'
<1> SUFFICES ASSUME IInv, Abort, UNCHANGED volatile PROVE IInv'
    OBVIOUS
<1>1. \A i \in DOMAIN stack' : InProgress(i)'
    BY FrameKept DEF Abort, native, caches
<1>2. \A i \in DOMAIN stack, n \in Names, s \in NativeSigs :
            stack[i].specs[n] = s => Found(n, s)
    BY NoneAssumption DEF Found
<1> QED
    BY <1>1, <1>2, OnlyOperations DEF Abort, native, caches, IInv, TypeOK, LoadedIsReachable

LEMMA CloseActionIInv == IInv /\ Close /\ UNCHANGED volatile => IInv'
<1> SUFFICES ASSUME IInv, Close, UNCHANGED volatile PROVE IInv'
    OBVIOUS
<1> QED
    BY CloseIInv DEF Close, Borrowed, IInv, TypeOK

LEMMA GetSymbolIInv ==
    ASSUME IInv, NEW n \in Names, GetSymbol(n), UNCHANGED volatile
    PROVE  IInv'
<1>1. \A i \in DOMAIN stack' : InProgress(i)'
    BY FrameKept DEF GetSymbol, native
<1>2. \A i \in DOMAIN stack, m \in Names, s \in NativeSigs :
            stack[i].specs[m] = s => Found(m, s)
    BY NoneAssumption DEF Found
<1> QED
    BY <1>1, <1>2, OnlyOperations DEF GetSymbol, native, IInv, TypeOK, LoadedIsReachable

LEMMA ListFunctionsIInv == IInv /\ ListFunctions /\ UNCHANGED volatile => IInv'
<1> SUFFICES ASSUME IInv, ListFunctions, UNCHANGED volatile PROVE IInv'
    OBVIOUS
<1>1. \A i \in DOMAIN stack' : InProgress(i)'
    BY FrameKept DEF ListFunctions, native, caches
<1>2. \A i \in DOMAIN stack, n \in Names, s \in NativeSigs :
            stack[i].specs[n] = s => Found(n, s)
    BY NoneAssumption DEF Found
<1> QED
    BY <1>1, <1>2, OnlyOperations DEF ListFunctions, native, caches, IInv, TypeOK,
        LoadedIsReachable

LEMMA GetFunctionIInv ==
    ASSUME IInv, NEW n \in Names, NEW k \in Keys, GetFunction(n, k), UNCHANGED volatile
    PROVE  IInv'
<1> DEFINE def == [m \in Names |-> IF m = n THEN k ELSE None]
<1> DEFINE fr == [op |-> "getFunction", def |-> def, todo |-> Asked(def), compiling |-> None,
                  specs |-> [m \in Names |-> None], hits |-> {},
                  unpublished |-> Asked(def), late |-> object = "closed"]
<1>1. def \in Definitions
    BY DEF Definitions
<1> HIDE DEF def
<1>2. fr \in Frame /\ LookedUp(fr) /\ (\A m \in Names : fr.specs[m] = None) /\ fr.op = "getFunction"
    BY <1>1, FirstFrame DEF IInv
<1>3. stack' = Append(stack, fr)
    BY DEF GetFunction, Begin, def
<1> HIDE DEF fr
<1> QED
    BY <1>2, <1>3, PushIInv, NoneAssumption DEF GetFunction, ProgramRuns

LEMMA GetFunctionsIInv ==
    ASSUME IInv, NEW def \in Definitions, GetFunctions(def), UNCHANGED volatile
    PROVE  IInv'
<1> DEFINE fr == [op |-> "getFunctions", def |-> def, todo |-> Asked(def), compiling |-> None,
                  specs |-> [m \in Names |-> None], hits |-> {},
                  unpublished |-> Asked(def), late |-> object = "closed"]
<1>2. fr \in Frame /\ LookedUp(fr) /\ (\A m \in Names : fr.specs[m] = None) /\ fr.op = "getFunctions"
    BY FirstFrame DEF IInv
<1>3. stack' = Append(stack, fr)
    BY DEF GetFunctions, Begin
<1> HIDE DEF fr
<1> QED
    BY <1>2, <1>3, PushIInv, NoneAssumption DEF GetFunctions, ProgramRuns

LEMMA CallIInv ==
    ASSUME IInv, NEW w \in Wrapper, Call(w), UNCHANGED volatile
    PROVE  IInv'
<1> DEFINE fr == [op |-> "call", def |-> [n \in Names |-> None], todo |-> {},
                  compiling |-> w.name, hits |-> {}, unpublished |-> {}, late |-> FALSE,
                  specs |-> [n \in Names |-> IF n = w.name THEN w.spec ELSE None]]
<1>1. w.name \in Names /\ w.spec \in NativeSigs /\ w = [name |-> w.name, spec |-> w.spec]
    BY DEF Wrapper
<1>2. fr \in Frame
    BY <1>1 DEF Frame
<1>3. fr.op = "call" /\ fr.compiling # None /\ fr.specs[fr.compiling] # None
    BY <1>1, NoneAssumption
<1>4. \A n \in Names, s \in NativeSigs : fr.specs[n] = s => Found(n, s)
    BY <1>1, NoneAssumption DEF Found, Call
<1>5. stack' = Append(stack, fr)
    BY DEF Call
<1> HIDE DEF fr
<1>6. library /\ reachable
    BY DEF Call, ProgramRuns, IInv, OpenIsLoaded
<1> QED
    BY <1>2, <1>3, <1>4, <1>5, <1>6, PushIInv DEF Call

LEMMA ReturnIInv == IInv /\ Return /\ UNCHANGED volatile => IInv'
<1> SUFFICES ASSUME IInv, Return, UNCHANGED volatile PROVE IInv'
    OBVIOUS
<1> QED
    BY EndIInv DEF Return, In, IInv, TypeOK

\* What the operation in progress is known to satisfy.
LEMMA TopLooksUp ==
    ASSUME IInv, In(Reading)
    PROVE  /\ TypeOK /\ Busy
           /\ Len(stack) \in DOMAIN stack
           /\ Top = stack[Len(stack)]
           /\ Top \in Frame
           /\ Top.op \in Reading
           /\ LookedUp(Top)
           /\ InProgress(Len(stack))
<1>1. TypeOK /\ Busy /\ Top.op \in Reading
    BY DEF IInv, In
<1>2. Len(stack) \in DOMAIN stack /\ Top = stack[Len(stack)] /\ Top \in Frame
    BY <1>1, TopProperties
<1>3. InProgress(Len(stack))
    BY <1>2 DEF IInv
<1>4. Top.op # "call"
    BY <1>1 DEF Reading
<1> QED
    BY <1>1, <1>2, <1>3, <1>4 DEF InProgress

\* What the operation in progress has, it has found.
LEMMA TopFound ==
    ASSUME IInv, In(Reading), NEW n \in Names, NEW s \in NativeSigs, Top.specs[n] = s
    PROVE  Found(n, s)
BY TopLooksUp, NoneAssumption DEF Found

LEMMA MissIInv ==
    ASSUME IInv, NEW n \in Names, Miss(n), UNCHANGED volatile
    PROVE  IInv'
<1> DEFINE fr == [Top EXCEPT !.compiling = n]
<1>1. In(Reading) /\ n \in Top.todo /\ Continue(fr)
    BY DEF Miss
<1>2. TypeOK /\ Busy /\ Top \in Frame /\ Top.op \in Reading /\ LookedUp(Top)
    BY <1>1, TopLooksUp
<1>3. fr \in Frame /\ fr.op = Top.op /\ fr.specs = Top.specs
    BY <1>2 DEF Frame
<1>4. LookedUp(fr)
    BY <1>1, <1>2 DEF LookedUp, Frame, Asked
<1>5. \A m \in Names, s \in NativeSigs : fr.specs[m] = s => Found(m, s)
    BY <1>1, <1>3, TopFound
<1> HIDE DEF fr
<1> QED
    BY <1>1, <1>2, <1>3, <1>4, <1>5, ContinueIInv DEF Miss, Reading

\* The signature an operation first read a name with, where definitions read
\* the same each time.
LEMMA StableReads ==
    ASSUME NEW k \in Keys, NEW j, k \in Reads(j), ~volatile
    PROVE  k = j
BY DEF Reads

LEMMA HitIInv ==
    ASSUME IInv, NEW n \in Names, NEW k \in Keys, Hit(n, k), UNCHANGED volatile
    PROVE  IInv'
<1> DEFINE fr == [Top EXCEPT !.todo = @ \ {n}, !.hits = @ \cup {n},
                             !.specs[n] = functionCache[n].spec]
<1>1. In(Reading) /\ n \in Top.todo /\ Top.compiling = None /\ k \in Reads(Top.def[n])
        /\ functionCache[n].key = k
    BY DEF Hit
<1>2. TypeOK /\ Busy /\ Top \in Frame /\ Top.op \in Reading /\ LookedUp(Top)
    BY <1>1, TopLooksUp
<1>3. CASE Top.op = "getFunction" /\ End
    <2>1. servedClosed' \in BOOLEAN
        BY <1>2 DEF Hit, TypeOK, Frame
    <2> QED
        BY <1>2, <1>3, <2>1, EndIInv DEF Hit
<1>4. CASE Continue(fr) /\ UNCHANGED servedClosed
    <2>1. functionCache[n] # NoEntry /\ functionCache[n].spec \in NativeSigs
        <3>1. functionCache[n] # NoEntry
            BY <1>1, NoneAssumption DEF NoEntry
        <3>2. functionCache[n].spec # None
            BY <3>1 DEF IInv, CachedIsWhole
        <3> QED
            BY <1>2, <3>1, <3>2, Entries
    <2>2. fr \in Frame /\ fr.op = Top.op /\ fr.def = Top.def /\ fr.compiling = None
            /\ fr.todo = Top.todo \ {n} /\ fr.hits = Top.hits \cup {n}
            /\ fr.unpublished = Top.unpublished
            /\ fr.specs = [Top.specs EXCEPT ![n] = functionCache[n].spec]
            /\ Top.specs \in [Names -> NativeSigs \cup {None}]
        BY <1>1, <1>2, <2>1 DEF Frame
    <2> HIDE DEF fr
    <2>3. ~volatile => Top.def[n] # None /\ Compile[Top.def[n]] = functionCache[n].spec
        <3>1. ASSUME ~volatile PROVE Top.def[n] = k
            BY <1>1, <3>1, StableReads
        <3>2. ASSUME ~volatile PROVE Compile[k] = functionCache[n].spec
            BY <1>1, <2>1, <3>2 DEF IInv, CachedIsWhole
        <3> QED
            BY <3>1, <3>2, NoneAssumption
    <2>4. LookedUp(fr)
        BY <1>2, <2>1, <2>2, <2>3, NoneAssumption DEF LookedUp, Asked
    <2>5. \A m \in Names, s \in NativeSigs : fr.specs[m] = s => Found(m, s)
        <3>1. Found(n, functionCache[n].spec)
            BY <2>1, NoneAssumption DEF Found
        <3>2. \A m \in Names : fr.specs[m] = IF m = n THEN functionCache[n].spec ELSE Top.specs[m]
            BY <2>2
        <3> QED
            BY <1>1, <3>1, <3>2, TopFound
    <2> QED
        BY <1>2, <1>4, <2>2, <2>4, <2>5, ContinueIInv DEF Hit, Reading
<1> QED
    BY <1>3, <1>4 DEF Hit

\* Only an open library compiles, a name that nothing was found for or the
\* signature that was.
LEMMA CompileFunctionIInv ==
    ASSUME IInv, NEW k \in Keys, CompileFunction(k), UNCHANGED volatile
    PROVE  IInv'
<1> DEFINE n == Top.compiling
<1> DEFINE s == Compile[k]
<1> DEFINE fr == [Top EXCEPT !.todo = @ \ {n}, !.compiling = None, !.specs[n] = s]
<1>1. In(Reading) /\ n # None /\ k \in Reads(Top.def[n]) /\ Continue(fr) /\ ~Borrowed
    BY DEF CompileFunction
<1>2. TypeOK /\ Busy /\ Top \in Frame /\ Top.op \in Reading /\ LookedUp(Top)
    BY <1>1, TopLooksUp
<1>3. n \in Names /\ n \in Top.todo /\ s \in NativeSigs /\ s # None
    BY <1>1, <1>2, CompileAssumption, NoneAssumption DEF Frame, LookedUp
<1>4. bound[n] = s \/ (bound[n] = None /\ library)
    BY DEF CompileFunction
<1>5. bound' = [bound EXCEPT ![n] = s] /\ bound \in [Names -> NativeSigs \cup {None}]
    BY <1>2, <1>3 DEF CompileFunction, TypeOK
<1>6. fr \in Frame /\ fr.op = Top.op /\ fr.def = Top.def /\ fr.compiling = None
        /\ fr.todo = Top.todo \ {n} /\ fr.hits = Top.hits
        /\ fr.unpublished = Top.unpublished
        /\ fr.specs = [Top.specs EXCEPT ![n] = s]
        /\ Top.specs \in [Names -> NativeSigs \cup {None}]
    BY <1>2, <1>3 DEF Frame
<1>7. UNCHANGED <<object, reachable, library, caches, process, servedClosed>>
    BY DEF CompileFunction
<1> HIDE DEF fr, n, s
<1>8. library /\ object = "open"
    BY <1>3, <1>4 DEF IInv, OpenIsLoaded
<1>9. /\ stack' \in Seq(Frame)
      /\ DOMAIN stack' = DOMAIN stack
      /\ Len(stack) \in DOMAIN stack
      /\ Top = stack[Len(stack)]
      /\ stack'[Len(stack)] = fr
      /\ \A i \in DOMAIN stack : i # Len(stack) => stack'[i] = stack[i]
    BY <1>1, <1>2, <1>6, ContinueProperties, TopProperties
<1>10. TypeOK'
    BY <1>2, <1>3, <1>5, <1>7, <1>9 DEF TypeOK, caches
<1>11. OpenIsLoaded'
    BY <1>7, <1>8 DEF IInv, OpenIsLoaded, caches
<1>12. \A m \in Names, r \in NativeSigs : Found(m, r)' => Found(m, r) \/ (m = n /\ r = s)
    <2>1. \A m \in Names : fr.specs[m] = IF m = n THEN s ELSE Top.specs[m]
        BY <1>6
    <2> QED
        BY <1>7, <1>9, <2>1 DEF Found, caches
<1>13. FoundIsBound'
    <2>1. \A r \in NativeSigs : Found(n, r) => r = s
        <3>1. \A r \in NativeSigs : Found(n, r) => bound[n] = r /\ r # None
            BY <1>3, <1>8, NoneAssumption DEF IInv, FoundIsBound
        <3> QED
            BY <1>4, <3>1
    <2>2. \A m \in Names : bound'[m] = IF m = n THEN s ELSE bound[m]
        BY <1>5
    <2> QED
        BY <1>3, <1>7, <1>8, <1>12, <2>1, <2>2 DEF IInv, FoundIsBound
<1>14. CachedIsWhole' /\ ListedIsCached'
    BY <1>7 DEF IInv, CachedIsWhole, ListedIsCached, caches
<1>15. LoadedIsReachable'
    BY <1>6, <1>7, <1>9 DEF IInv, LoadedIsReachable
<1>16. LookedUp(fr)
    <2>1. ASSUME ~volatile PROVE Top.def[n] # None /\ Compile[Top.def[n]] = s
        BY <1>1, <2>1, StableReads, NoneAssumption DEF s, n
    <2> QED
        BY <1>2, <1>3, <1>6, <2>1, NoneAssumption DEF LookedUp, Asked
<1>17. \A i \in DOMAIN stack' : InProgress(i)'
    <2>1. ASSUME NEW i \in DOMAIN stack, i # Len(stack) PROVE InProgress(i)'
        BY <1>7, <1>9, <2>1, FrameKept DEF caches
    <2>2. InProgress(Len(stack))
        BY <1>9 DEF IInv
    <2>3. ASSUME NEW i \in DOMAIN stack, i = Len(stack) PROVE InProgress(i)'
        <3>1. stack'[i] = fr /\ fr.op # "call" /\ (fr.op = "dlopen" => i = 1)
            BY <1>2, <1>6, <1>9, <2>2, <2>3 DEF InProgress, Reading
        <3>2. LookedUp(stack[i])'
            BY <1>7, <1>16, <3>1 DEF LookedUp, Asked, caches
        <3> QED
            BY <3>1, <3>2 DEF InProgress
    <2> QED
        BY <1>9, <2>1, <2>3
<1> QED
    BY <1>10, <1>11, <1>13, <1>14, <1>15, <1>17 DEF IInv

\* What is published was found: the entry and the wrapper add nothing new.
LEMMA PublishIInv ==
    ASSUME IInv, NEW n \in Names, NEW k \in Keys, Publish(n, k), UNCHANGED volatile
    PROVE  IInv'
<1> DEFINE s == Top.specs[n]
<1> DEFINE fr == [Top EXCEPT !.unpublished = @ \ {n}]
<1>1. In(Reading) /\ Top.todo = {} /\ n \in Top.unpublished /\ k \in Reads(Top.def[n])
    BY DEF Publish
<1>2. TypeOK /\ Busy /\ Top \in Frame /\ Top.op \in Reading /\ LookedUp(Top)
    BY <1>1, TopLooksUp
<1>3. Top.specs \in [Names -> NativeSigs \cup {None}] /\ Top.hits \subseteq Names
        /\ Top.late \in BOOLEAN
    BY <1>2 DEF Frame
<1>4. s \in NativeSigs /\ s # None
    BY <1>1, <1>2, <1>3 DEF LookedUp
<1>5. Found(n, s)
    BY <1>1, <1>4, TopFound
<1>6. functionCache' = (IF n \in Top.hits THEN functionCache
                        ELSE [functionCache EXCEPT ![n] = [key |-> k, spec |-> s]])
        /\ wrappers' = wrappers \cup {[name |-> n, spec |-> s]}
        /\ functions' = [functions EXCEPT ![n] = s]
        /\ symbolCache' = symbolCache \cup {n}
    BY DEF Publish
<1>7. UNCHANGED <<object, native, process>>
    BY DEF Publish
<1>8. \/ Top.unpublished = {n} /\ End /\ reachable' = TRUE
      \/ Top.unpublished # {n} /\ Continue(fr) /\ reachable' = reachable
    BY DEF Publish
<1>9. servedClosed' \in BOOLEAN
    BY <1>2, <1>3 DEF Publish, TypeOK
<1>10. fr \in Frame /\ fr.op = Top.op /\ fr.specs = Top.specs /\ LookedUp(fr)
    BY <1>2 DEF Frame, LookedUp, Asked
<1> HIDE DEF fr
<1>11. /\ stack' \in Seq(Frame)
       /\ DOMAIN stack' \subseteq DOMAIN stack
       /\ Len(stack) \in DOMAIN stack
       /\ Top = stack[Len(stack)]
       /\ \A i \in DOMAIN stack' : stack'[i] = IF i = Len(stack) THEN fr ELSE stack[i]
    <2>1. Len(stack) \in DOMAIN stack /\ Top = stack[Len(stack)]
        BY <1>1, TopLooksUp
    <2>2. CASE End
        BY <1>2, <2>1, <2>2, EndProperties
    <2>3. CASE Continue(fr)
        BY <1>2, <1>10, <2>1, <2>3, ContinueProperties
    <2> QED
        BY <1>8, <2>2, <2>3
<1>12. stack # <<>> /\ object # "none"
    BY <1>2 DEF Busy, IInv, OpenIsLoaded
<1>13. n \in Top.hits => functionCache[n] # NoEntry /\ functionCache[n].spec = s
    <2> SUFFICES ASSUME n \in Top.hits
                 PROVE  functionCache[n] # NoEntry /\ functionCache[n].spec = s
        OBVIOUS
    <2>1. functionCache[n] # NoEntry
        BY <1>2 DEF LookedUp
    <2>2. functionCache[n].spec # None
        BY <2>1 DEF IInv, CachedIsWhole
    <2>3. functionCache[n].spec \in NativeSigs
        BY <1>2, <2>2, Entries
    <2>4. Found(n, functionCache[n].spec)
        BY <2>2 DEF Found
    <2> QED
        BY <1>4, <1>5, <2>1, <2>3, <2>4 DEF IInv, FoundIsBound
<1> HIDE DEF s
<1>14. /\ functionCache'[n].spec = s
       /\ functionCache'[n] # NoEntry
       /\ functionCache' \in [Names -> Entry]
       /\ \A m \in Names \ {n} : functionCache'[m] = functionCache[m]
       /\ n \in Top.hits \/ functionCache'[n].key = k
       /\ n \in Top.hits => functionCache'[n] = functionCache[n]
    <2>1. functionCache \in [Names -> Entry] /\ [key |-> k, spec |-> s] \in Entry
            /\ [key |-> k, spec |-> s] # NoEntry
        BY <1>2, <1>4 DEF TypeOK, Entry, NoEntry
    <2> QED
        BY <1>6, <1>13, <2>1
<1>15. TypeOK'
    <2>1. functions' \in [Names -> NativeSigs \cup {None}]
        BY <1>2, <1>4, <1>6 DEF TypeOK
    <2>2. wrappers' \subseteq Wrapper
        BY <1>2, <1>4, <1>6 DEF TypeOK, Wrapper
    <2>3. symbolCache' \subseteq Names /\ reachable' \in BOOLEAN
        BY <1>2, <1>6, <1>8 DEF TypeOK
    <2> QED
        BY <1>2, <1>7, <1>9, <1>11, <1>14, <2>1, <2>2, <2>3 DEF TypeOK, native
<1>16. OpenIsLoaded'
    BY <1>7, <1>12 DEF IInv, OpenIsLoaded, native
<1>17. FoundIsBound'
    <2>1. ASSUME NEW m \in Names, NEW r \in NativeSigs, Found(m, r)'
          PROVE  Found(m, r)
        <3>1. r # None
            BY <2>1 DEF Found
        <3>2. CASE [name |-> m, spec |-> r] \in wrappers'
            BY <1>5, <1>6, <3>1, <3>2 DEF Found
        <3>3. CASE functionCache'[m].spec = r
            BY <1>5, <1>14, <3>1, <3>3 DEF Found
        <3>4. CASE \E i \in DOMAIN stack' : stack'[i].specs[m] = r
            BY <1>10, <1>11, <3>1, <3>4 DEF Found
        <3> QED
            BY <2>1, <3>2, <3>3, <3>4 DEF Found
    <2> QED
        BY <1>7, <2>1, NothingFound DEF native
<1>18. CachedIsWhole'
    <2>1. functionCache'[n].key # None /\ functionCache'[n].spec # None
        BY <1>4, <1>14, NoneAssumption DEF IInv, CachedIsWhole
    <2>2. ASSUME ~volatile PROVE Compile[functionCache'[n].key] = functionCache'[n].spec
        <3>1. CASE n \in Top.hits
            BY <1>14, <2>2, <3>1 DEF IInv, CachedIsWhole
        <3>2. CASE n \notin Top.hits
            <4>1. Top.def[n] = k
                BY <1>1, <2>2, StableReads
            <4>2. Compile[k] = s
                BY <1>2, <1>4, <2>2, <4>1 DEF LookedUp, s
            <4> QED
                BY <1>14, <3>2, <4>2
        <3> QED
            BY <3>1, <3>2
    <2>3. \A m \in Names \ {n} : functionCache'[m] = functionCache[m]
        BY <1>14
    <2> QED
        BY <2>1, <2>2, <2>3 DEF IInv, CachedIsWhole
<1>19. ListedIsCached'
    <2>1. \A m \in Names : functions'[m] = IF m = n THEN s ELSE functions[m]
        BY <1>2, <1>6 DEF TypeOK
    <2> QED
        BY <1>6, <1>14, <2>1 DEF IInv, ListedIsCached
<1>20. LoadedIsReachable'
    <2>1. CASE reachable' = TRUE
        BY <2>1 DEF LoadedIsReachable
    <2>2. CASE Continue(fr) /\ reachable' = reachable
        <3>1. DOMAIN stack' = DOMAIN stack
            BY <1>2, <1>10, <2>2, ContinueProperties
        <3> QED
            BY <1>7, <1>10, <1>11, <2>2, <3>1 DEF IInv, LoadedIsReachable, native
    <2> QED
        BY <1>8, <2>1, <2>2
<1>21. \A i \in DOMAIN stack' : InProgress(i)'
    <2>1. \A m \in Names : functionCache[m] # NoEntry => functionCache'[m] # NoEntry
        BY <1>14
    <2>2. ASSUME NEW i \in DOMAIN stack', i # Len(stack) PROVE InProgress(i)'
        BY <1>7, <1>11, <2>1, <2>2, FrameKept DEF native
    <2>3. InProgress(Len(stack))
        BY <1>11 DEF IInv
    <2>4. fr.hits \subseteq Names
        BY <1>10 DEF Frame
    <2>5. ASSUME NEW i \in DOMAIN stack', i = Len(stack) PROVE InProgress(i)'
        <3>1. stack'[i] = fr /\ fr.op # "call" /\ (fr.op = "dlopen" => i = 1)
            BY <1>2, <1>10, <1>11, <2>3, <2>5 DEF InProgress, Reading
        <3>2. \A m \in fr.hits : functionCache'[m] # NoEntry /\ fr.specs[m] # None
            BY <1>10, <2>1, <2>4 DEF LookedUp
        <3>3. LookedUp(stack[i])'
            BY <1>10, <3>1, <3>2 DEF LookedUp, Asked
        <3> QED
            BY <3>1, <3>3 DEF InProgress
    <2> QED
        BY <2>2, <2>5
<1> QED
    BY <1>15, <1>16, <1>17, <1>18, <1>19, <1>20, <1>21 DEF IInv

\* A dlopen that fails is the only operation in progress.
LEMMA ThrowIInv == IInv /\ Throw /\ UNCHANGED volatile => IInv'
<1> SUFFICES ASSUME IInv, Throw, UNCHANGED volatile PROVE IInv'
    OBVIOUS
<1>1. In(Reading) /\ End
    BY DEF Throw
<1>2. TypeOK /\ Busy /\ Len(stack) \in DOMAIN stack /\ Top = stack[Len(stack)]
        /\ InProgress(Len(stack))
    BY <1>1, TopLooksUp
<1>3. CASE Top.op = "dlopen"
    <2>1. Len(stack) = 1 /\ DOMAIN stack = 1 .. Len(stack)
        BY <1>2, <1>3, TopProperties DEF InProgress
    <2>2. \A i \in DOMAIN stack : stack[i].op # "call"
        BY <1>2, <1>3, <2>1
    <2>3. stack' \in Seq(Frame) /\ \A i \in DOMAIN stack' : i \in DOMAIN stack /\ stack'[i] = stack[i]
        BY <1>1, <1>2, EndProperties
    <2> QED
        BY <1>3, <2>2, <2>3, CloseIInv DEF Throw
<1>4. CASE Top.op # "dlopen"
    BY <1>1, <1>2, <1>4, EndIInv DEF Throw, TypeOK
<1> QED
    BY <1>3, <1>4

LEMMA NextIInv == IInv /\ [Next]_vars => IInv'
<1> SUFFICES ASSUME IInv, [Next]_vars PROVE IInv'
    OBVIOUS
<1>1. CASE UNCHANGED vars
    <2>1. \A i \in DOMAIN stack' : InProgress(i)'
        BY <1>1, FrameKept DEF vars, native, caches
    <2>2. \A i \in DOMAIN stack, n \in Names, s \in NativeSigs :
                stack[i].specs[n] = s => Found(n, s)
        BY NoneAssumption DEF Found
    <2> QED
        BY <1>1, <2>1, <2>2, OnlyOperations DEF vars, native, caches, IInv, TypeOK, LoadedIsReachable
<1>2. CASE Step /\ UNCHANGED volatile
    <2>1. CASE New
        BY <1>2, <2>1, NewIInv
    <2>2. CASE \E def \in Definitions : Dlopen(def) \/ GetFunctions(def)
        BY <1>2, <2>2, DlopenIInv, GetFunctionsIInv
    <2>3. CASE CloseBorrowed \/ CompileBorrowed
        BY <1>2, <2>3, AbortIInv DEF CloseBorrowed, CompileBorrowed
    <2>4. CASE Close
        BY <1>2, <2>4, CloseActionIInv
    <2>5. CASE \E n \in Names : GetSymbol(n) \/ Miss(n)
        BY <1>2, <2>5, GetSymbolIInv, MissIInv
    <2>6. CASE \E n \in Names, k \in Keys : GetFunction(n, k) \/ Hit(n, k) \/ Publish(n, k)
        BY <1>2, <2>6, GetFunctionIInv, HitIInv, PublishIInv
    <2>7. CASE ListFunctions
        BY <1>2, <2>7, ListFunctionsIInv
    <2>8. CASE \E k \in Keys : CompileFunction(k)
        BY <1>2, <2>8, CompileFunctionIInv
    <2>9. CASE Throw
        BY <1>2, <2>9, ThrowIInv
    <2>10. CASE \E w \in Wrapper : Call(w)
        BY <1>2, <2>10, CallIInv
    <2>11. CASE Return
        BY <1>2, <2>11, ReturnIInv
    <2> QED
        BY <1>2, <2>1, <2>2, <2>3, <2>4, <2>5, <2>6, <2>7, <2>8, <2>9, <2>10, <2>11 DEF Step
<1> QED
    BY <1>1, <1>2 DEF Next

-----------------------------------------------------------------------------
(* The theorems.                                                           *)

\* The inductive invariant holds in every reachable state.
THEOREM Inductive == Spec => []IInv
BY InitIInv, NextIInv, PTL DEF Spec

\* Every variable keeps its type: what is cached, listed, given out and in
\* progress are names and signatures of this library.
THEOREM TypeCorrect == Spec => []TypeOK
<1>1. IInv => TypeOK
    BY DEF IInv
<1> QED
    BY <1>1, Inductive, PTL

\* Every wrapper given out before close() finds its function, with the
\* signature its validators were made for.
THEOREM WrappersStayCallable == Spec => []WrapperCallable
<1>1. IInv => WrapperCallable
    <2> SUFFICES ASSUME IInv, object = "open", NEW w \in wrappers
                 PROVE  bound[w.name] = w.spec
        BY DEF WrapperCallable
    <2>1. w.name \in Names /\ w.spec \in NativeSigs /\ w = [name |-> w.name, spec |-> w.spec]
        BY DEF IInv, TypeOK, Wrapper
    <2>2. Found(w.name, w.spec)
        BY <2>1, NoneAssumption DEF Found
    <2> QED
        BY <2>1, <2>2 DEF IInv, FoundIsBound
<1> QED
    BY <1>1, Inductive, PTL

\* The wrappers ever made for a name agree, closed or not.
THEOREM NamesKeepTheirSignature == Spec => []OneSpecPerName
<1>1. IInv => OneSpecPerName
    <2> SUFFICES ASSUME IInv, NEW v \in wrappers, NEW w \in wrappers, v.name = w.name
                 PROVE  v.spec = w.spec
        BY DEF OneSpecPerName
    <2>1. /\ v.name \in Names /\ v.spec \in NativeSigs /\ v = [name |-> v.name, spec |-> v.spec]
          /\ w.name \in Names /\ w.spec \in NativeSigs /\ w = [name |-> w.name, spec |-> w.spec]
        BY DEF IInv, TypeOK, Wrapper
    <2>2. Found(v.name, v.spec) /\ Found(v.name, w.spec)
        BY <2>1, NoneAssumption DEF Found
    <2> QED
        BY <2>1, <2>2 DEF IInv, FoundIsBound
<1> QED
    BY <1>1, Inductive, PTL

\* What a call in progress uses.
LEMMA CallsAreBound ==
    ASSUME IInv, NEW i \in DOMAIN stack, stack[i].op = "call"
    PROVE  /\ library /\ object = "open"
           /\ stack[i].compiling \in Names
           /\ stack[i].specs[stack[i].compiling] \in NativeSigs
           /\ bound[stack[i].compiling] = stack[i].specs[stack[i].compiling]
<1>1. stack[i] \in Frame
    BY DEF IInv, TypeOK
<1>2. library /\ stack[i].compiling # None /\ stack[i].specs[stack[i].compiling] # None
    BY DEF IInv, InProgress
<1>3. stack[i].compiling \in Names /\ object = "open"
    BY <1>1, <1>2 DEF Frame, IInv, OpenIsLoaded
<1>4. stack[i].specs[stack[i].compiling] \in NativeSigs
        /\ Found(stack[i].compiling, stack[i].specs[stack[i].compiling])
    BY <1>2, <1>3, SpecsAreSignatures DEF IInv
<1> QED
    BY <1>2, <1>3, <1>4 DEF IInv, FoundIsBound

\* A call in progress keeps its library and its compiled function.
THEOREM CallsStayIntact == Spec => []CallIntact
<1>1. IInv => CallIntact
    BY CallsAreBound DEF CallIntact
<1> QED
    BY <1>1, Inductive, PTL

\* lib.functions lists exactly what the cache holds.
THEOREM ListedFunctionsAreCached == Spec => []ListedIsCached
<1>1. IInv => ListedIsCached
    BY DEF IInv
<1> QED
    BY <1>1, Inductive, PTL

\* Where definitions read the same each time, a function is cached under the
\* signature it was compiled with.
THEOREM StableKeysDescribe == Spec => []StableKeyDescribesSpec
<1>1. IInv => StableKeyDescribesSpec
    BY DEF IInv, CachedIsWhole, StableKeyDescribesSpec, KeyDescribesSpec
<1> QED
    BY <1>1, Inductive, PTL

\* No failure leaves a loaded library that nobody can close.
THEOREM LoadedLibrariesAreReachable == Spec => []LoadedIsReachable
<1>1. IInv => LoadedIsReachable
    BY DEF IInv
<1> QED
    BY <1>1, Inductive, PTL

-----------------------------------------------------------------------------
(* The two caches implement the function cache.                            *)

\* The abstract specification sees no initial state of its own.
LEMMA InitCache == Init => Functions!Init
<1> SUFFICES ASSUME Init PROVE Functions!Init
    OBVIOUS
<1>1. DOMAIN stack = {}
    BY DEF Init
<1>2. DOMAIN Calling = {}
    BY <1>1 DEF Calling
<1> QED
    BY <1>2 DEF Init, Functions!Init

\* Calls are the same where no call starts or ends.
LEMMA SameCalls ==
    ASSUME \A i \in DOMAIN stack : stack[i].op = "call" =>
              i \in DOMAIN stack' /\ stack'[i] = stack[i],
           \A i \in DOMAIN stack' : stack'[i].op = "call" =>
              i \in DOMAIN stack /\ stack'[i] = stack[i]
    PROVE  Calling' = Calling
<1> DEFINE was == {i \in DOMAIN stack : stack[i].op = "call"}
<1> DEFINE is == {i \in DOMAIN stack' : stack'[i].op = "call"}
<1>1. was = is
    OBVIOUS
<1>2. \A i \in was : stack'[i] = stack[i]
    OBVIOUS
<1>3. Calling = [i \in was |-> [name |-> stack[i].compiling,
                                spec |-> stack[i].specs[stack[i].compiling]]]
    BY DEF Calling
<1>4. Calling' = [i \in is |-> [name |-> stack'[i].compiling,
                                spec |-> stack'[i].specs[stack'[i].compiling]]]
    BY DEF Calling
<1> HIDE DEF was, is
<1> QED
    BY <1>1, <1>2, <1>3, <1>4

\* An operation that is not a call begins, goes on or ends.
LEMMA OtherOperations ==
    ASSUME TypeOK,
           \/ \E fr \in Frame : fr.op # "call" /\ stack' = Append(stack, fr)
           \/ /\ Busy /\ Top.op # "call"
              /\ End \/ \E fr \in Frame : fr.op # "call" /\ Continue(fr)
           \/ stack' = stack
    PROVE  Calling' = Calling
<1>1. CASE \E fr \in Frame : fr.op # "call" /\ stack' = Append(stack, fr)
    <2>1. PICK fr \in Frame : fr.op # "call" /\ stack' = Append(stack, fr)
        BY <1>1
    <2>2. /\ stack'[Len(stack) + 1] = fr
          /\ \A i \in DOMAIN stack : i \in DOMAIN stack' /\ stack'[i] = stack[i]
          /\ \A i \in DOMAIN stack' : i \in DOMAIN stack \/ i = Len(stack) + 1
        BY <2>1, AppendProperties
    <2> QED
        BY <2>1, <2>2, SameCalls
<1>2. CASE Busy /\ Top.op # "call" /\ End
    <2>1. DOMAIN stack = 1 .. Len(stack) /\ Top = stack[Len(stack)] /\ Len(stack) \in Nat
        BY <1>2, TopProperties
    <2>2. /\ DOMAIN stack' = 1 .. (Len(stack) - 1)
          /\ \A i \in DOMAIN stack' : i \in DOMAIN stack /\ i # Len(stack) /\ stack'[i] = stack[i]
        BY <1>2, EndProperties
    <2>3. \A i \in DOMAIN stack : i # Len(stack) => i \in DOMAIN stack'
        <3>1. \A d \in Nat : \A i \in 1 .. d : i # d => i \in 1 .. (d - 1)
            OBVIOUS
        <3> QED
            BY <2>1, <2>2, <3>1
    <2> QED
        BY <1>2, <2>1, <2>2, <2>3, SameCalls
<1>3. CASE Busy /\ Top.op # "call" /\ \E fr \in Frame : fr.op # "call" /\ Continue(fr)
    <2>1. PICK fr \in Frame : fr.op # "call" /\ Continue(fr)
        BY <1>3
    <2>2. /\ DOMAIN stack' = DOMAIN stack
          /\ stack'[Len(stack)] = fr
          /\ \A i \in DOMAIN stack : i # Len(stack) => stack'[i] = stack[i]
        BY <1>3, <2>1, ContinueProperties
    <2>3. Top = stack[Len(stack)]
        BY <1>3, TopProperties
    <2> QED
        BY <1>3, <2>1, <2>2, <2>3, SameCalls
<1>4. CASE stack' = stack
    BY <1>4, SameCalls
<1> QED
    BY <1>1, <1>2, <1>3, <1>4

\* The top operation is not a call while it looks up, and remains what it is.
LEMMA LookupIsNoCall ==
    ASSUME IInv, In(Reading)
    PROVE  TypeOK /\ Busy /\ Top \in Frame /\ Top.op # "call" /\ process = "running"
BY TopLooksUp DEF Reading, In

LEMMA NewCache == IInv /\ New => Functions!Next
<1> SUFFICES ASSUME IInv, New PROVE Functions!Next
    OBVIOUS
<1>1. Calling' = Calling
    BY OtherOperations DEF IInv, New
<1> QED
    BY <1>1 DEF New, caches, Functions!Next, Functions!Step, Functions!Open

LEMMA DlopenCache ==
    ASSUME IInv, NEW def \in Definitions, Dlopen(def)
    PROVE  Functions!Next
<1> DEFINE fr == [op |-> "dlopen", def |-> def, todo |-> Asked(def), compiling |-> None,
                  specs |-> [n \in Names |-> None], hits |-> {},
                  unpublished |-> Asked(def), late |-> object = "closed"]
<1>1. fr \in Frame /\ fr.op # "call"
    BY FirstFrame DEF IInv
<1>2. stack' = Append(stack, fr)
    BY DEF Dlopen, Begin
<1> HIDE DEF fr
<1>3. Calling' = Calling
    BY <1>1, <1>2, OtherOperations DEF IInv
<1> QED
    BY <1>3 DEF Dlopen, caches, Functions!Next, Functions!Step, Functions!Open

LEMMA AbortCache == process = "running" /\ Abort => Functions!Next
<1> SUFFICES ASSUME process = "running", Abort PROVE Functions!Next
    OBVIOUS
<1>1. Calling' = Calling
    BY SameCalls DEF Abort
<1> QED
    BY <1>1 DEF Abort, native, caches, Functions!Next, Functions!Abort

LEMMA CloseCache == IInv /\ Close => Functions!Next
<1> SUFFICES ASSUME IInv, Close PROVE Functions!Next
    OBVIOUS
<1>1. Calling' = Calling
    BY OtherOperations DEF IInv, Close
<1>2. DOMAIN Calling = {}
    BY DEF Calling, Close, Borrowed
<1> QED
    BY <1>1, <1>2 DEF Close, ProgramRuns, caches, Functions!Next, Functions!Step, Functions!Close

\* An operation that looks up begins without any effect on the table.
LEMMA BeginCache ==
    ASSUME IInv, NEW op \in {"getFunction", "getFunctions"}, NEW def \in Definitions,
           Begin(op, def), UNCHANGED <<object, native, caches, process>>
    PROVE  UNCHANGED Functions!fvars
<1> DEFINE fr == [op |-> op, def |-> def, todo |-> Asked(def), compiling |-> None,
                  specs |-> [n \in Names |-> None], hits |-> {},
                  unpublished |-> Asked(def), late |-> object = "closed"]
<1>1. fr \in Frame /\ fr.op # "call"
    BY FirstFrame DEF IInv
<1>2. stack' = Append(stack, fr)
    BY DEF Begin
<1> HIDE DEF fr
<1>3. Calling' = Calling
    BY <1>1, <1>2, OtherOperations DEF IInv
<1> QED
    BY <1>3 DEF native, caches, Functions!fvars

LEMMA LookupCache ==
    ASSUME IInv, NEW n \in Names, NEW k \in Keys,
           GetFunction(n, k) \/ Miss(n) \/ Hit(n, k)
    PROVE  UNCHANGED Functions!fvars
<1>1. CASE GetFunction(n, k)
    <2>1. [m \in Names |-> IF m = n THEN k ELSE None] \in Definitions
        BY DEF Definitions
    <2> QED
        BY <1>1, <2>1, BeginCache DEF GetFunction
<1>2. CASE Miss(n)
    <2> DEFINE fr == [Top EXCEPT !.compiling = n]
    <2>1. In(Reading) /\ Continue(fr)
        BY <1>2 DEF Miss
    <2>2. TypeOK /\ Busy /\ Top \in Frame /\ Top.op # "call"
        BY <2>1, LookupIsNoCall
    <2>3. fr \in Frame /\ fr.op # "call"
        BY <2>2 DEF Frame
    <2> HIDE DEF fr
    <2>4. Calling' = Calling
        BY <2>1, <2>2, <2>3, OtherOperations
    <2> QED
        BY <1>2, <2>4 DEF Miss, native, caches, Functions!fvars
<1>3. CASE Hit(n, k)
    <2> DEFINE fr == [Top EXCEPT !.todo = @ \ {n}, !.hits = @ \cup {n},
                                 !.specs[n] = functionCache[n].spec]
    <2>1. In(Reading) /\ (End \/ Continue(fr))
        BY <1>3 DEF Hit
    <2>2. TypeOK /\ Busy /\ Top \in Frame /\ Top.op # "call"
        BY <2>1, LookupIsNoCall
    <2>3. functionCache[n].spec \in NativeSigs \cup {None}
        BY <2>2, Entries
    <2>4. fr \in Frame /\ fr.op # "call"
        BY <2>2, <2>3 DEF Frame
    <2> HIDE DEF fr
    <2>5. Calling' = Calling
        BY <2>1, <2>2, <2>4, OtherOperations
    <2> QED
        BY <1>3, <2>5 DEF Hit, native, caches, Functions!fvars
<1> QED
    BY <1>1, <1>2, <1>3

\* A name gets its meaning, or has it already.
LEMMA CompileFunctionCache ==
    ASSUME IInv, NEW k \in Keys, CompileFunction(k)
    PROVE  Functions!Next \/ UNCHANGED Functions!fvars
<1> DEFINE n == Top.compiling
<1> DEFINE s == Compile[k]
<1> DEFINE fr == [Top EXCEPT !.todo = @ \ {n}, !.compiling = None, !.specs[n] = s]
<1>1. In(Reading) /\ n # None /\ Continue(fr)
    BY DEF CompileFunction
<1>2. TypeOK /\ Busy /\ Top \in Frame /\ Top.op # "call" /\ process = "running"
    BY <1>1, LookupIsNoCall
<1>3. n \in Names /\ s \in NativeSigs
    BY <1>1, <1>2, CompileAssumption DEF Frame
<1>4. fr \in Frame /\ fr.op # "call"
    BY <1>2, <1>3 DEF Frame
<1> HIDE DEF fr
<1>5. Calling' = Calling
    BY <1>1, <1>2, <1>4, OtherOperations
<1>6. UNCHANGED <<object, wrappers, process>>
    BY DEF CompileFunction, caches
<1>7. CASE UNCHANGED bound
    BY <1>5, <1>6, <1>7 DEF Functions!fvars
<1>8. CASE bound[n] = None /\ library /\ bound' = [bound EXCEPT ![n] = s]
    <2>1. object = "open"
        BY <1>8 DEF IInv, OpenIsLoaded
    <2>2. DOMAIN Calling = {}
        BY DEF Calling, CompileFunction, Borrowed
    <2>3. Functions!Define(n, s)
        BY <1>5, <1>6, <1>8, <2>1, <2>2 DEF Functions!Define
    <2> HIDE DEF n, s
    <2> QED
        BY <1>2, <1>3, <1>6, <2>3 DEF Functions!Next, Functions!Step
<1> QED
    BY <1>7, <1>8 DEF CompileFunction

LEMMA PublishCache ==
    ASSUME IInv, NEW n \in Names, NEW k \in Keys, Publish(n, k)
    PROVE  Functions!Next
<1> DEFINE s == Top.specs[n]
<1> DEFINE w == [name |-> n, spec |-> s]
<1> DEFINE fr == [Top EXCEPT !.unpublished = @ \ {n}]
<1>1. In(Reading) /\ Top.todo = {} /\ n \in Top.unpublished /\ (End \/ Continue(fr))
    BY DEF Publish
<1>2. TypeOK /\ Busy /\ Top \in Frame /\ Top.op # "call" /\ process = "running"
    BY <1>1, LookupIsNoCall
<1>3. fr \in Frame /\ fr.op # "call"
    BY <1>2 DEF Frame
<1> HIDE DEF fr
<1>4. Calling' = Calling
    BY <1>1, <1>2, <1>3, OtherOperations
<1>5. s \in NativeSigs
    <2>1. Top.specs \in [Names -> NativeSigs \cup {None}] /\ LookedUp(Top)
        BY <1>1, <1>2, TopLooksUp DEF Frame
    <2> QED
        BY <1>1, <2>1 DEF LookedUp
<1>6. Found(n, s)
    BY <1>1, <1>5, TopFound
<1> HIDE DEF s
<1>7. object = "open" => bound[n] = s
    BY <1>5, <1>6 DEF IInv, FoundIsBound
<1>8. ASSUME NEW v \in wrappers, v.name = n PROVE v.spec = s
    <2>1. v.spec \in NativeSigs /\ v = [name |-> v.name, spec |-> v.spec]
        BY <1>2 DEF TypeOK, Wrapper
    <2>2. Found(n, v.spec)
        BY <1>8, <2>1, NoneAssumption DEF Found
    <2> QED
        BY <1>5, <1>6, <2>1, <2>2 DEF IInv, FoundIsBound
<1>9. wrappers' = wrappers \cup {w} /\ UNCHANGED <<object, native, process>>
    BY DEF Publish, s
<1>10. w \in [name : Names, spec : NativeSigs] /\ w.name = n /\ w.spec = s
    BY <1>5
<1> HIDE DEF w
<1>11. Functions!Give(w)
    BY <1>4, <1>7, <1>8, <1>9, <1>10 DEF Functions!Give, native
<1> QED
    BY <1>2, <1>9, <1>10, <1>11 DEF Functions!Next, Functions!Step

LEMMA ThrowCache ==
    ASSUME IInv, Throw
    PROVE  Functions!Next \/ UNCHANGED Functions!fvars
<1>1. In(Reading) /\ End
    BY DEF Throw
<1>2. TypeOK /\ Busy /\ Top.op # "call" /\ process = "running"
    BY <1>1, LookupIsNoCall
<1>3. Calling' = Calling
    BY <1>1, <1>2, OtherOperations
<1>4. CASE Top.op = "dlopen"
    <2>1. Len(stack) \in DOMAIN stack /\ Top = stack[Len(stack)] /\ InProgress(Len(stack))
            /\ DOMAIN stack = 1 .. Len(stack)
        BY <1>1, <1>2, TopLooksUp, TopProperties
    <2>2. DOMAIN stack = {1} /\ stack[1].op # "call"
        BY <1>4, <2>1 DEF InProgress
    <2>3. DOMAIN Calling = {}
        BY <2>2 DEF Calling
    <2>4. object' = "closed" /\ bound' = [n \in Names |-> None] /\ UNCHANGED <<wrappers, process>>
        BY <1>4 DEF Throw, caches
    <2> QED
        BY <1>2, <1>3, <2>3, <2>4 DEF Functions!Next, Functions!Step, Functions!Close
<1>5. CASE Top.op # "dlopen"
    BY <1>3, <1>5 DEF Throw, native, caches, Functions!fvars
<1> QED
    BY <1>4, <1>5

LEMMA CallCache ==
    ASSUME IInv, NEW w \in Wrapper, Call(w)
    PROVE  Functions!Next
<1> DEFINE fr == [op |-> "call", def |-> [n \in Names |-> None], todo |-> {},
                  compiling |-> w.name, hits |-> {}, unpublished |-> {}, late |-> FALSE,
                  specs |-> [n \in Names |-> IF n = w.name THEN w.spec ELSE None]]
<1> DEFINE d == Len(stack) + 1
<1>1. w.name \in Names /\ w.spec \in NativeSigs /\ w = [name |-> w.name, spec |-> w.spec]
    BY DEF Wrapper
<1>2. fr \in Frame /\ fr.op = "call" /\ fr.compiling = w.name /\ fr.specs[w.name] = w.spec
    BY <1>1 DEF Frame
<1>3. stack' = Append(stack, fr)
    BY DEF Call
<1> HIDE DEF fr
<1>4. /\ DOMAIN stack = 1 .. Len(stack)
      /\ DOMAIN stack' = 1 .. d
      /\ Len(stack) \in Nat
      /\ stack'[d] = fr
      /\ \A i \in DOMAIN stack : i \in DOMAIN stack' /\ stack'[i] = stack[i]
      /\ \A i \in DOMAIN stack' : i \in DOMAIN stack \/ i = d
    BY <1>2, <1>3, AppendProperties DEF IInv
<1>5. \A c \in DOMAIN stack : c < d
    BY <1>4
<1>6. d \in DOMAIN stack' /\ d \notin DOMAIN stack
    BY <1>4
<1> HIDE DEF d
<1>7. DOMAIN Calling \subseteq DOMAIN stack
    BY DEF Calling
<1>8. DOMAIN Calling' = DOMAIN Calling \cup {d}
    BY <1>2, <1>4, <1>6 DEF Calling
<1>9. \A c \in DOMAIN Calling : Calling'[c] = Calling[c]
    BY <1>4, <1>7, <1>8 DEF Calling
<1>10. Calling'[d] = w
    BY <1>1, <1>2, <1>4, <1>6 DEF Calling
<1>11. Calling' = [c \in DOMAIN Calling \cup {d} |-> IF c = d THEN w ELSE Calling[c]]
    <2>1. Calling' = [c \in DOMAIN Calling' |-> Calling'[c]]
        BY DEF Calling
    <2>2. \A c \in DOMAIN Calling \cup {d} : Calling'[c] = IF c = d THEN w ELSE Calling[c]
        BY <1>6, <1>7, <1>9, <1>10
    <2> QED
        BY <1>8, <2>1, <2>2
<1>12. Functions!Call(w)
    <2>1. object = "open" /\ w \in wrappers
        BY DEF Call
    <2>2. bound[w.name] = w.spec
        <3>1. Found(w.name, w.spec)
            BY <1>1, <2>1, NoneAssumption DEF Found
        <3> QED
            BY <1>1, <2>1, <3>1 DEF IInv, FoundIsBound
    <2>3. \A c \in DOMAIN Calling : c < d
        BY <1>5, <1>7
    <2> QED
        BY <1>8, <1>11, <2>1, <2>2, <2>3 DEF Call, native, caches, Functions!Call
<1> QED
    BY <1>12 DEF Call, ProgramRuns, Wrapper, Functions!Next, Functions!Step

LEMMA ReturnCache ==
    ASSUME IInv, Return
    PROVE  Functions!Next
<1> DEFINE d == Len(stack)
<1>1. TypeOK /\ Busy /\ End /\ Top.op = "call" /\ process = "running"
    BY DEF IInv, Return, In
<1>2. d \in Nat /\ d \in DOMAIN stack /\ DOMAIN stack = 1 .. d /\ Top = stack[d]
    BY <1>1, TopProperties
<1>3. /\ DOMAIN stack' = 1 .. (d - 1)
      /\ \A i \in DOMAIN stack' : i \in DOMAIN stack /\ i # d /\ stack'[i] = stack[i]
    BY <1>1, EndProperties
<1>4. \A i \in DOMAIN stack : i # d => i \in DOMAIN stack'
    BY <1>2, <1>3
<1>5. \A c \in DOMAIN stack : c <= d
    BY <1>2
<1> HIDE DEF d
<1>6. DOMAIN Calling \subseteq DOMAIN stack /\ d \in DOMAIN Calling
    BY <1>1, <1>2 DEF Calling
<1>7. DOMAIN Calling' = DOMAIN Calling \ {d}
    BY <1>3, <1>4 DEF Calling
<1>8. Calling' = [c \in DOMAIN Calling \ {d} |-> Calling[c]]
    <2>1. Calling' = [c \in DOMAIN Calling' |-> Calling'[c]]
        BY DEF Calling
    <2>2. \A c \in DOMAIN Calling \ {d} : Calling'[c] = Calling[c]
        BY <1>3, <1>4, <1>6, <1>7 DEF Calling
    <2> QED
        BY <1>7, <2>1, <2>2
<1>9. bound[Calling[d].name] = Calling[d].spec
    <2>1. Calling[d] = [name |-> stack[d].compiling, spec |-> stack[d].specs[stack[d].compiling]]
        BY <1>1, <1>2 DEF Calling
    <2> QED
        BY <1>1, <1>2, <2>1, CallsAreBound
<1>10. \A c \in DOMAIN Calling : c <= d
    BY <1>5, <1>6
<1>11. object = "open"
    BY <1>1, <1>2 DEF IInv, InProgress, OpenIsLoaded
<1>12. Functions!Return
    BY <1>6, <1>8, <1>9, <1>10, <1>11 DEF Return, native, caches, Functions!Return
<1> QED
    BY <1>1, <1>12 DEF Return, Functions!Next, Functions!Step

\* Every step of the two caches is one of the table or leaves it alone.
LEMMA NextCache == IInv /\ [Next]_vars => [Functions!Next]_Functions!fvars
<1> SUFFICES ASSUME IInv, [Next]_vars PROVE Functions!Next \/ UNCHANGED Functions!fvars
    OBVIOUS
<1>1. CASE UNCHANGED vars
    <2>1. Calling' = Calling
        BY <1>1, SameCalls DEF vars
    <2> QED
        BY <1>1, <2>1 DEF vars, native, caches, Functions!fvars
<1>2. CASE Step
    <2>1. CASE New
        BY <2>1, NewCache
    <2>2. ASSUME NEW def \in Definitions, Dlopen(def) \/ GetFunctions(def)
          PROVE  Functions!Next \/ UNCHANGED Functions!fvars
        BY <2>2, DlopenCache, BeginCache DEF GetFunctions
    <2>3. CASE CloseBorrowed \/ CompileBorrowed
        BY <2>3, AbortCache DEF CloseBorrowed, CompileBorrowed, ProgramRuns, In
    <2>4. CASE Close
        BY <2>4, CloseCache
    <2>5. ASSUME NEW n \in Names, GetSymbol(n) \/ ListFunctions
          PROVE  UNCHANGED Functions!fvars
        <3>1. Calling' = Calling
            BY <2>5, SameCalls DEF GetSymbol, ListFunctions
        <3> QED
            BY <2>5, <3>1 DEF GetSymbol, ListFunctions, native, caches, Functions!fvars
    <2>6. CASE ListFunctions
        BY <2>5, <2>6 DEF ListFunctions
    <2>7. ASSUME NEW n \in Names, Miss(n)
          PROVE  UNCHANGED Functions!fvars
        <3>1. \E k \in Keys : TRUE
            <4>1. In(Reading) /\ n \in Top.todo
                BY <2>7 DEF Miss
            <4>2. Top \in Frame /\ LookedUp(Top)
                BY <4>1, TopLooksUp
            <4> QED
                BY <4>1, <4>2 DEF LookedUp, Asked, Frame
        <3> QED
            BY <2>7, <3>1, LookupCache
    <2>8. ASSUME NEW n \in Names, NEW k \in Keys, GetFunction(n, k) \/ Hit(n, k) \/ Publish(n, k)
          PROVE  Functions!Next \/ UNCHANGED Functions!fvars
        BY <2>8, LookupCache, PublishCache
    <2>9. CASE \E k \in Keys : CompileFunction(k)
        BY <2>9, CompileFunctionCache
    <2>10. CASE Throw
        BY <2>10, ThrowCache
    <2>11. CASE \E w \in Wrapper : Call(w)
        BY <2>11, CallCache
    <2>12. CASE Return
        BY <2>12, ReturnCache
    <2> QED
        BY <1>2, <2>1, <2>2, <2>3, <2>4, <2>5, <2>6, <2>7, <2>8, <2>9, <2>10, <2>11, <2>12 DEF Step
<1> QED
    BY <1>1, <1>2 DEF Next

\* The JavaScript layer over the native cache implements one table of
\* functions, for any names, signatures, definitions and nesting.
THEOREM FunctionCacheImplemented == Spec => ImplementsFunctionCache
BY InitCache, NextCache, Inductive, PTL DEF Spec, ImplementsFunctionCache, Functions!Spec

-----------------------------------------------------------------------------
(* The native half of it.                                                  *)

\* Wrappers are not part of the native table: giving one out changes nothing,
\* calling one is a call of its name.
LEMMA TableSteps ==
    [Functions!Next]_Functions!fvars => [Functions!Native!Next]_Functions!Native!nvars
<1> SUFFICES ASSUME [Functions!Next]_Functions!fvars
             PROVE  [Functions!Native!Next]_Functions!Native!nvars
    OBVIOUS
<1>1. CASE UNCHANGED Functions!fvars
    BY <1>1 DEF Functions!fvars, Functions!Native!nvars
<1>2. CASE Functions!Abort /\ process # "aborted"
    BY <1>2 DEF Functions!Abort, Functions!Native!Next, Functions!Native!Abort
<1>3. ASSUME process # "aborted", UNCHANGED (process = "aborted"), Functions!Step
      PROVE  [Functions!Native!Next]_Functions!Native!nvars
    <2>1. CASE Functions!Open
        BY <1>3, <2>1 DEF Functions!Open, Functions!Native!Open, Functions!Native!Next, Functions!Native!Step
    <2>2. ASSUME NEW n \in Names, NEW s \in NativeSigs, Functions!Define(n, s)
          PROVE  Functions!Native!Next
        BY <1>3, <2>2 DEF Functions!Define, Functions!Native!Define, Functions!Native!Next, Functions!Native!Step
    <2>3. ASSUME NEW w \in Wrapper, Functions!Give(w)
          PROVE  UNCHANGED Functions!Native!nvars
        BY <1>3, <2>3 DEF Functions!Give, Functions!Native!nvars
    <2>4. ASSUME NEW w \in Wrapper, Functions!Call(w)
          PROVE  Functions!Native!Next
        <3>1. w.name \in Names /\ w.spec \in NativeSigs /\ w = [name |-> w.name, spec |-> w.spec]
            BY DEF Wrapper
        <3>2. Functions!Native!Call(w.name, w.spec)
            BY <2>4, <3>1 DEF Functions!Call, Functions!Native!Call
        <3> QED
            BY <1>3, <3>1, <3>2 DEF Functions!Native!Next, Functions!Native!Step
    <2>5. CASE Functions!Return
        BY <1>3, <2>5 DEF Functions!Return, Functions!Native!Return, Functions!Native!Next, Functions!Native!Step
    <2>6. CASE Functions!Close
        BY <1>3, <2>6 DEF Functions!Close, Functions!Native!Close, Functions!Native!Next, Functions!Native!Step
    <2> QED
        BY <1>3, <2>1, <2>2, <2>3, <2>4, <2>5, <2>6 DEF Functions!Step, Wrapper
<1> QED
    BY <1>1, <1>2, <1>3 DEF Functions!Next

\* The JavaScript layer uses its native table in no way but the one NativeCache
\* describes, of which DynamicLibrary is shown to be an implementation too.
THEOREM NativeCacheImplemented == Spec => Functions!ImplementsNativeCache
<1>1. Functions!Init => Functions!Native!Init
    BY DEF Functions!Init, Functions!Native!Init
<1> QED
    BY <1>1, InitCache, NextCache, TableSteps, Inductive, PTL
       DEF Spec, Functions!ImplementsNativeCache, Functions!Native!Spec

-----------------------------------------------------------------------------
(* After close().                                                          *)

\* What the cache holds was given out, and is listed with its address.
CachedIsGiven ==
    \A n \in Names : functionCache[n] # NoEntry =>
        /\ functions[n] = functionCache[n].spec
        /\ n \in symbolCache
        /\ [name |-> n, spec |-> functionCache[n].spec] \in wrappers

\* An operation begun after close() has nothing but what the cache held.
LateOnlyHits ==
    \A i \in DOMAIN stack : stack[i].late =>
        /\ object = "closed"
        /\ \A n \in Names : stack[i].specs[n] # None => n \in stack[i].hits

LateInv == CachedIsGiven /\ LateOnlyHits

\* A step that changes no cache, but for the known addresses, and lets a late
\* operation find nothing outside the cache.
LEMMA LateKept ==
    ASSUME LateInv,
           UNCHANGED <<functionCache, functions, wrappers>>, symbolCache \subseteq symbolCache',
           object = "closed" => object' = "closed",
           \A i \in DOMAIN stack' :
               \/ i \in DOMAIN stack /\ stack'[i] = stack[i]
               \/ stack'[i].late =>
                     /\ object' = "closed"
                     /\ \A n \in Names : stack'[i].specs[n] # None => n \in stack'[i].hits
    PROVE  LateInv'
<1>1. CachedIsGiven'
    BY DEF LateInv, CachedIsGiven
<1>2. LateOnlyHits'
    BY DEF LateInv, LateOnlyHits
<1> QED
    BY <1>1, <1>2 DEF LateInv

\* An operation begins with nothing found, and is late in a closed library.
LEMMA LateBegin ==
    ASSUME IInv, LateInv, NEW op \in {"getFunction", "getFunctions", "dlopen"},
           NEW def \in Definitions, Begin(op, def), UNCHANGED caches,
           object' = object \/ object = "none"
    PROVE  LateInv'
<1> DEFINE fr == [op |-> op, def |-> def, todo |-> Asked(def), compiling |-> None,
                  specs |-> [n \in Names |-> None], hits |-> {},
                  unpublished |-> Asked(def), late |-> object = "closed"]
<1>1. TypeOK /\ fr \in Frame /\ stack' = Append(stack, fr)
    BY FirstFrame DEF IInv, Begin
<1>2. fr.late = (object = "closed") /\ \A n \in Names : fr.specs[n] = None
    OBVIOUS
<1> HIDE DEF fr
<1>3. \A i \in DOMAIN stack' : (i \in DOMAIN stack /\ stack'[i] = stack[i]) \/ stack'[i] = fr
    BY <1>1, AppendProperties
<1> QED
    BY <1>2, <1>3, LateKept DEF caches

\* A late operation can only take what the cache holds: for every name it has
\* to publish, that is what it found.
LEMMA LatePublishes ==
    ASSUME IInv, LateInv, NEW n \in Names, NEW k \in Keys, Publish(n, k)
    PROVE  /\ n \in Top.hits => functionCache[n] # NoEntry /\ functionCache[n].spec = Top.specs[n]
           /\ Top.late => n \in Top.hits
           /\ Top.specs[n] \in NativeSigs
<1>1. In(Reading) /\ Top.todo = {} /\ n \in Top.unpublished
    BY DEF Publish
<1>2. /\ TypeOK /\ Busy /\ Top \in Frame /\ LookedUp(Top)
      /\ Len(stack) \in DOMAIN stack /\ Top = stack[Len(stack)]
    BY <1>1, TopLooksUp
<1>3. Top.specs[n] # None /\ Top.specs[n] \in NativeSigs /\ Top.hits \subseteq Names
    BY <1>1, <1>2 DEF LookedUp, Frame
<1>4. Top.late => n \in Top.hits
    BY <1>2, <1>3 DEF LateInv, LateOnlyHits
<1>5. ASSUME n \in Top.hits
      PROVE  functionCache[n] # NoEntry /\ functionCache[n].spec = Top.specs[n]
    <2>1. functionCache[n] # NoEntry
        BY <1>2, <1>5 DEF LookedUp
    <2>2. functionCache[n].spec # None
        BY <2>1 DEF IInv, CachedIsWhole
    <2>3. functionCache[n].spec \in NativeSigs
        BY <1>2, <2>2, Entries
    <2>4. Found(n, functionCache[n].spec)
        BY <2>2 DEF Found
    <2>5. Found(n, Top.specs[n])
        BY <1>1, <1>3, TopFound
    <2> QED
        BY <1>3, <2>1, <2>3, <2>4, <2>5 DEF IInv, FoundIsBound
<1> QED
    BY <1>3, <1>4, <1>5

\* An entry, its wrapper and its place in the list are made together.
LEMMA PublishLate ==
    ASSUME IInv, LateInv, NEW n \in Names, NEW k \in Keys, Publish(n, k)
    PROVE  LateInv'
<1> DEFINE s == Top.specs[n]
           fr == [Top EXCEPT !.unpublished = @ \ {n}]
<1>1. In(Reading)
    BY DEF Publish
<1>2. TypeOK /\ Busy /\ Top \in Frame /\ Len(stack) \in DOMAIN stack /\ Top = stack[Len(stack)]
    BY <1>1, TopLooksUp
<1>3. /\ wrappers' = wrappers \cup {[name |-> n, spec |-> s]}
      /\ functions' = [functions EXCEPT ![n] = s]
      /\ symbolCache' = symbolCache \cup {n}
      /\ functionCache' = IF n \in Top.hits THEN functionCache
                          ELSE [functionCache EXCEPT ![n] = [key |-> k, spec |-> s]]
      /\ object' = object
      /\ End \/ Continue(fr)
    BY DEF Publish
<1>4. fr \in Frame /\ fr.late = Top.late /\ fr.specs = Top.specs /\ fr.hits = Top.hits
    BY <1>2 DEF Frame
<1>5. functionCache'[n].spec = s
    BY <1>2, <1>3, LatePublishes DEF TypeOK
<1>6. functions'[n] = s /\ \A m \in Names \ {n} : /\ functions'[m] = functions[m]
                                                  /\ functionCache'[m] = functionCache[m]
    BY <1>2, <1>3 DEF TypeOK
<1> HIDE DEF s, fr
<1>7. CachedIsGiven'
    BY <1>3, <1>5, <1>6 DEF LateInv, CachedIsGiven
<1>8. \A i \in DOMAIN stack' :
          \/ i \in DOMAIN stack /\ stack'[i] = stack[i]
          \/ i = Len(stack) /\ stack'[i] = fr
    BY <1>2, <1>3, <1>4, EndProperties, ContinueProperties
<1>9. LateOnlyHits'
    BY <1>2, <1>3, <1>4, <1>8 DEF LateInv, LateOnlyHits
<1> QED
    BY <1>7, <1>9 DEF LateInv

\* A closed library compiles nothing.
LEMMA CompileFunctionOpen ==
    ASSUME IInv, NEW k \in Keys, CompileFunction(k)
    PROVE  library /\ object = "open"
<1>1. In(Reading) /\ Top.compiling # None
    BY DEF CompileFunction
<1>2. Top \in Frame
    BY <1>1, TopLooksUp
<1>3. Top.compiling \in Names /\ Compile[k] # None
    BY <1>1, <1>2, CompileAssumption, NoneAssumption DEF Frame
<1> QED
    BY <1>3 DEF CompileFunction, IInv, OpenIsLoaded

\* A step of the operation in progress.
LEMMA LookupLate ==
    ASSUME IInv, LateInv,
           \/ \E n \in Names : Miss(n)
           \/ \E n \in Names, k \in Keys : Hit(n, k)
           \/ \E k \in Keys : CompileFunction(k)
           \/ Throw
           \/ Return
    PROVE  LateInv'
<1>1. Busy /\ TypeOK /\ Len(stack) \in DOMAIN stack /\ Top = stack[Len(stack)] /\ Top \in Frame
    BY TopProperties DEF Miss, Hit, CompileFunction, Throw, Return, In, IInv
<1>2. Top.late =>
        /\ object = "closed"
        /\ \A m \in Names : Top.specs[m] # None => m \in Top.hits
    BY <1>1 DEF LateInv, LateOnlyHits
<1>3. UNCHANGED caches /\ (object = "closed" => object' = "closed")
    BY DEF Miss, Hit, CompileFunction, Throw, Return
<1>4. ASSUME End PROVE LateInv'
    BY <1>1, <1>3, <1>4, EndProperties, LateKept DEF caches
<1>5. ASSUME NEW fr \in Frame, Continue(fr),
             fr.late => /\ object' = "closed"
                        /\ \A m \in Names : fr.specs[m] # None => m \in fr.hits
      PROVE  LateInv'
    <2>1. \A i \in DOMAIN stack' : (i \in DOMAIN stack /\ stack'[i] = stack[i]) \/ stack'[i] = fr
        BY <1>1, <1>5, ContinueProperties
    <2> QED
        BY <1>3, <1>5, <2>1, LateKept DEF caches
<1>6. ASSUME NEW n \in Names, Miss(n) PROVE LateInv'
    <2> DEFINE fr == [Top EXCEPT !.compiling = n]
    <2>1. /\ fr \in Frame /\ Continue(fr)
          /\ fr.late = Top.late /\ fr.specs = Top.specs /\ fr.hits = Top.hits
        BY <1>1, <1>6 DEF Miss, Frame
    <2> HIDE DEF fr
    <2> QED
        BY <1>2, <1>3, <1>5, <2>1
<1>7. ASSUME NEW n \in Names, NEW k \in Keys, Hit(n, k) PROVE LateInv'
    <2> DEFINE fr == [Top EXCEPT !.todo = @ \ {n}, !.hits = @ \cup {n},
                                 !.specs[n] = functionCache[n].spec]
    <2>1. End \/ Continue(fr)
        BY <1>7 DEF Hit
    <2>2. /\ fr \in Frame
          /\ fr.late = Top.late /\ fr.hits = Top.hits \cup {n}
          /\ \A m \in Names : m # n => fr.specs[m] = Top.specs[m]
        BY <1>1, Entries DEF Frame
    <2> HIDE DEF fr
    <2>3. fr.late => /\ object' = "closed"
                     /\ \A m \in Names : fr.specs[m] # None => m \in fr.hits
        BY <1>2, <1>3, <2>2
    <2> QED
        BY <1>4, <1>5, <2>1, <2>2, <2>3
<1>8. ASSUME NEW k \in Keys, CompileFunction(k) PROVE LateInv'
    <2> DEFINE n == Top.compiling
               fr == [Top EXCEPT !.todo = @ \ {n}, !.compiling = None, !.specs[n] = Compile[k]]
    <2>1. n \in Names /\ Compile[k] \in NativeSigs /\ Continue(fr)
        BY <1>1, <1>8, CompileAssumption DEF CompileFunction, Frame
    <2>2. fr \in Frame /\ fr.late = Top.late
        BY <1>1, <2>1 DEF Frame
    <2>3. ~fr.late
        BY <1>2, <1>8, <2>2, CompileFunctionOpen
    <2> HIDE DEF fr
    <2> QED
        BY <1>5, <2>1, <2>2, <2>3
<1>9. CASE Throw \/ Return
    BY <1>4, <1>9 DEF Throw, Return
<1> QED
    BY <1>6, <1>7, <1>8, <1>9

\* A call is of a wrapper of an open library.
LEMMA CallLate ==
    ASSUME IInv, LateInv, NEW w \in Wrapper, Call(w)
    PROVE  LateInv'
<1> DEFINE fr == [op |-> "call", def |-> [n \in Names |-> None], todo |-> {},
                  compiling |-> w.name, hits |-> {}, unpublished |-> {}, late |-> FALSE,
                  specs |-> [n \in Names |-> IF n = w.name THEN w.spec ELSE None]]
<1>1. TypeOK /\ fr \in Frame /\ stack' = Append(stack, fr) /\ ~fr.late
    BY DEF IInv, Call, Frame, Wrapper
<1> HIDE DEF fr
<1>2. \A i \in DOMAIN stack' : (i \in DOMAIN stack /\ stack'[i] = stack[i]) \/ stack'[i] = fr
    BY <1>1, AppendProperties
<1> QED
    BY <1>1, <1>2, LateKept DEF Call, caches

\* Every step keeps what is known of late operations.
LEMMA NextLate == IInv /\ LateInv /\ [Next]_vars => LateInv'
<1> SUFFICES ASSUME IInv, LateInv, [Next]_vars PROVE LateInv'
    OBVIOUS
<1>1. ASSUME stack' = stack, UNCHANGED <<functionCache, functions, wrappers>>,
             symbolCache \subseteq symbolCache', object = "closed" => object' = "closed"
      PROVE  LateInv'
    BY <1>1, LateKept
<1>2. CASE UNCHANGED vars
    BY <1>1, <1>2 DEF vars, caches
<1>3. CASE Step
    <2>1. CASE New \/ Close \/ ListFunctions \/ CloseBorrowed \/ CompileBorrowed
               \/ \E n \in Names : GetSymbol(n)
        BY <1>1, <2>1
        DEF New, Close, ListFunctions, CloseBorrowed, CompileBorrowed, GetSymbol, Abort, caches
    <2>2. ASSUME NEW def \in Definitions, Dlopen(def) \/ GetFunctions(def)
          PROVE  LateInv'
        BY <2>2, LateBegin DEF Dlopen, GetFunctions
    <2>3. ASSUME NEW n \in Names, NEW k \in Keys, GetFunction(n, k)
          PROVE  LateInv'
        BY <2>3, LateBegin DEF GetFunction, Definitions
    <2> QED
        BY <1>3, <2>1, <2>2, <2>3, PublishLate, LookupLate, CallLate DEF Step
<1> QED
    BY <1>2, <1>3 DEF Next

\* Nothing is cached and nothing is in progress at first.
LEMMA InitLate == Init => LateInv
BY DEF Init, LateInv, CachedIsGiven, LateOnlyHits

\* While a late operation is on top, no step changes a cache.
LEMMA LateStep ==
    ASSUME IInv, LateInv, [Next]_vars, Busy, Top.late
    PROVE  UNCHANGED <<native, caches>>
<1>1. Len(stack) \in DOMAIN stack /\ Top = stack[Len(stack)]
    BY TopProperties DEF IInv
<1>2. object = "closed" /\ library = FALSE /\ bound = [n \in Names |-> None]
    BY <1>1 DEF LateInv, LateOnlyHits, IInv, OpenIsLoaded, TypeOK
<1>3. ASSUME NEW n \in Names, NEW k \in Keys, Publish(n, k)
      PROVE  UNCHANGED <<native, caches>>
    <2>1. /\ n \in Top.hits
          /\ functionCache[n] # NoEntry /\ functionCache[n].spec = Top.specs[n]
        BY <1>3, LatePublishes
    <2>2. /\ functions[n] = Top.specs[n]
          /\ n \in symbolCache
          /\ [name |-> n, spec |-> Top.specs[n]] \in wrappers
        BY <2>1 DEF LateInv, CachedIsGiven
    <2>3. functions \in [Names -> NativeSigs \cup {None}]
        BY DEF IInv, TypeOK
    <2> QED
        BY <1>3, <2>1, <2>2, <2>3 DEF Publish, native, caches
<1>4. CASE UNCHANGED vars
    BY <1>4 DEF vars
<1>5. CASE Step
    <2>1. ~New /\ \A def \in Definitions : ~Dlopen(def)
        BY <1>2 DEF New, Dlopen
    <2>2. \A n \in Names : ~GetSymbol(n) /\ \A k \in Keys : ~GetFunction(n, k) /\ ~CompileFunction(k)
        BY <1>2, CompileFunctionOpen DEF GetSymbol, GetFunction
    <2>3. \A w \in Wrapper : ~Call(w)
        BY <1>2 DEF Call
    <2> QED
        BY <1>2, <1>3, <1>5, <2>1, <2>2, <2>3, CompileFunctionOpen
        DEF Step, GetFunctions, CloseBorrowed, Close, Miss, Hit, ListFunctions,
            CompileBorrowed, Throw, Return, Abort, native
<1> QED
    BY <1>4, <1>5 DEF Next

\* After close() a name can only be given again: an operation begun then adds
\* to no cache and compiles nothing, whatever is in progress around it.
THEOREM ClosedGivesNothingNew == Spec => LateGivesNothingNew
<1>1. IInv /\ LateInv /\ [Next]_vars => [Busy /\ Top.late => UNCHANGED <<native, caches>>]_vars
    BY LateStep
<1> QED
    BY <1>1, InitLate, NextLate, Inductive, PTL DEF Spec, LateGivesNothingNew
=============================================================================
