------------------------- MODULE NativeCache_proofs -------------------------
(***************************************************************************)
(* Every library object of DynamicLibrary keeps the table of NativeCache,  *)
(* for any number of libraries, symbols and threads and any nesting.       *)
(***************************************************************************)
EXTENDS DynamicLibrary_proofs

-----------------------------------------------------------------------------
(* The calls of a library in progress.                                     *)

\* They are what its thread's stack says of its own calls, nothing else.
LEMMA SameCalls ==
    ASSUME NEW l \in Libs, NEW t, t = LibThread[l],
           {i \in DOMAIN stack'[t] : stack'[t][i].kind = "invoke" /\ stack'[t][i].lib = l}
             = {i \in DOMAIN stack[t] : stack[t][i].kind = "invoke" /\ stack[t][i].lib = l},
           \A i \in DOMAIN stack[t] :
               stack[t][i].kind = "invoke" /\ stack[t][i].lib = l =>
                   /\ stack'[t][i].sym = stack[t][i].sym
                   /\ stack'[t][i].sig = stack[t][i].sig
    PROVE  CallsOf(l)' = CallsOf(l)
<1> DEFINE I == {i \in DOMAIN stack[t] : stack[t][i].kind = "invoke" /\ stack[t][i].lib = l}
           J == {i \in DOMAIN stack'[t] :
                    stack'[t][i].kind = "invoke" /\ stack'[t][i].lib = l}
<1>1. J = I
    OBVIOUS
<1>2. CallsOf(l) = [i \in I |-> [name |-> stack[t][i].sym, spec |-> stack[t][i].sig]]
    BY DEF CallsOf
<1>3. CallsOf(l)' = [i \in J |-> [name |-> stack'[t][i].sym, spec |-> stack'[t][i].sig]]
    BY DEF CallsOf
<1>4. \A i \in I : /\ stack'[t][i].sym = stack[t][i].sym
                   /\ stack'[t][i].sig = stack[t][i].sig
    OBVIOUS
<1> QED
    BY <1>1, <1>2, <1>3, <1>4

\* Where they are, and what each of them is.
LEMMA CallsProperties ==
    ASSUME IInv, NEW l \in Libs
    PROVE  LET t == LibThread[l] IN
           /\ t \in Threads
           /\ stack[t] \in Seq(Frame)
           /\ DOMAIN stack[t] = 1 .. Len(stack[t])
           /\ Len(stack[t]) \in Nat
           /\ \A i \in DOMAIN stack[t] : stack[t][i] \in Frame
           /\ DOMAIN CallsOf(l) = {i \in DOMAIN stack[t] :
                                      stack[t][i].kind = "invoke" /\ stack[t][i].lib = l}
           /\ \A i \in DOMAIN CallsOf(l) :
                 CallsOf(l)[i] = [name |-> stack[t][i].sym, spec |-> stack[t][i].sig]
           /\ ~Borrowed(l) => DOMAIN CallsOf(l) = {}
           /\ DOMAIN CallsOf(l) # {} => library[l] = "open"
<1> DEFINE t == LibThread[l]
<1>1. t \in Threads
    BY HomeAssumption
<1>2. stack[t] \in Seq(Frame)
    BY <1>1 DEF IInv, TypeOK
<1>3. DOMAIN stack[t] = 1 .. Len(stack[t]) /\ Len(stack[t]) \in Nat
    BY <1>2
<1>4. \A i \in DOMAIN stack[t] : stack[t][i] \in Frame
    BY <1>2
<1>5. /\ DOMAIN CallsOf(l) = {i \in DOMAIN stack[t] :
                                 stack[t][i].kind = "invoke" /\ stack[t][i].lib = l}
      /\ \A i \in DOMAIN CallsOf(l) :
            CallsOf(l)[i] = [name |-> stack[t][i].sym, spec |-> stack[t][i].sig]
    BY DEF CallsOf
<1>6. ~Borrowed(l) => DOMAIN CallsOf(l) = {}
    BY <1>1, <1>5 DEF Borrowed
<1>7. DOMAIN CallsOf(l) # {} => library[l] = "open"
    BY <1>1, <1>5 DEF IInv, RunningCallIntact
<1> QED
    BY <1>1, <1>2, <1>3, <1>4, <1>5, <1>6, <1>7

\* Freeing bindings marks callbacks and touches no call.
LEMMA FreeCalls ==
    ASSUME IInv, NEW ps \in SUBSET Ptrs, Free(ps), NEW l \in Libs
    PROVE  CallsOf(l)' = CallsOf(l)
<1> DEFINE t == LibThread[l]
<1>1. t \in Threads
    BY HomeAssumption
<1>2. /\ DOMAIN stack'[t] = DOMAIN stack[t]
      /\ \A i \in DOMAIN stack[t] : /\ stack'[t][i].kind = stack[t][i].kind
                                    /\ stack'[t][i].lib = stack[t][i].lib
                                    /\ stack'[t][i].sym = stack[t][i].sym
                                    /\ stack'[t][i].sig = stack[t][i].sig
    BY <1>1, FreeStack DEF IInv
<1> HIDE DEF t
<1> QED
    BY <1>2, SameCalls DEF t

\* Pushing an activation that is no call of l touches no call of l.
LEMMA PushCalls ==
    ASSUME IInv, NEW u \in Threads, NEW fr \in Frame, NEW l \in Libs,
           stack' = [stack EXCEPT ![u] = Append(@, fr)],
           ~(fr.kind = "invoke" /\ fr.lib = l)
    PROVE  CallsOf(l)' = CallsOf(l)
<1> DEFINE t == LibThread[l]
<1>1. t \in Threads /\ stack[t] \in Seq(Frame) /\ stack \in [Threads -> Seq(Frame)]
    BY HomeAssumption DEF IInv, TypeOK
<1>2. CASE t # u
    <2>1. stack'[t] = stack[t]
        BY <1>1, <1>2
    <2> HIDE DEF t
    <2> QED
        BY <2>1, SameCalls DEF t
<1>3. CASE t = u
    <2>1. stack'[t] = Append(stack[t], fr)
        BY <1>1, <1>3
    <2>2. /\ DOMAIN stack'[t] = 1 .. (Len(stack[t]) + 1)
          /\ DOMAIN stack[t] = 1 .. Len(stack[t])
          /\ \A i \in DOMAIN stack[t] : stack'[t][i] = stack[t][i]
          /\ stack'[t][Len(stack[t]) + 1] = fr
        BY <1>1, <2>1, PushProperties
    <2>3. \A i \in DOMAIN stack'[t] : i \in DOMAIN stack[t] \/ stack'[t][i] = fr
        BY <1>1, <2>2
    <2>4. DOMAIN stack[t] \subseteq DOMAIN stack'[t]
        BY <1>1, <2>2
    <2> HIDE DEF t
    <2> QED
        BY <2>2, <2>3, <2>4, SameCalls DEF t
<1> QED
    BY <1>2, <1>3

\* Popping an activation that is no call of l touches no call of l.
LEMMA PopCalls ==
    ASSUME IInv, NEW u \in Threads, stack[u] # <<>>, NEW l \in Libs,
           stack' = [stack EXCEPT ![u] = Pop(@)],
           ~(Top(stack[u]).kind = "invoke" /\ Top(stack[u]).lib = l)
    PROVE  CallsOf(l)' = CallsOf(l)
<1> DEFINE t == LibThread[l]
<1>1. t \in Threads /\ stack[t] \in Seq(Frame) /\ stack \in [Threads -> Seq(Frame)]
    BY HomeAssumption DEF IInv, TypeOK
<1>2. CASE t # u
    <2>1. stack'[t] = stack[t]
        BY <1>1, <1>2
    <2> HIDE DEF t
    <2> QED
        BY <2>1, SameCalls DEF t
<1>3. CASE t = u
    <2>1. stack'[t] = Pop(stack[t])
        BY <1>1, <1>3
    <2>2. /\ DOMAIN stack'[t] = 1 .. (Len(stack[t]) - 1)
          /\ DOMAIN stack'[t] \subseteq DOMAIN stack[t]
          /\ \A i \in DOMAIN stack'[t] : stack'[t][i] = stack[t][i]
        BY <1>1, <1>3, <2>1, PopProperties
    <2>3. \A i \in DOMAIN stack[t] :
              i \in DOMAIN stack'[t] \/ stack[t][i] = Top(stack[u])
        BY <1>1, <1>3, <2>2 DEF Top
    <2> HIDE DEF t
    <2> QED
        BY <2>2, <2>3, SameCalls DEF t
<1> QED
    BY <1>2, <1>3

-----------------------------------------------------------------------------
(* Steps that leave the table of l alone, or end the process.              *)

\* What changes neither the library nor its functions and calls is no step.
LEMMA SameCache ==
    ASSUME NEW l \in Libs, library'[l] = library[l], functions'[l] = functions[l],
           process' = process, CallsOf(l)' = CallsOf(l)
    PROVE  UNCHANGED Cache(l)!nvars
BY DEF Cache!nvars, Status

\* In particular a step on the bindings, the program's references or the heap.
LEMMA OtherCache ==
    ASSUME NEW l \in Libs, UNCHANGED <<library, functions, stack, process>>
    PROVE  UNCHANGED Cache(l)!nvars
BY SameCache DEF CallsOf

\* The end of the process ends the table with everything in it.
LEMMA StopCache ==
    ASSUME NEW l \in Libs, UNCHANGED <<library, functions, stack>>,
           process = "running", process' # "running"
    PROVE  Cache(l)!Next
<1>1. CallsOf(l)' = CallsOf(l)
    BY DEF CallsOf
<1> QED
    BY <1>1 DEF Cache!Next, Cache!Abort, Status

-----------------------------------------------------------------------------
(* Steps of the table.                                                     *)

\* Closing and finalizing happen between the calls of a library.
LEMMA CloseCache ==
    ASSUME IInv, NEW l \in Libs, ~Borrowed(l), CallsOf(l)' = CallsOf(l),
           process = "running", process' = process,
           library'[l] \in {"closed", "dropped"},
           functions'[l] = [s \in Symbols |-> None]
    PROVE  Cache(l)!Next
<1>1. DOMAIN CallsOf(l) = {}
    BY CallsProperties
<1>2. Status(l)' = "closed"
    BY DEF Status
<1>3. Cache(l)!Close
    BY <1>1, <1>2 DEF Cache!Close
<1> QED
    BY <1>3 DEF Cache!Next, Cache!Step

\* A library is created, or a function is compiled between its calls.
LEMMA LibraryCache ==
    ASSUME IInv, NEW t \in Threads, NEW m \in Libs, NEW l \in Libs,
           New(t, m) \/ \E s \in Symbols, g \in Sigs : GetFunction(t, m, s, g)
    PROVE  UNCHANGED Cache(l)!nvars \/ Cache(l)!Next
<1>1. /\ UNCHANGED <<stack, process>>
      /\ process = "running"
      /\ \A k \in Libs : k # m => library'[k] = library[k] /\ functions'[k] = functions[k]
    BY DEF New, GetFunction, Calls, InJs, memory, IInv, TypeOK
<1>2. CallsOf(l)' = CallsOf(l)
    BY <1>1 DEF CallsOf
<1>3. CASE l # m
    BY <1>1, <1>2, <1>3, SameCache
<1>4. CASE l = m /\ New(t, l)
    <2>1. Status(l) = "none" /\ Status(l)' = "open" /\ functions' = functions
        BY <1>4 DEF New, Status, IInv, TypeOK
    <2>2. Cache(l)!Open
        BY <1>2, <2>1 DEF Cache!Open
    <2> QED
        BY <1>1, <2>2 DEF Cache!Next, Cache!Step
<1>5. ASSUME l = m, NEW s \in Symbols, NEW g \in Sigs, GetFunction(t, l, s, g)
      PROVE  Cache(l)!Next
    <2>1. /\ library[l] = "open" /\ library' = library
          /\ ~Borrowed(l)
          /\ functions[l][s] = None
          /\ functions'[l] = [functions[l] EXCEPT ![s] = g]
        BY <1>5 DEF GetFunction, IInv, TypeOK
    <2>2. DOMAIN CallsOf(l) = {}
        BY <2>1, CallsProperties
    <2>3. Status(l) = "open" /\ Status(l)' = "open"
        BY <2>1 DEF Status
    <2>4. Cache(l)!Define(s, g)
        BY <1>2, <2>1, <2>2, <2>3 DEF Cache!Define
    <2> QED
        BY <1>1, <2>4 DEF Cache!Next, Cache!Step
<1> QED
    BY <1>3, <1>4, <1>5

\* A call begins with the signature its function was compiled with.
LEMMA InvokeCache ==
    ASSUME IInv, NEW t \in Threads, NEW m \in Libs, NEW s \in Symbols,
           NEW p \in Ptrs \cup {None}, Invoke(t, m, s, p), NEW l \in Libs
    PROVE  UNCHANGED Cache(l)!nvars \/ Cache(l)!Next
<1> DEFINE fr == [kind |-> "invoke", lib |-> m, sym |-> s, sig |-> functions[m][s],
                  ptr |-> p, fn |-> None, dangling |-> FALSE]
<1>1. functions[m][s] \in Sigs
    BY DEF IInv, TypeOK, Invoke
<1>2. /\ fr \in Frame
      /\ fr.kind = "invoke" /\ fr.lib = m /\ fr.sym = s /\ fr.sig = functions[m][s]
    BY <1>1 DEF Frame, InvokeFrame
<1>3. /\ stack' = [stack EXCEPT ![t] = Append(@, fr)]
      /\ UNCHANGED <<library, functions, process>>
      /\ process = "running" /\ LibThread[m] = t
    BY DEF Invoke, Calls, InJs
<1> HIDE DEF fr
<1>4. CASE l # m
    BY <1>2, <1>3, <1>4, PushCalls, SameCache
<1>5. CASE l = m
    <2> DEFINE d == Len(stack[t]) + 1
    <2>1. stack[t] \in Seq(Frame) /\ stack'[t] = Append(stack[t], fr)
        BY <1>3 DEF IInv, TypeOK
    <2>2. /\ DOMAIN stack'[t] = 1 .. d
          /\ DOMAIN stack[t] = 1 .. Len(stack[t]) /\ Len(stack[t]) \in Nat
          /\ \A i \in DOMAIN stack[t] : stack'[t][i] = stack[t][i]
          /\ stack'[t][d] = fr
        BY <1>2, <2>1, PushProperties
    <2>3. library[l] = "open"
        BY <1>1, <1>5, NoneAssumption DEF IInv, ClosedIsEmpty
    <2>4. Status(l) = "open" /\ Status(l)' = "open"
        BY <1>3, <2>3 DEF Status
    <2>5. d \in DOMAIN CallsOf(l)' /\ \A c \in DOMAIN CallsOf(l) : c < d
        BY <1>2, <1>3, <1>5, <2>2 DEF CallsOf
    <2>6. {i \in DOMAIN stack'[t] : stack'[t][i].kind = "invoke" /\ stack'[t][i].lib = l}
            = DOMAIN CallsOf(l) \cup {d}
        BY <1>2, <1>3, <1>5, <2>2 DEF CallsOf
    <2>7. CallsOf(l)' = [i \in DOMAIN CallsOf(l) \cup {d} |->
                            [name |-> stack'[t][i].sym, spec |-> stack'[t][i].sig]]
        BY <1>3, <1>5, <2>6 DEF CallsOf
    <2>8. \A i \in DOMAIN CallsOf(l) :
              CallsOf(l)[i] = [name |-> stack'[t][i].sym, spec |-> stack'[t][i].sig]
        BY <1>3, <1>5, <2>2 DEF CallsOf
    <2>9. d \notin DOMAIN CallsOf(l)
        BY <2>2, <2>5
    <2>10. CallsOf(l)' = [i \in DOMAIN CallsOf(l) \cup {d} |->
                IF i = d THEN [name |-> s, spec |-> functions[l][s]] ELSE CallsOf(l)[i]]
        BY <1>2, <1>5, <2>2, <2>7, <2>8, <2>9
    <2>11. Cache(l)!Call(s, functions[l][s])
        BY <1>3, <2>4, <2>5, <2>10 DEF Cache!Call
    <2> QED
        BY <1>1, <1>3, <1>5, <2>11 DEF Cache!Next, Cache!Step
<1> QED
    BY <1>4, <1>5

\* A call ends with the signature it began with.
LEMMA ReturnCache ==
    ASSUME IInv, NEW t \in Threads, ReturnFromNative(t), NEW l \in Libs
    PROVE  UNCHANGED Cache(l)!nvars \/ Cache(l)!Next
<1> DEFINE d == Len(stack[t])
           fr == stack[t][d]
<1>1. /\ stack[t] \in Seq(Frame) /\ stack[t] # <<>>
      /\ Top(stack[t]) = fr /\ fr.kind = "invoke"
      /\ stack' = [stack EXCEPT ![t] = Pop(@)]
      /\ UNCHANGED <<library, functions, process>>
      /\ process = "running"
    BY DEF IInv, TypeOK, ReturnFromNative, InNative, InC, Top
<1>2. /\ d \in DOMAIN stack[t] /\ DOMAIN stack[t] = 1 .. d /\ d \in Nat
      /\ library[fr.lib] = "open"
      /\ functions[fr.lib][fr.sym] = fr.sig
      /\ LibThread[fr.lib] = t
    BY <1>1 DEF IInv, RunningCallIntact
<1>3. CASE fr.lib # l
    BY <1>1, <1>3, PopCalls, SameCache
<1>4. CASE fr.lib = l
    <2>1. stack'[t] = Pop(stack[t])
        BY <1>1 DEF IInv, TypeOK
    <2>2. /\ DOMAIN stack'[t] = 1 .. (d - 1)
          /\ \A i \in DOMAIN stack'[t] : stack'[t][i] = stack[t][i]
        BY <1>1, <2>1, PopProperties
    <2>3. Status(l) = "open" /\ Status(l)' = "open"
        BY <1>1, <1>2, <1>4 DEF Status
    <2>4. d \in DOMAIN CallsOf(l) /\ \A c \in DOMAIN CallsOf(l) : c <= d
        BY <1>1, <1>2, <1>4 DEF CallsOf
    <2>5. CallsOf(l)[d] = [name |-> fr.sym, spec |-> fr.sig]
        BY <1>1, <1>2, <1>4, <2>4 DEF CallsOf
    <2>6. {i \in DOMAIN stack'[t] : stack'[t][i].kind = "invoke" /\ stack'[t][i].lib = l}
            = DOMAIN CallsOf(l) \ {d}
        BY <1>2, <1>4, <2>2 DEF CallsOf
    <2>7. CallsOf(l)' = [i \in DOMAIN CallsOf(l) \ {d} |->
                            [name |-> stack'[t][i].sym, spec |-> stack'[t][i].sig]]
        BY <1>2, <1>4, <2>6 DEF CallsOf
    <2>8. \A i \in DOMAIN CallsOf(l) \ {d} :
              CallsOf(l)[i] = [name |-> stack'[t][i].sym, spec |-> stack'[t][i].sig]
        BY <1>2, <1>4, <2>2 DEF CallsOf
    <2>9. CallsOf(l)' = [i \in DOMAIN CallsOf(l) \ {d} |-> CallsOf(l)[i]]
        BY <2>7, <2>8
    <2>10. Cache(l)!Return
        BY <1>1, <1>2, <1>4, <2>3, <2>4, <2>5, <2>9 DEF Cache!Return
    <2> QED
        BY <1>1, <2>10 DEF Cache!Next, Cache!Step
<1> QED
    BY <1>3, <1>4

\* The end of a thread's environment closes its libraries, idle as they are.
LEMMA ExitCache ==
    ASSUME IInv, NEW t \in Threads, Exit(t), NEW l \in Libs
    PROVE  UNCHANGED Cache(l)!nvars \/ Cache(l)!Next
<1>1. CallsOf(l)' = CallsOf(l)
    <2>1. {p \in Ptrs : callbacks[p].lib \in LibsOf(t)} \in SUBSET Ptrs
        OBVIOUS
    <2> QED
        BY <2>1, FreeCalls DEF Exit
<1>2. process = "running" /\ process' = process
    BY DEF Exit, InJs
<1>3. CASE l \in LibsOf(t)
    <2>1. library'[l] = "dropped" /\ functions'[l] = [s \in Symbols |-> None]
        BY <1>3 DEF Exit
    <2>2. stack[t] = <<>> /\ LibThread[l] = t
        BY <1>3 DEF Exit, LibsOf
    <2>3. ~Borrowed(l)
        <3> SUFFICES ASSUME NEW u \in Threads, NEW i \in DOMAIN stack[u],
                            stack[u][i].kind = "invoke", stack[u][i].lib = l
                     PROVE  FALSE
            BY DEF Borrowed
        <3>1. u = t
            BY <2>2 DEF IInv, RunningCallIntact
        <3> QED
            BY <2>2, <3>1
    <2> QED
        BY <1>1, <1>2, <2>1, <2>3, CloseCache
<1>4. CASE l \notin LibsOf(t)
    BY <1>1, <1>2, <1>4, SameCache DEF Exit
<1> QED
    BY <1>3, <1>4

-----------------------------------------------------------------------------
(* All steps.                                                              *)

\* Closing or finalizing m frees its bindings, empties its functions, and
\* leaves every other library as it is.
LEMMA ReleaseCache ==
    ASSUME IInv, NEW m \in Libs, NEW l \in Libs,
           FinalizeLib(m) \/ \E t \in Threads : Close(t, m)
    PROVE  UNCHANGED Cache(l)!nvars \/ Cache(l)!Next
<1>1. BindingsOf(m) \in SUBSET Ptrs
    BY DEF BindingsOf
<1>2. CallsOf(l)' = CallsOf(l)
    BY <1>1, FreeCalls DEF FinalizeLib, Close
<1>3. /\ ~Borrowed(m) /\ process = "running" /\ process' = process
      /\ library'[m] \in {"closed", "dropped"}
      /\ functions'[m] = [s \in Symbols |-> None]
      /\ \A k \in Libs : k # m => library'[k] = library[k] /\ functions'[k] = functions[k]
    BY DEF FinalizeLib, Close, Calls, InJs, IInv, TypeOK
<1>4. CASE l = m
    BY <1>2, <1>3, <1>4, CloseCache
<1>5. CASE l # m
    BY <1>2, <1>3, <1>5, SameCache
<1> QED
    BY <1>4, <1>5

\* A registration or a callback that begins or ends is no call.
LEMMA ActivationCache ==
    ASSUME IInv, NEW t \in Threads, NEW l \in Libs,
           \/ \E m \in Libs, f \in Fns : StartRegister(t, m, f)
           \/ \E p \in Ptrs : RegisterCallback(t, p) \/ EnterCallback(t, p)
           \/ RegisterFails(t)
           \/ ReturnFromCallback(t)
    PROVE  UNCHANGED Cache(l)!nvars
<1>1. UNCHANGED <<library, functions, process>>
    BY DEF StartRegister, RegisterCallback, EnterCallback, RegisterFails, ReturnFromCallback
<1>2. ASSUME NEW m \in Libs, NEW f \in Fns, StartRegister(t, m, f)
      PROVE  CallsOf(l)' = CallsOf(l)
    <2> DEFINE fr == [kind |-> "register", lib |-> m, sym |-> None, sig |-> None,
                      ptr |-> None, fn |-> f, dangling |-> FALSE]
    <2>1. fr \in Frame /\ fr.kind = "register"
        BY DEF Frame, RegisterFrame
    <2>2. stack' = [stack EXCEPT ![t] = Append(@, fr)]
        BY <1>2 DEF StartRegister
    <2> HIDE DEF fr
    <2> QED
        BY <2>1, <2>2, PushCalls
<1>3. ASSUME NEW p \in Ptrs, EnterCallback(t, p)
      PROVE  CallsOf(l)' = CallsOf(l)
    <2> DEFINE b == callbacks[p]
               fr == [kind |-> "callback", lib |-> b.lib, sym |-> None, sig |-> None,
                      ptr |-> p, fn |-> b.fn, dangling |-> FALSE]
    <2>1. b.fn \in Fns /\ b.lib \in Libs
        <3>1. Own(t, p)
            BY <1>3 DEF EnterCallback
        <3> QED
            BY <3>1, OwnProperties DEF IInv, ClosedIsEmpty, FnsOf, Own
    <2>2. fr \in Frame /\ fr.kind = "callback"
        BY <2>1 DEF Frame, CallbackFrame
    <2>3. stack' = [stack EXCEPT ![t] = Append(@, fr)]
        BY <1>3 DEF EnterCallback
    <2> HIDE DEF fr
    <2> QED
        BY <2>2, <2>3, PushCalls
<1>4. CASE (\E p \in Ptrs : RegisterCallback(t, p)) \/ RegisterFails(t) \/ ReturnFromCallback(t)
    <2>1. /\ stack[t] # <<>> /\ Top(stack[t]).kind \in {"register", "callback"}
          /\ stack' = [stack EXCEPT ![t] = Pop(@)]
        BY <1>4 DEF RegisterCallback, RegisterFails, ReturnFromCallback
    <2> QED
        BY <1>1, <2>1, PopCalls, SameCache
<1> QED
    BY <1>1, <1>2, <1>3, <1>4, SameCache

\* Every step is one the table of l allows, or none.
LEMMA NextCache ==
    ASSUME IInv, [Next]_vars, NEW l \in Libs
    PROVE  UNCHANGED Cache(l)!nvars \/ Cache(l)!Next
<1>1. CASE UNCHANGED vars
    BY <1>1, OtherCache DEF vars
<1>2. ASSUME NEW t \in Threads, Method(t)
      PROVE  UNCHANGED Cache(l)!nvars \/ Cache(l)!Next
    <2>1. ASSUME NEW m \in Libs, CloseBorrowed(t, m) \/ GetFunctionBorrowed(t, m)
          PROVE  Cache(l)!Next
        BY <2>1, StopCache DEF CloseBorrowed, GetFunctionBorrowed, Abort, Calls, InJs
    <2>2. ASSUME NEW m \in Libs, NEW p \in Ptrs, UnregisterCallback(t, m, p)
          PROVE  UNCHANGED Cache(l)!nvars
        <3>1. {p} \in SUBSET Ptrs
            OBVIOUS
        <3> QED
            BY <2>2, <3>1, FreeCalls, SameCache DEF UnregisterCallback
    <2>3. ASSUME NEW m \in Libs, NEW p \in Ptrs,
                 RefCallback(t, m, p) \/ UnrefCallback(t, m, p)
          PROVE  UNCHANGED Cache(l)!nvars
        BY <2>3, OtherCache DEF RefCallback, UnrefCallback
    <2> QED
        BY <1>2, <2>1, <2>2, <2>3, LibraryCache, ReleaseCache, ActivationCache, InvokeCache
        DEF Method
<1>3. ASSUME NEW t \in Threads, Native(t)
      PROVE  UNCHANGED Cache(l)!nvars \/ Cache(l)!Next
    <2>1. ASSUME NEW p \in Ptrs, KeepAddress(t, p) \/ ForgetAddress(t, p) \/ CallCollected(t, p)
          PROVE  UNCHANGED Cache(l)!nvars
        BY <2>1, OtherCache DEF KeepAddress, ForgetAddress, CallCollected
    <2>2. ASSUME \/ \E p \in Ptrs : EnterCallbackFails(t, p)
                 \/ CallbackThrows(t)
                 \/ ReturnDangling(t)
          PROVE  Cache(l)!Next
        BY <2>2, StopCache
        DEF EnterCallbackFails, CallbackThrows, ReturnDangling, Own, Has, InNative, InJs,
            Abort, Undefined
    <2> QED
        BY <1>3, <2>1, <2>2, ActivationCache, ReturnCache DEF Native
<1>4. ASSUME NEW p \in Ptrs, CallFreed(p) \/ CallForeign(p)
      PROVE  Cache(l)!Next
    BY <1>4, StopCache DEF CallFreed, CallForeign, Abort, Undefined
<1>5. ASSUME \/ \E f \in Fns : DropFn(f) \/ CollectOrphan(f) \/ CollectFn(f)
             \/ \E m \in Libs : DropLib(m)
             \/ \E p \in Ptrs : CollectHolder(p)
      PROVE  UNCHANGED Cache(l)!nvars
    BY <1>5, OtherCache DEF DropFn, CollectOrphan, CollectFn, DropLib, CollectHolder
<1> QED
    BY <1>1, <1>2, <1>3, <1>4, <1>5, ExitCache, ReleaseCache DEF Next, Collector

\* No library has been created, compiled a function or is being called.
LEMMA InitCache == ASSUME Init, NEW l \in Libs PROVE Cache(l)!Init
<1>1. LibThread[l] \in Threads
    BY HomeAssumption
<1>2. DOMAIN CallsOf(l) = {}
    BY <1>1 DEF Init, CallsOf
<1> QED
    BY <1>2 DEF Init, Cache!Init, Status

-----------------------------------------------------------------------------
(* Theorem.                                                                *)

\* Every library object keeps the table of its functions, for any number of
\* libraries, symbols, signatures and threads, and any nesting of calls.
THEOREM NativeCacheImplemented == Spec => ImplementsNativeCache
<1>1. Init => \A l \in Libs : Cache(l)!Init
    BY InitCache
<1>2. IInv /\ [Next]_vars =>
          [\A l \in Libs : UNCHANGED Cache(l)!nvars \/ Cache(l)!Next]_vars
    BY NextCache
<1> QED
    BY <1>1, <1>2, Inductive, PTL DEF Spec, ImplementsNativeCache
=============================================================================
