--------------------------- MODULE DynamicLibrary ---------------------------
(***************************************************************************)
(* The native core of napi-ffi, src/src/dynamic_library.rs: the objects    *)
(* that own an opened library, its compiled functions and its callbacks,   *)
(* and the calls that run across them.                                     *)
(*                                                                         *)
(* A call from JavaScript enters `invoke`, which keeps the RefCell of the  *)
(* function cache borrowed until the C function has returned.  The C       *)
(* function may call a closure, which re-enters JavaScript; that           *)
(* JavaScript may call any method of any library of its thread again.      *)
(* So may the program's code that runs while `register_callback` reads a   *)
(* definition.  The nesting is explicit here: stack[t] is the sequence of  *)
(* these activations of thread t, and JavaScript of t runs exactly when no *)
(* `invoke` is on top.  Threads (the main one and its workers) interleave  *)
(* and end, C code may keep the addresses it was given, and the garbage    *)
(* collector may step at any time.                                         *)
(***************************************************************************)
EXTENDS Integers, Sequences

CONSTANTS
    Threads,     \* threads that run a JavaScript environment
    Libs,        \* DynamicLibrary objects, each created at most once
    Symbols,     \* symbols the opened libraries export
    Sigs,        \* compiled signatures, up to signatures_match
    Ptrs,        \* addresses libffi may give to a closure
    Fns,         \* JavaScript functions passed to register_callback
    LibThread,   \* the thread whose environment each library object lives in
    FnThread,    \* the thread whose heap each function lives in
    None,        \* no library, thread, symbol, signature, pointer or function
    MaxDepth     \* bound on the nesting of calls and callbacks

ASSUME NoneAssumption ==
    None \notin Threads \cup Libs \cup Symbols \cup Sigs \cup Ptrs \cup Fns
ASSUME HomeAssumption ==
    /\ LibThread \in [Libs -> Threads]
    /\ FnThread \in [Fns -> Threads]
ASSUME DepthAssumption == MaxDepth \in Nat

VARIABLES
    library,    \* per object: not created, Some(library), None, or finalized
    functions,  \* per object: signature compiled for each symbol, or None
    callbacks,  \* per address: the CallbackBinding whose closure lives there
    stack,      \* per thread: activations of invoke, callbacks, registrations
    process,    \* whether the process runs, aborted, or is undefined
    heldLibs,   \* library objects the program can still reach
    heldFns,    \* functions the program itself can still reach
    alive,      \* functions the collector has not freed
    orphans,    \* functions kept by CallbackRef objects of freed bindings
    kept,       \* addresses C code has stored, for later calls and any thread
    releasedInUse, \* history: some binding was freed while C code had it
    overtaken   \* history: libraries closed during a registration of theirs

memory == <<heldLibs, heldFns, alive, orphans, kept>>
history == <<releasedInUse, overtaken>>
vars == <<library, functions, callbacks, stack, process, memory, history>>

-----------------------------------------------------------------------------
(* Types.                                                                  *)

\* holder says whether the CallbackRef object the state points to still
\* exists; it owns a strong reference to fn.  refd is a history variable: the
\* last successful register, ref or unref request asked for retention, and
\* the program could then still reach fn.
Binding == [lib: Libs \cup {None}, thread: Threads \cup {None},
            fn: Fns \cup {None}, state: {"strong", "weak", "collected"},
            holder: BOOLEAN, refd: BOOLEAN]

NoBinding == [lib |-> None, thread |-> None, fn |-> None,
              state |-> "collected", holder |-> FALSE, refd |-> FALSE]

\* An activation of invoke: ptr is the closure its C function was given.
InvokeFrame == [kind: {"invoke"}, lib: Libs, sym: Symbols, sig: Sigs,
                ptr: Ptrs \cup {None}, fn: {None}, dangling: {FALSE}]

\* An activation of the closure at ptr.  dangling: the binding it entered
\* through has been freed under it.
CallbackFrame == [kind: {"callback"}, lib: Libs, sym: {None}, sig: {None},
                  ptr: Ptrs, fn: Fns, dangling: BOOLEAN]

\* An activation of register_callback, whose definition is being read.
RegisterFrame == [kind: {"register"}, lib: Libs, sym: {None}, sig: {None},
                  ptr: {None}, fn: Fns, dangling: {FALSE}]

Frame == InvokeFrame \cup CallbackFrame \cup RegisterFrame

TypeOK ==
    /\ library \in [Libs -> {"absent", "open", "closed", "dropped"}]
    /\ functions \in [Libs -> [Symbols -> Sigs \cup {None}]]
    /\ callbacks \in [Ptrs -> Binding]
    /\ stack \in [Threads -> Seq(Frame)]
    /\ process \in {"running", "aborted", "undefined"}
    /\ heldLibs \subseteq Libs
    /\ heldFns \subseteq Fns
    /\ alive \subseteq Fns
    /\ orphans \subseteq Fns
    /\ kept \subseteq Ptrs
    /\ releasedInUse \in BOOLEAN
    /\ overtaken \subseteq Libs

-----------------------------------------------------------------------------
(* State functions.                                                        *)

Top(s) == s[Len(s)]
Pop(s) == SubSeq(s, 1, Len(s) - 1)

\* t is inside a C function, or else its JavaScript runs.
InC(t) == stack[t] # <<>> /\ Top(stack[t]).kind = "invoke"
InNative(t) == process = "running" /\ InC(t)
InJs(t) == process = "running" /\ ~InC(t)

\* JavaScript of t runs and can call a method of l.
Calls(t, l) ==
    /\ InJs(t)
    /\ l \in heldLibs
    /\ LibThread[l] = t

\* Mutation: the borrow ends before the C function is called.
BorrowNotHeld(l) == FALSE

\* Mutation: the borrow is released while a callback runs.
BorrowOnlyOnTop(l) ==
    \E t \in Threads : InC(t) /\ Top(stack[t]).lib = l

\* RefCell: `invoke` holds self.functions.borrow() to its end.
Borrowed(l) ==
    \E t \in Threads : \E i \in DOMAIN stack[t] :
        stack[t][i].kind = "invoke" /\ stack[t][i].lib = l

\* A registration with l has checked that it is open and reads its definition.
Registering(l) ==
    \E t \in Threads : \E i \in DOMAIN stack[t] :
        stack[t][i].kind = "register" /\ stack[t][i].lib = l

Registered(p) == callbacks[p].lib # None
BindingsOf(l) == {p \in Ptrs : callbacks[p].lib = l}
LibsOf(t) == {l \in Libs : LibThread[l] = t}
FnsOf(t) == {f \in Fns : FnThread[f] = t}

\* C code has p: a call in progress was given it, or some call kept it.
Carried(p) ==
    \/ p \in kept
    \/ \E t \in Threads : \E i \in DOMAIN stack[t] : stack[t][i].ptr = p

Running(f) == \E t \in Threads : \E i \in DOMAIN stack[t] : stack[t][i].fn = f

\* What the loss of the bindings at ps makes of an activation.
Mark(fr, ps) ==
    IF fr.kind = "callback" /\ fr.ptr \in ps THEN [fr EXCEPT !.dangling = TRUE] ELSE fr

\* Dropping the CallbackBindings at ps: context and closure are freed.
Free(ps) ==
    /\ callbacks' = [p \in Ptrs |-> IF p \in ps THEN NoBinding ELSE callbacks[p]]
    /\ stack' = [t \in Threads |-> [i \in DOMAIN stack[t] |-> Mark(stack[t][i], ps)]]
    /\ releasedInUse' = (releasedInUse \/ \E p \in ps : Carried(p))

\* A CallbackRef that is still there outlives its binding, until the collector
\* finalizes it.
Orphan(ps) ==
    orphans' = orphans \cup {callbacks[p].fn : p \in {q \in ps : callbacks[q].holder}}

\* A panic that crosses the extern "C" boundary, and std::process::abort.
Abort ==
    /\ process' = "aborted"
    /\ UNCHANGED <<library, functions, callbacks, stack, memory, history>>

\* Freed memory is executed or read.
Undefined ==
    /\ process' = "undefined"
    /\ UNCHANGED <<library, functions, callbacks, stack, memory, history>>

-----------------------------------------------------------------------------
(* Methods of a library object, called by JavaScript.  A call that returns *)
(* an error changes nothing and is not a step, except where said.          *)

Init ==
    /\ library = [l \in Libs |-> "absent"]
    /\ functions = [l \in Libs |-> [s \in Symbols |-> None]]
    /\ callbacks = [p \in Ptrs |-> NoBinding]
    /\ stack = [t \in Threads |-> <<>>]
    /\ process = "running"
    /\ heldLibs = {}
    /\ heldFns = Fns
    /\ alive = Fns
    /\ orphans = {}
    /\ kept = {}
    /\ releasedInUse = FALSE
    /\ overtaken = {}

New(t, l) ==
    /\ InJs(t)
    /\ LibThread[l] = t
    /\ library[l] = "absent"
    /\ library' = [library EXCEPT ![l] = "open"]
    /\ heldLibs' = heldLibs \cup {l}
    /\ UNCHANGED <<functions, callbacks, stack, process, heldFns, alive, orphans, kept,
                   history>>

CloseBorrowed(t, l) ==
    /\ Calls(t, l)
    /\ Borrowed(l)
    /\ Abort

\* Mutation: the function cache is not cleared.
CloseKeepsFunctions(t, l) ==
    /\ Calls(t, l)
    /\ ~Borrowed(l)
    /\ Free(BindingsOf(l)) /\ Orphan(BindingsOf(l))
    /\ library' = [library EXCEPT ![l] = "closed"]
    /\ UNCHANGED <<functions, process, heldLibs, heldFns, alive, kept, overtaken>>

Close(t, l) ==
    /\ Calls(t, l)
    /\ ~Borrowed(l)
    /\ functions' = [functions EXCEPT ![l] = [s \in Symbols |-> None]]
    /\ Free(BindingsOf(l)) /\ Orphan(BindingsOf(l))
    /\ library' = [library EXCEPT ![l] = "closed"]
    /\ overtaken' = IF Registering(l) THEN overtaken \cup {l} ELSE overtaken
    /\ UNCHANGED <<process, heldLibs, heldFns, alive, kept>>

\* borrow_mut comes first: even a cached function panics inside a call of l.
GetFunctionBorrowed(t, l) ==
    /\ Calls(t, l)
    /\ Borrowed(l)
    /\ Abort

GetFunction(t, l, s, g) ==
    /\ Calls(t, l)
    /\ ~Borrowed(l)
    /\ functions[l][s] = None
    /\ library[l] = "open"
    /\ functions' = [functions EXCEPT ![l][s] = g]
    /\ UNCHANGED <<library, callbacks, stack, process, memory, history>>

\* ensure_open comes first; then compile_signature reads the definition, an
\* array of which may run any code of the program.
StartRegister(t, l, f) ==
    /\ Calls(t, l)
    /\ library[l] = "open"
    /\ f \in heldFns
    /\ FnThread[f] = t
    /\ Len(stack[t]) < MaxDepth
    /\ stack' = [stack EXCEPT ![t] = Append(@,
                    [kind |-> "register", lib |-> l, sym |-> None, sig |-> None,
                     ptr |-> None, fn |-> f, dangling |-> FALSE])]
    /\ UNCHANGED <<library, functions, callbacks, process, memory, history>>

\* Mutation: the binding does not own its closure, whose address libffi may
\* give again.
RegisterCallbackUnowned(t, p) ==
    LET fr == Top(stack[t]) IN
    /\ InJs(t)
    /\ stack[t] # <<>> /\ fr.kind = "register"
    /\ callbacks' = [callbacks EXCEPT ![p] =
                        [lib |-> fr.lib, thread |-> t, fn |-> fr.fn, state |-> "strong",
                         holder |-> TRUE, refd |-> fr.fn \in heldFns]]
    /\ stack' = [stack EXCEPT ![t] = Pop(@)]
    /\ UNCHANGED <<library, functions, process, memory, history>>

\* The rest of it, whether or not the library is still open.
RegisterCallback(t, p) ==
    LET fr == Top(stack[t]) IN
    /\ InJs(t)
    /\ stack[t] # <<>> /\ fr.kind = "register"
    /\ ~Registered(p)
    /\ callbacks' = [callbacks EXCEPT ![p] =
                        [lib |-> fr.lib, thread |-> t, fn |-> fr.fn, state |-> "strong",
                         holder |-> TRUE, refd |-> fr.fn \in heldFns]]
    /\ stack' = [stack EXCEPT ![t] = Pop(@)]
    /\ UNCHANGED <<library, functions, process, memory, history>>

\* Reading the definition throws, or its signature is refused.
RegisterFails(t) ==
    /\ InJs(t)
    /\ stack[t] # <<>> /\ Top(stack[t]).kind = "register"
    /\ stack' = [stack EXCEPT ![t] = Pop(@)]
    /\ UNCHANGED <<library, functions, callbacks, process, memory, history>>

\* ensure_open, and the address is a key of self.callbacks.
Finds(t, l, p) ==
    /\ Calls(t, l)
    /\ library[l] = "open"
    /\ callbacks[p].lib = l

UnregisterCallback(t, l, p) ==
    /\ Finds(t, l, p)
    /\ Free({p}) /\ Orphan({p})
    /\ UNCHANGED <<library, functions, process, heldLibs, heldFns, alive, kept, overtaken>>

\* Mutation: a weak reference becomes strong whether or not it upgrades.
RefCallbackAssumesHolder(t, l, p) ==
    LET b == callbacks[p] IN
    /\ Finds(t, l, p)
    /\ callbacks' = [callbacks EXCEPT ![p] =
          [b EXCEPT !.state = IF b.state = "weak" THEN "strong" ELSE b.state,
                    !.refd = b.fn \in heldFns]]
    /\ UNCHANGED <<library, functions, stack, process, memory, history>>

\* weak.upgrade(env)? returns early with an error, after mem::replace has put
\* Collected there.
RefCallback(t, l, p) ==
    LET b == callbacks[p] IN
    /\ Finds(t, l, p)
    /\ \/ /\ b.state = "weak" /\ b.holder
          /\ callbacks' = [callbacks EXCEPT ![p] =
                [b EXCEPT !.state = "strong", !.refd = b.fn \in heldFns]]
       \/ /\ ~(b.state = "weak" /\ b.holder)
          /\ callbacks' = [callbacks EXCEPT ![p] =
                [b EXCEPT !.state = IF b.state = "weak" THEN "collected" ELSE b.state,
                          !.refd = b.fn \in heldFns]]
       \/ /\ b.state = "weak"
          /\ callbacks' = [callbacks EXCEPT ![p] = [b EXCEPT !.state = "collected"]]
    /\ UNCHANGED <<library, functions, stack, process, memory, history>>

UnrefCallback(t, l, p) ==
    LET b == callbacks[p] IN
    /\ Finds(t, l, p)
    /\ callbacks' = [callbacks EXCEPT ![p] =
          [b EXCEPT !.state = IF b.state = "strong" THEN "weak" ELSE b.state,
                    !.refd = FALSE]]
    /\ UNCHANGED <<library, functions, stack, process, memory, history>>

\* Mutation: the function is called without having been compiled.
InvokeUncompiled(t, l, s, p) ==
    /\ Calls(t, l)
    /\ p # None => Registered(p)
    /\ Len(stack[t]) < MaxDepth
    /\ stack' = [stack EXCEPT ![t] = Append(@,
                    [kind |-> "invoke", lib |-> l, sym |-> s, sig |-> functions[l][s],
                     ptr |-> p, fn |-> None, dangling |-> FALSE])]
    /\ UNCHANGED <<library, functions, callbacks, process, memory, history>>

\* The call may hand the C function one closure the program has registered,
\* of any library and any thread: the address is a bigint like any other.
Invoke(t, l, s, p) ==
    /\ Calls(t, l)
    /\ functions[l][s] # None
    /\ p # None => Registered(p)
    /\ Len(stack[t]) < MaxDepth
    /\ stack' = [stack EXCEPT ![t] = Append(@,
                    [kind |-> "invoke", lib |-> l, sym |-> s, sig |-> functions[l][s],
                     ptr |-> p, fn |-> None, dangling |-> FALSE])]
    /\ UNCHANGED <<library, functions, callbacks, process, memory, history>>

-----------------------------------------------------------------------------
(* Inside C: it calls a closure it has, keeps its address, or returns.     *)

\* The C function running on t can call p: it was given p, or p is kept.
Has(t, p) == InNative(t) /\ (Top(stack[t]).ptr = p \/ p \in kept)

KeepAddress(t, p) ==
    /\ InNative(t)
    /\ Top(stack[t]).ptr = p
    /\ p \notin kept
    /\ kept' = kept \cup {p}
    /\ UNCHANGED <<library, functions, callbacks, stack, process, heldLibs, heldFns, alive,
                   orphans, history>>

ForgetAddress(t, p) ==
    /\ InNative(t)
    /\ p \in kept
    /\ kept' = kept \ {p}
    /\ UNCHANGED <<library, functions, callbacks, stack, process, heldLibs, heldFns, alive,
                   orphans, history>>

\* The closure at this address has been freed.
CallFreed(p) ==
    /\ process = "running"
    /\ Carried(p)
    /\ ~Registered(p)
    /\ Undefined

\* Mutation: the thread is not compared.
CallForeignUnchecked(p) ==
    /\ process = "running"
    /\ Carried(p)
    /\ Registered(p)
    /\ Undefined

\* C code that has p calls it on another thread than its own: another
\* environment's, or one that C has created.
CallForeign(p) ==
    /\ process = "running"
    /\ Carried(p)
    /\ Registered(p)
    /\ Abort

\* Mutation: the closure runs on whatever thread calls it.
OwnOrForeign(t, p) ==
    /\ Has(t, p)
    /\ Registered(p)

\* The closure runs on its own thread.
Own(t, p) ==
    /\ Has(t, p)
    /\ Registered(p)
    /\ callbacks[p].thread = t

\* The strong reference, or a weak one that upgrades, gives the function.
Callable(b) == b.state = "strong" \/ (b.state = "weak" /\ b.holder)

EnterCallback(t, p) ==
    LET b == callbacks[p] IN
    /\ Own(t, p)
    /\ Callable(b)
    /\ Len(stack[t]) < MaxDepth
    /\ stack' = [stack EXCEPT ![t] = Append(@,
                    [kind |-> "callback", lib |-> b.lib, sym |-> None, sig |-> None,
                     ptr |-> p, fn |-> b.fn, dangling |-> FALSE])]
    /\ UNCHANGED <<library, functions, callbacks, process, memory, history>>

\* Reading a reference or converting an argument fails: the error aborts.
EnterCallbackFails(t, p) ==
    /\ Own(t, p)
    /\ Callable(callbacks[p])
    /\ Abort

\* No function to call: a weak state becomes Collected, the result is zeroed.
CallCollected(t, p) ==
    /\ Own(t, p)
    /\ ~Callable(callbacks[p])
    /\ callbacks' = [callbacks EXCEPT ![p].state = "collected"]
    /\ UNCHANGED <<library, functions, stack, process, memory, history>>

\* It threw, returned a promise, or a value the result type does not take.
CallbackThrows(t) ==
    /\ InJs(t)
    /\ stack[t] # <<>> /\ Top(stack[t]).kind = "callback"
    /\ Abort

\* The result is converted with self.signature, of the binding it ran for.
ReturnFromCallback(t) ==
    /\ InJs(t)
    /\ stack[t] # <<>> /\ Top(stack[t]).kind = "callback"
    /\ ~Top(stack[t]).dangling
    /\ stack' = [stack EXCEPT ![t] = Pop(@)]
    /\ UNCHANGED <<library, functions, callbacks, process, memory, history>>

ReturnDangling(t) ==
    /\ InJs(t)
    /\ stack[t] # <<>> /\ Top(stack[t]).kind = "callback"
    /\ Top(stack[t]).dangling
    /\ Undefined

ReturnFromNative(t) ==
    /\ InNative(t)
    /\ stack' = [stack EXCEPT ![t] = Pop(@)]
    /\ UNCHANGED <<library, functions, callbacks, process, memory, history>>

-----------------------------------------------------------------------------
(* The program's own references, and the garbage collector.                *)

DropFn(f) ==
    /\ process = "running"
    /\ f \in heldFns
    /\ heldFns' = heldFns \ {f}
    /\ UNCHANGED <<library, functions, callbacks, stack, process, heldLibs, alive, orphans,
                   kept, history>>

DropLib(l) ==
    /\ process = "running"
    /\ l \in heldLibs
    /\ heldLibs' = heldLibs \ {l}
    /\ UNCHANGED <<library, functions, callbacks, stack, process, heldFns, alive, orphans,
                   kept, history>>

\* Mutation: the finalizer of the CallbackRef removes the callback with it.
CollectHolderAndBinding(p) ==
    /\ process = "running"
    /\ Registered(p)
    /\ callbacks[p].holder
    /\ callbacks[p].state # "strong"
    /\ callbacks' = [callbacks EXCEPT ![p] = NoBinding]
    /\ UNCHANGED <<library, functions, stack, process, memory, history>>

\* Mutation: a registered callback does not keep its CallbackRef.
CollectStrongHolder(p) ==
    /\ process = "running"
    /\ Registered(p)
    /\ callbacks[p].holder
    /\ callbacks' = [callbacks EXCEPT ![p].holder = FALSE]
    /\ UNCHANGED <<library, functions, stack, process, memory, history>>

\* Mutation: downgrading leaves a strong reference behind.
KeepWeakHolder(p) ==
    /\ process = "running"
    /\ Registered(p)
    /\ callbacks[p].holder
    /\ callbacks[p].state = "collected"
    /\ callbacks' = [callbacks EXCEPT ![p].holder = FALSE]
    /\ UNCHANGED <<library, functions, stack, process, memory, history>>

\* The CallbackRef object is only weakly referenced: its finalizer deletes
\* the strong reference it owns, whether or not the program reaches fn.
CollectHolder(p) ==
    /\ process = "running"
    /\ Registered(p)
    /\ callbacks[p].holder
    /\ callbacks[p].state # "strong"
    /\ callbacks' = [callbacks EXCEPT ![p].holder = FALSE]
    /\ UNCHANGED <<library, functions, stack, process, memory, history>>

CollectOrphan(f) ==
    /\ process = "running"
    /\ f \in orphans
    /\ orphans' = orphans \ {f}
    /\ UNCHANGED <<library, functions, callbacks, stack, process, heldLibs, heldFns, alive,
                   kept, history>>

\* fn is referenced by no program variable, CallbackRef or activation.
CollectFn(f) ==
    /\ process = "running"
    /\ f \in alive \ (heldFns \cup orphans)
    /\ ~Running(f)
    /\ \A p \in Ptrs : callbacks[p].holder => callbacks[p].fn # f
    /\ alive' = alive \ {f}
    /\ UNCHANGED <<library, functions, callbacks, stack, process, heldLibs, heldFns, orphans,
                   kept, history>>

\* An unreachable library object is finalized; `this` of a running invoke or
\* registration keeps its object reachable, a running callback does not.
FinalizeLib(l) ==
    /\ process = "running"
    /\ library[l] \in {"open", "closed"}
    /\ l \notin heldLibs
    /\ ~Borrowed(l) /\ ~Registering(l)
    /\ library' = [library EXCEPT ![l] = "dropped"]
    /\ functions' = [functions EXCEPT ![l] = [s \in Symbols |-> None]]
    /\ Free(BindingsOf(l)) /\ Orphan(BindingsOf(l))
    /\ UNCHANGED <<process, heldLibs, heldFns, alive, kept, overtaken>>

\* The environment of t ends, idle: its library objects are finalized, its
\* heap is gone.  What other threads and C code hold of it stays as it is.
Exit(t) ==
    /\ InJs(t)
    /\ stack[t] = <<>>
    /\ library' = [l \in Libs |-> IF l \in LibsOf(t) THEN "dropped" ELSE library[l]]
    /\ functions' = [l \in Libs |-> IF l \in LibsOf(t) THEN [s \in Symbols |-> None]
                                                     ELSE functions[l]]
    /\ Free({p \in Ptrs : callbacks[p].lib \in LibsOf(t)})
    /\ heldLibs' = heldLibs \ LibsOf(t)
    /\ heldFns' = heldFns \ FnsOf(t)
    /\ alive' = alive \ FnsOf(t)
    /\ orphans' = orphans \ FnsOf(t)
    /\ UNCHANGED <<process, kept, overtaken>>

-----------------------------------------------------------------------------
(* The specification.                                                      *)

Method(t) ==
    \/ \E l \in Libs : \/ New(t, l)
                       \/ CloseBorrowed(t, l)
                       \/ Close(t, l)
                       \/ GetFunctionBorrowed(t, l)
    \/ \E l \in Libs, s \in Symbols, g \in Sigs : GetFunction(t, l, s, g)
    \/ \E l \in Libs, f \in Fns : StartRegister(t, l, f)
    \/ \E p \in Ptrs : RegisterCallback(t, p)
    \/ RegisterFails(t)
    \/ \E l \in Libs, p \in Ptrs : \/ UnregisterCallback(t, l, p)
                                   \/ RefCallback(t, l, p)
                                   \/ UnrefCallback(t, l, p)
    \/ \E l \in Libs, s \in Symbols, p \in Ptrs \cup {None} : Invoke(t, l, s, p)

Native(t) ==
    \/ \E p \in Ptrs : \/ KeepAddress(t, p)
                       \/ ForgetAddress(t, p)
                       \/ EnterCallback(t, p)
                       \/ EnterCallbackFails(t, p)
                       \/ CallCollected(t, p)
    \/ CallbackThrows(t)
    \/ ReturnFromCallback(t)
    \/ ReturnDangling(t)
    \/ ReturnFromNative(t)

Collector ==
    \/ \E p \in Ptrs : CollectHolder(p)
    \/ \E f \in Fns : CollectOrphan(f) \/ CollectFn(f)
    \/ \E l \in Libs : FinalizeLib(l)

Next ==
    \/ \E t \in Threads : Method(t) \/ Native(t) \/ Exit(t)
    \/ \E p \in Ptrs : CallFreed(p) \/ CallForeign(p)
    \/ \E f \in Fns : DropFn(f)
    \/ \E l \in Libs : DropLib(l)
    \/ Collector

Spec == Init /\ [][Next]_vars

\* The collector keeps running: what stays unreachable is found.  Nothing is
\* assumed of the program, which may idle or stay inside a call for ever.
Fairness ==
    /\ \A p \in Ptrs : WF_vars(CollectHolder(p))
    /\ \A f \in Fns : WF_vars(CollectOrphan(f)) /\ WF_vars(CollectFn(f))
    /\ \A l \in Libs : WF_vars(FinalizeLib(l))

FairSpec == Spec /\ Fairness

-----------------------------------------------------------------------------
(* Properties.                                                             *)

\* A call in progress keeps what it runs on: while `invoke` is anywhere on a
\* stack its library is loaded, its function is still cached with the
\* signature the call was prepared with, and it runs on the library's thread.
\* The borrow of self.functions held across the C call is what ensures it:
\* close() and getFunction() from a nested callback panic instead.
RunningCallIntact ==
    \A t \in Threads : \A i \in DOMAIN stack[t] :
        LET fr == stack[t][i] IN
        fr.kind = "invoke" => /\ library[fr.lib] = "open"
                              /\ functions[fr.lib][fr.sym] = fr.sig
                              /\ LibThread[fr.lib] = t

\* A callback in progress runs on the thread whose heap its function lives in,
\* backed by the binding it entered through, unless the program released that
\* binding under it.
RunningCallbackBacked ==
    \A t \in Threads : \A i \in DOMAIN stack[t] :
        LET fr == stack[t][i] IN
        fr.kind = "callback" =>
            /\ FnThread[fr.fn] = t
            /\ \/ fr.dangling /\ releasedInUse
               \/ /\ ~fr.dangling
                  /\ callbacks[fr.ptr].lib = fr.lib
                  /\ callbacks[fr.ptr].fn = fr.fn
                  /\ callbacks[fr.ptr].thread = t

\* Freed closures and contexts are touched only after the program released a
\* callback (by unregistering, closing, losing the library, or ending its
\* thread) that C code still had: no other order of legal calls reaches
\* undefined behaviour.
UndefinedOnlyAfterRelease == process = "undefined" => releasedInUse

\* What has no loaded library has no compiled function: the cache alone
\* guards `invoke`, which never looks at self.library.  Nor has it a callback,
\* unless it was closed by code that ran while one was being registered.
ClosedIsEmpty ==
    /\ \A l \in Libs : library[l] # "open" =>
           /\ functions[l] = [s \in Symbols |-> None]
           /\ BindingsOf(l) # {} => library[l] = "closed" /\ l \in overtaken
    /\ \A p \in Ptrs : Registered(p) =>
           /\ callbacks[p].thread = LibThread[callbacks[p].lib]
           /\ callbacks[p].fn \in FnsOf(callbacks[p].thread)

\* A registration in progress has its library object and its function, on
\* their thread; the library was open and can only have been closed since.
RegistrationSound ==
    \A t \in Threads : \A i \in DOMAIN stack[t] :
        LET fr == stack[t][i] IN
        fr.kind = "register" =>
            /\ LibThread[fr.lib] = t /\ FnThread[fr.fn] = t
            /\ library[fr.lib] # "open" => library[fr.lib] = "closed" /\ fr.lib \in overtaken

\* The function of a strong callback, of a reference that still upgrades and
\* of a running callback has not been collected.
CallableIsAlive ==
    /\ \A p \in Ptrs : Registered(p) /\ Callable(callbacks[p]) => callbacks[p].fn \in alive
    /\ \A f \in Fns : Running(f) => f \in alive

\* An address that C code has belongs to a live binding, or history shows why
\* it does not.
CarriedIsRegistered ==
    \A p \in Ptrs : Carried(p) => Registered(p) \/ releasedInUse

\* Whatever keeps a function does keep it: the program, CallbackRef objects of
\* live and of freed bindings, activations.  A strong state has its holder,
\* and nothing is left of a freed binding.
KeptIsAlive ==
    /\ heldFns \subseteq alive
    /\ orphans \subseteq alive
    /\ \A f \in Fns : Running(f) => f \in alive
    /\ \A p \in Ptrs :
          /\ callbacks[p].holder => callbacks[p].fn \in alive
          /\ callbacks[p].state = "strong" => callbacks[p].holder
          /\ ~Registered(p) => callbacks[p] = NoBinding

\* The inductive invariant of the specification.  A callback is backed and
\* undefined behaviour is explained only because carried addresses are; a
\* cached function has a loaded library only because closing empties both.
IInv ==
    /\ TypeOK
    /\ RunningCallIntact
    /\ RunningCallbackBacked
    /\ UndefinedOnlyAfterRelease
    /\ ClosedIsEmpty
    /\ RegistrationSound
    /\ CarriedIsRegistered
    /\ KeptIsAlive

\* refCallback retains: if the last successful request of a program that still
\* had the function was to retain it, the function is not collected.
RefdIsRetained ==
    \A p \in Ptrs : callbacks[p].refd => callbacks[p].fn \in alive

\* Nothing that the program or a strong callback wants keeps f.
Unwanted(f) ==
    /\ process = "running"
    /\ f \notin heldFns
    /\ ~Running(f)
    /\ \A p \in Ptrs : callbacks[p].fn = f => callbacks[p].state # "strong"

\* A function that stays unwanted, because its callbacks were unreferenced,
\* unregistered or lost with their library, is eventually collected.
UnwantedIsReleased == \A f \in Fns : []<>(~Unwanted(f) \/ f \notin alive)

-----------------------------------------------------------------------------
(* What the callbacks of this module promise, without its bindings.        *)

Owner == [p \in Ptrs |-> callbacks[p].fn]
Retained == {p \in Ptrs : callbacks[p].state = "strong"}
Lost == {p \in Ptrs : Registered(p) /\ ~Callable(callbacks[p])}
Role(fr) == [kind |-> fr.kind, fn |-> fr.fn]
Activity == [t \in Threads |-> [i \in DOMAIN stack[t] |-> Role(stack[t][i])]]
Gone == Fns \ alive

Contract == INSTANCE CallbackContract WITH
    owner <- Owner, retained <- Retained, lost <- Lost, activity <- Activity, gone <- Gone,
    misused <- releasedInUse

\* Bindings with three states, a CallbackRef object of their own, and stacks
\* of calls across libraries implement the contract: an address runs its
\* function on its thread until it is released, a retained function is never
\* lost or collected, a lost one never comes back, whatever the order of
\* ref, unref, unregister, close, collection and calls.
ImplementsContract == Contract!Spec

-----------------------------------------------------------------------------
(* What each library object promises of its functions.                     *)

Status(l) ==
    IF library[l] = "absent" THEN "none"
    ELSE IF library[l] = "open" THEN "open" ELSE "closed"

\* The calls of l in progress, by their places on the stack of its thread.
CallsOf(l) ==
    LET s == stack[LibThread[l]] IN
    [i \in {i \in DOMAIN s : s[i].kind = "invoke" /\ s[i].lib = l} |->
        [name |-> s[i].sym, spec |-> s[i].sig]]

Cache(l) == INSTANCE NativeCache WITH
    Names <- Symbols, status <- Status(l), meaning <- functions[l], calls <- CallsOf(l),
    aborted <- process # "running"

\* Every library object, among all the others and whatever its callbacks, the
\* collector and other threads do, keeps the table of functions that the
\* JavaScript class relies on: a call ends with the signature it began with,
\* nothing is compiled and nothing is closed under it.
ImplementsNativeCache ==
    /\ \A l \in Libs : Cache(l)!Init
    /\ [][\A l \in Libs : UNCHANGED Cache(l)!nvars \/ Cache(l)!Next]_vars
=============================================================================
