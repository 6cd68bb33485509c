----------------------------- MODULE FfiLibrary -----------------------------
(***************************************************************************)
(* The JavaScript layer of one library, class DynamicLibrary and dlopen of *)
(* src/lib/internal/ffi-library.js, over the function cache of its native  *)
(* object.                                                                 *)
(*                                                                         *)
(* Two caches answer for the same functions: _functionCache here, keyed by *)
(* the signature as the program wrote it, and the native one, keyed by the *)
(* signature as it compiles.  Both are filled by operations that read the  *)
(* program's definition objects several times, and every such read may run *)
(* program code: a getter, a Proxy trap.  That code, like a callback of a  *)
(* call in progress, may use the library again.  So an operation is a      *)
(* frame on a stack; its steps are what runs between two reads, and any    *)
(* operation may start and end on top of it between two of its steps.      *)
(***************************************************************************)
EXTENDS Integers, Sequences

CONSTANTS
    Names,      \* symbols the program asks for
    Keys,       \* signatures as signatureKey distinguishes them
    NativeSigs, \* signatures as signatures_match distinguishes them
    Compile,    \* the compiled signature of each key
    MaxDepth,   \* bound on the nesting of operations
    None        \* no key, no signature, no name

ASSUME CompileAssumption == Compile \in [Keys -> NativeSigs]
ASSUME NoneAssumption == None \notin Names \cup Keys \cup NativeSigs
ASSUME DepthAssumption == MaxDepth \in Nat

VARIABLES
    volatile,      \* whether definitions may read differently each time
    object,        \* the JavaScript object: "none", "open" or "closed" (_closed)
    reachable,     \* whether the program was given the object
    library,       \* native: Some(library)
    bound,         \* native: compiled signature in functions, or None
    functionCache, \* _functionCache: key and spec under each name
    functions,     \* lib.functions: spec of the wrapper listed for each name
    symbolCache,   \* _symbolCache and lib.symbols: names with a known address
    wrappers,      \* every wrapper created, as a name and its spec
    stack,         \* operations in progress
    process,       \* "running" or "aborted"
    servedClosed   \* history: an operation begun after close() gave functions

native == <<library, bound>>
caches == <<functionCache, functions, symbolCache, wrappers>>
vars == <<volatile, object, reachable, native, caches, stack, process, servedClosed>>

-----------------------------------------------------------------------------
Entry == [key: Keys \cup {None}, spec: NativeSigs \cup {None}]
NoEntry == [key |-> None, spec |-> None]
Wrapper == [name: Names, spec: NativeSigs]

\* def: the key first read for each name asked for.  todo: names still to be
\* looked up.  compiling: the name native.getFunction is reading.  specs: what
\* was found, in hits if _functionCache had it.  unpublished: names whose
\* wrappers are still to be made.  late: the object was closed at the start.
\* For a call, the wrapper called is in def and specs of a single name.
Frame == [op: {"getFunction", "getFunctions", "dlopen", "call"},
          def: [Names -> Keys \cup {None}],
          todo: SUBSET Names, compiling: Names \cup {None},
          specs: [Names -> NativeSigs \cup {None}],
          hits: SUBSET Names, unpublished: SUBSET Names, late: BOOLEAN]

TypeOK ==
    /\ volatile \in BOOLEAN
    /\ object \in {"none", "open", "closed"}
    /\ reachable \in BOOLEAN
    /\ library \in BOOLEAN
    /\ bound \in [Names -> NativeSigs \cup {None}]
    /\ functionCache \in [Names -> Entry]
    /\ functions \in [Names -> NativeSigs \cup {None}]
    /\ symbolCache \subseteq Names
    /\ wrappers \subseteq Wrapper
    /\ stack \in Seq(Frame)
    /\ process \in {"running", "aborted"}
    /\ servedClosed \in BOOLEAN

-----------------------------------------------------------------------------
(* State functions.                                                        *)

Top == stack[Len(stack)]
Below == SubSeq(stack, 1, Len(stack) - 1)
Busy == stack # <<>>

\* An operation of the top frame can take its next step.
In(ops) == process = "running" /\ Busy /\ Top.op \in ops

\* Program code runs: no operation is in progress, or the top one is reading a
\* definition or is inside a callback.  It has the object unless dlopen has
\* not returned yet.
ProgramRuns ==
    /\ process = "running"
    /\ reachable

\* Mutation: the borrow ends before the C function is called.
BorrowNotHeld == FALSE

\* RefCell: native invoke holds the borrow of the function cache to its end.
Borrowed == \E i \in DOMAIN stack : stack[i].op = "call"

\* What one more read of a definition, first read as k, may give.
Reads(k) == IF volatile THEN Keys ELSE {k}

Asked(def) == {n \in Names : def[n] # None}

Begin(op, def) ==
    /\ Len(stack) < MaxDepth
    /\ stack' = Append(stack,
                  [op |-> op, def |-> def, todo |-> Asked(def), compiling |-> None,
                   specs |-> [n \in Names |-> None], hits |-> {},
                   unpublished |-> Asked(def), late |-> object = "closed"])

\* The top operation goes on, or is over.
Continue(fr) == stack' = [stack EXCEPT ![Len(stack)] = fr]
End == stack' = Below

\* A panic crosses the extern "C" boundary.
Abort ==
    /\ process' = "aborted"
    /\ UNCHANGED <<object, reachable, native, caches, stack, servedClosed>>

-----------------------------------------------------------------------------
(* Creating, closing, looking up an address.                               *)

Init ==
    /\ volatile \in BOOLEAN
    /\ object = "none"
    /\ reachable = FALSE
    /\ library = FALSE
    /\ bound = [n \in Names |-> None]
    /\ functionCache = [n \in Names |-> NoEntry]
    /\ functions = [n \in Names |-> None]
    /\ symbolCache = {}
    /\ wrappers = {}
    /\ stack = <<>>
    /\ process = "running"
    /\ servedClosed = FALSE

New ==
    /\ process = "running"
    /\ object = "none"
    /\ object' = "open"
    /\ reachable' = TRUE
    /\ library' = TRUE
    /\ UNCHANGED <<bound, caches, stack, process, servedClosed>>

\* new DynamicLibrary(path), then lib.getFunctions(definitions) if there are
\* any; the object is the program's only when dlopen returns.
Dlopen(def) ==
    /\ process = "running"
    /\ object = "none"
    /\ object' = "open"
    /\ library' = TRUE
    /\ Asked(def) # {}
    /\ Begin("dlopen", def)
    /\ UNCHANGED <<reachable, bound, caches, process, servedClosed>>

\* _closed is set before the native close, which panics inside a call.
CloseBorrowed ==
    /\ ProgramRuns
    /\ Borrowed
    /\ Abort

Close ==
    /\ ProgramRuns
    /\ ~Borrowed
    /\ object' = "closed"
    /\ library' = FALSE
    /\ bound' = [n \in Names |-> None]
    /\ UNCHANGED <<reachable, caches, stack, process, servedClosed>>

GetSymbol(n) ==
    /\ ProgramRuns
    /\ object = "open"
    /\ symbolCache' = symbolCache \cup {n}
    /\ UNCHANGED <<object, reachable, native, functionCache, functions, wrappers, stack, process,
                   servedClosed>>

-----------------------------------------------------------------------------
(* getFunction, getFunctions: each step is what runs between two reads.    *)

\* The check of _closed, before anything is read.
GetFunction(n, k) ==
    /\ ProgramRuns
    /\ object = "open"
    /\ Begin("getFunction", [m \in Names |-> IF m = n THEN k ELSE None])
    /\ UNCHANGED <<object, reachable, native, caches, process, servedClosed>>

\* There is no check of _closed.
GetFunctions(def) ==
    /\ ProgramRuns
    /\ Asked(def) # {}
    /\ Begin("getFunctions", def)
    /\ UNCHANGED <<object, reachable, native, caches, process, servedClosed>>

\* Without definitions: a copy of lib.functions.
ListFunctions ==
    /\ ProgramRuns
    /\ \E n \in Names : functions[n] # None
    /\ servedClosed' = (servedClosed \/ object = "closed")
    /\ UNCHANGED <<object, reachable, native, caches, stack, process>>

Reading == {"getFunction", "getFunctions", "dlopen"}

\* assertCompatibleCachedSignature finds nothing: native.getFunction follows.
Miss(n) ==
    /\ In(Reading)
    /\ Top.compiling = None /\ n \in Top.todo
    /\ functionCache[n] = NoEntry
    /\ Continue([Top EXCEPT !.compiling = n])
    /\ UNCHANGED <<object, reachable, native, caches, process, servedClosed>>

\* Mutation: the cached spec is not kept.
HitForgetsSpec(n, k) ==
    /\ In(Reading)
    /\ Top.compiling = None /\ n \in Top.todo
    /\ k \in Reads(Top.def[n])
    /\ functionCache[n].key = k
    /\ Continue([Top EXCEPT !.todo = @ \ {n}, !.hits = @ \cup {n}])
    /\ UNCHANGED <<object, reachable, native, caches, process, servedClosed>>

\* It finds the signature read: getFunction returns the cached wrapper, the
\* others keep the cached spec.
Hit(n, k) ==
    /\ In(Reading)
    /\ Top.compiling = None /\ n \in Top.todo
    /\ k \in Reads(Top.def[n])
    /\ functionCache[n].key = k
    /\ \/ /\ Top.op = "getFunction"
          /\ End
          /\ servedClosed' = (servedClosed \/ Top.late)
       \/ /\ Top.op # "getFunction"
          /\ Continue([Top EXCEPT !.todo = @ \ {n}, !.hits = @ \cup {n},
                                  !.specs[n] = functionCache[n].spec])
          /\ UNCHANGED servedClosed
    /\ UNCHANGED <<object, reachable, native, caches, process>>

\* The native cache is borrowed mutably, even to find the function there.
CompileBorrowed ==
    /\ In(Reading)
    /\ Top.compiling # None
    /\ Borrowed
    /\ Abort

\* Mutation: a function is compiled again over one of another signature.
CompileOver(k) ==
    LET n == Top.compiling IN
    /\ In(Reading)
    /\ n # None
    /\ ~Borrowed
    /\ k \in Reads(Top.def[n])
    /\ library
    /\ bound' = [bound EXCEPT ![n] = Compile[k]]
    /\ Continue([Top EXCEPT !.todo = @ \ {n}, !.compiling = None, !.specs[n] = Compile[k]])
    /\ UNCHANGED <<object, reachable, library, caches, process, servedClosed>>

\* Mutation: a function is compiled in a closed library.
CompileWhenClosed(k) ==
    LET n == Top.compiling IN
    /\ In(Reading)
    /\ n # None
    /\ ~Borrowed
    /\ k \in Reads(Top.def[n])
    /\ bound[n] \in {None, Compile[k]}
    /\ bound' = [bound EXCEPT ![n] = Compile[k]]
    /\ Continue([Top EXCEPT !.todo = @ \ {n}, !.compiling = None, !.specs[n] = Compile[k]])
    /\ UNCHANGED <<object, reachable, library, caches, process, servedClosed>>

\* Mutation: signatures_match is not asked; the cached function is returned.
CompileMismatched(k) ==
    LET n == Top.compiling IN
    /\ In(Reading)
    /\ n # None
    /\ ~Borrowed
    /\ k \in Reads(Top.def[n])
    /\ library
    /\ bound' = IF bound[n] = None THEN [bound EXCEPT ![n] = Compile[k]] ELSE bound
    /\ Continue([Top EXCEPT !.todo = @ \ {n}, !.compiling = None, !.specs[n] = bound'[n]])
    /\ UNCHANGED <<object, reachable, library, caches, process, servedClosed>>

\* Native get_function: a cached function with this signature, or a new one.
\* Another signature, a closed library and a missing symbol are errors.
CompileFunction(k) ==
    LET n == Top.compiling IN
    /\ In(Reading)
    /\ n # None
    /\ ~Borrowed
    /\ k \in Reads(Top.def[n])
    /\ \/ bound[n] = Compile[k] /\ UNCHANGED bound
       \/ /\ bound[n] = None /\ library
          /\ bound' = [bound EXCEPT ![n] = Compile[k]]
    /\ Continue([Top EXCEPT !.todo = @ \ {n}, !.compiling = None, !.specs[n] = Compile[k]])
    /\ UNCHANGED <<object, reachable, library, caches, process, servedClosed>>

\* Mutation: getFunctions and dlopen do not call createCachedFunction.
PublishUncached(n, k) ==
    LET spec == Top.specs[n] IN
    /\ In(Reading)
    /\ Top.todo = {} /\ n \in Top.unpublished
    /\ k \in Reads(Top.def[n])
    /\ functionCache' = IF Top.op # "getFunction" THEN functionCache
                        ELSE [functionCache EXCEPT ![n] = [key |-> k, spec |-> spec]]
    /\ wrappers' = wrappers \cup {[name |-> n, spec |-> spec]}
    /\ functions' = [functions EXCEPT ![n] = spec]
    /\ symbolCache' = symbolCache \cup {n}
    /\ reachable' = TRUE
    /\ End
    /\ UNCHANGED <<object, native, process, servedClosed>>

\* createCachedFunction keys the entry by one more read of the definition;
\* the wrapper is made from the spec.  The last name ends the operation.
Publish(n, k) ==
    LET spec == Top.specs[n] IN
    /\ In(Reading)
    /\ Top.todo = {} /\ n \in Top.unpublished
    /\ k \in Reads(Top.def[n])
    /\ functionCache' = IF n \in Top.hits THEN functionCache
                        ELSE [functionCache EXCEPT ![n] = [key |-> k, spec |-> spec]]
    /\ wrappers' = wrappers \cup {[name |-> n, spec |-> spec]}
    /\ functions' = [functions EXCEPT ![n] = spec]
    /\ symbolCache' = symbolCache \cup {n}
    /\ IF Top.unpublished = {n}
       THEN /\ End
            /\ reachable' = TRUE
            /\ servedClosed' = (servedClosed \/ Top.late)
       ELSE /\ Continue([Top EXCEPT !.unpublished = @ \ {n}])
            /\ UNCHANGED <<reachable, servedClosed>>
    /\ UNCHANGED <<object, native, process>>

\* Mutation: dlopen does not close the library it opened.
ThrowLeaks ==
    /\ In(Reading)
    /\ Top.todo # {} \/ volatile
    /\ End
    /\ UNCHANGED <<object, reachable, native, caches, process, servedClosed>>

\* A getter throws, a type is not supported, a signature conflicts with the
\* cached or the native one, the library is closed, the symbol is missing.
\* dlopen closes the library it opened.
Throw ==
    /\ In(Reading)
    /\ Top.todo # {} \/ volatile
    /\ End
    /\ IF Top.op = "dlopen"
       THEN /\ object' = "closed"
            /\ library' = FALSE
            /\ bound' = [n \in Names |-> None]
       ELSE UNCHANGED <<object, native>>
    /\ UNCHANGED <<reachable, caches, process, servedClosed>>

-----------------------------------------------------------------------------
(* Calling a wrapper.                                                      *)

\* The wrapper checks _closed; native invoke needs a function under the name.
\* It compares the address, which is the name's, and the arity, not the types.
Call(w) ==
    /\ ProgramRuns
    /\ w \in wrappers
    /\ object = "open"
    /\ bound[w.name] # None
    /\ Len(stack) < MaxDepth
    /\ stack' = Append(stack,
                  [op |-> "call", def |-> [n \in Names |-> None], todo |-> {},
                   compiling |-> w.name, hits |-> {}, unpublished |-> {}, late |-> FALSE,
                   specs |-> [n \in Names |-> IF n = w.name THEN w.spec ELSE None]])
    /\ UNCHANGED <<object, reachable, native, caches, process, servedClosed>>

Return ==
    /\ In({"call"})
    /\ End
    /\ UNCHANGED <<object, reachable, native, caches, process, servedClosed>>

-----------------------------------------------------------------------------
Definitions == [Names -> Keys \cup {None}]

Step ==
    \/ New
    \/ \E def \in Definitions : Dlopen(def) \/ GetFunctions(def)
    \/ CloseBorrowed
    \/ Close
    \/ \E n \in Names : GetSymbol(n) \/ Miss(n)
    \/ \E n \in Names, k \in Keys : GetFunction(n, k) \/ Hit(n, k) \/ Publish(n, k)
    \/ ListFunctions
    \/ CompileBorrowed
    \/ \E k \in Keys : CompileFunction(k)
    \/ Throw
    \/ \E w \in Wrapper : Call(w)
    \/ Return

Next == Step /\ UNCHANGED volatile

Spec == Init /\ [][Next]_vars

-----------------------------------------------------------------------------
(* Properties.                                                             *)

\* Every wrapper the program may have, as long as close() was not called,
\* finds its function in the native cache with the signature its validators
\* were made for: a call through it is never refused or mismatched, whatever
\* ran between the steps that created it and whatever failed before it.
WrapperCallable ==
    object = "open" => \A w \in wrappers : bound[w.name] = w.spec

\* All wrappers ever made for a name agree, in an open library and after it.
OneSpecPerName ==
    \A v, w \in wrappers : v.name = w.name => v.spec = w.spec

\* A call in progress keeps its library loaded and its function compiled as
\* it was called, whatever its callbacks do.
CallIntact ==
    \A i \in DOMAIN stack : stack[i].op = "call" =>
        library /\ bound[stack[i].compiling] = stack[i].specs[stack[i].compiling]

\* lib.functions lists what the cache holds, no less and no more and as it holds
\* it, and what it lists is in lib.symbols.
ListedIsCached ==
    \A n \in Names :
        /\ functions[n] = functionCache[n].spec
        /\ functions[n] # None => n \in symbolCache

\* The signature a function is cached under is the one it was compiled with.
KeyDescribesSpec ==
    \A n \in Names : functionCache[n] # NoEntry =>
        Compile[functionCache[n].key] = functionCache[n].spec

\* So it is when every definition reads the same each time, whatever runs
\* between the reads and in whatever order operations nest.
StableKeyDescribesSpec == ~volatile => KeyDescribesSpec

\* A library is loaded only while the program has the object or dlopen is
\* still to give it: no failure of dlopen leaks it.
LoadedIsReachable ==
    library => reachable \/ \E i \in DOMAIN stack : stack[i].op = "dlopen"

\* A closed library gives no functions.
ClosedRejects == ~servedClosed

\* What it does give is what it gave before: an operation begun after close()
\* compiles nothing and adds to no cache, whatever was cached, by whatever was
\* then still in progress, and whatever its own reads run.
LateGivesNothingNew == [][Busy /\ Top.late => UNCHANGED <<native, caches>>]_vars

-----------------------------------------------------------------------------
(* What the two caches together promise.                                   *)

\* Wrappers being called, by the places of their calls on the stack.
Calling ==
    [i \in {i \in DOMAIN stack : stack[i].op = "call"} |->
        [name |-> stack[i].compiling, spec |-> stack[i].specs[stack[i].compiling]]]

Functions == INSTANCE FunctionCache WITH
    Sigs <- NativeSigs, status <- object, meaning <- bound, given <- wrappers,
    calls <- Calling, aborted <- process = "aborted"

\* Two caches filled in several steps, between which any program code may
\* run, close the library or fail, act as one table: a name has one meaning
\* for every wrapper and every call until the library is closed, and it is
\* not closed under a call.
ImplementsFunctionCache == Functions!Spec

-----------------------------------------------------------------------------
(* The inductive invariant.                                                *)

\* The object is open exactly while its library is loaded, and nothing of it
\* exists before it does.
OpenIsLoaded ==
    /\ library <=> object = "open"
    /\ ~library => bound = [n \in Names |-> None]
    /\ reachable => object # "none"
    /\ object = "none" => /\ stack = <<>>
                          /\ wrappers = {}
                          /\ functionCache = [n \in Names |-> NoEntry]

\* s is a signature that a wrapper, the cache or an operation has for n.
Found(n, s) ==
    /\ s # None
    /\ \/ [name |-> n, spec |-> s] \in wrappers
       \/ functionCache[n].spec = s
       \/ \E i \in DOMAIN stack : stack[i].specs[n] = s

\* Everything that was ever found for a name is the same, and while the
\* library is open it is what the native cache holds.
FoundIsBound ==
    \A n \in Names, s \in NativeSigs : Found(n, s) =>
        /\ \A r \in NativeSigs : Found(n, r) => r = s
        /\ object = "open" => bound[n] = s

\* An entry is whole, and of the signature it is cached under if definitions
\* read the same each time.
CachedIsWhole ==
    \A n \in Names : functionCache[n] # NoEntry =>
        /\ functionCache[n].key # None
        /\ functionCache[n].spec # None
        /\ ~volatile => Compile[functionCache[n].key] = functionCache[n].spec

\* A lookup has a signature for every name it is done with, of the definition
\* it first read if definitions read the same each time.
LookedUp(fr) ==
    /\ fr.todo \cup fr.unpublished \subseteq Asked(fr.def)
    /\ fr.compiling \in fr.todo \cup {None}
    /\ \A n \in fr.unpublished \ fr.todo : fr.specs[n] # None
    /\ \A n \in fr.hits : functionCache[n] # NoEntry /\ fr.specs[n] # None
    /\ \A n \in Names : fr.specs[n] # None /\ ~volatile =>
          fr.def[n] # None /\ Compile[fr.def[n]] = fr.specs[n]

\* dlopen comes before everything else, and a call needs a loaded library.
InProgress(i) ==
    LET fr == stack[i] IN
    /\ fr.op # "call" => LookedUp(fr)
    /\ fr.op = "call" => library /\ fr.compiling # None /\ fr.specs[fr.compiling] # None
    /\ fr.op = "dlopen" => i = 1

IInv ==
    /\ TypeOK
    /\ OpenIsLoaded
    /\ FoundIsBound
    /\ CachedIsWhole
    /\ \A i \in DOMAIN stack : InProgress(i)
    /\ ListedIsCached
    /\ LoadedIsReachable
=============================================================================
