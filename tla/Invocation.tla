----------------------------- MODULE Invocation -----------------------------
(***************************************************************************)
(* What a call lends to C code and takes back: the storage of its          *)
(* arguments and result, the C strings made of JavaScript strings, and the *)
(* bytes of JavaScript objects whose addresses it passes (storage.rs,      *)
(* targets.rs, value_helpers.rs, and `invoke` and `try_invoke`).           *)
(*                                                                         *)
(* Arguments are prepared one by one, and any of them may be refused.  The *)
(* C function may then call callbacks, whose program code may make further *)
(* calls, drop objects and detach their bytes; what a callback returns is  *)
(* lent to C as well.  The C function may return any address it was lent,  *)
(* which a string result then reads.  All of this is on one thread: a call *)
(* is a frame, only the last of which is not inside a callback.  The       *)
(* collector may step at any time.                                         *)
(***************************************************************************)
EXTENDS Integers, Sequences

CONSTANTS
    Blocks,      \* addresses the allocator may give
    Objects,     \* JavaScript objects that own bytes, or are views of them
    Signatures,  \* signatures of the functions called
    MaxDepth,    \* bound on the nesting of calls
    None         \* no block, no object

\* A "pointer" stands for buffer, arraybuffer and function, too, and a
\* "number" for all types that are stored by value.
Types == {"number", "pointer", "string"}

ASSUME NoneAssumption == None \notin Blocks \cup Objects
ASSUME ObjectAssumption == Objects \cap {"number", "address", "text", "nulText"} = {}
ASSUME SignatureAssumption ==
    Signatures \subseteq [params: Seq(Types), ret: Types \cup {"void"}]
ASSUME DepthAssumption == MaxDepth \in Nat

VARIABLES
    live,          \* blocks that are allocated
    stack,         \* calls in progress
    held,          \* objects the program can reach
    alive,         \* objects the collector has not freed
    detached,      \* objects whose bytes the program took away
    process,       \* whether the process runs, aborted, or is undefined
    detachedInUse  \* history: bytes were taken away while C code had them

objects == <<held, alive, detached, detachedInUse>>
vars == <<live, stack, objects, process>>

-----------------------------------------------------------------------------
(* Types.                                                                  *)

\* What an argument or a result refers to: nothing of interest (a number,
\* NULL, an address the program wrote as a bigint), a C string, or bytes.
Plain == [to |-> "plain", block |-> None, object |-> None]
Text(b) == [to |-> "text", block |-> b, object |-> None]
Bytes(o) == [to |-> "bytes", block |-> None, object |-> o]
Reference == {Plain} \cup {Text(b) : b \in Blocks} \cup {Bytes(o) : o \in Objects}

\* PreparedFunctionArg: the storage, the C string its scope keeps, and what
\* the storage contains.
Prepared == [storage: Blocks, scope: Blocks \cup {None}, ref: Reference]

\* taken: what callbacks returned to the C function.  handles: objects that
\* handles of this call keep.  answer: what the C function returned.
Frame == [phase: {"preparing", "inC", "inCallback", "returned"}, sig: Signatures,
          args: Seq(Prepared), result: Blocks \cup {None},
          taken: SUBSET Reference, handles: SUBSET Objects, answer: Reference]

TypeOK ==
    /\ live \subseteq Blocks
    /\ stack \in Seq(Frame)
    /\ held \subseteq Objects
    /\ alive \subseteq Objects
    /\ detached \subseteq Objects
    /\ process \in {"running", "aborted", "undefined"}
    /\ detachedInUse \in BOOLEAN

-----------------------------------------------------------------------------
(* State functions.                                                        *)

Top == stack[Len(stack)]
Below == SubSeq(stack, 1, Len(stack) - 1)
In(phase) == process = "running" /\ stack # <<>> /\ Top.phase = phase
InNative == stack # <<>> /\ Top.phase # "inCallback"
InJs == process = "running" /\ ~InNative
Become(fr) == stack' = [stack EXCEPT ![Len(stack)] = fr]

\* The blocks an argument and a call own, which dropping it frees.
Owned(arg) == {arg.storage, arg.scope} \ {None}
BlocksOf(fr) == ({fr.result} \ {None}) \cup UNION {Owned(fr.args[i]) : i \in DOMAIN fr.args}

\* What C code was lent by a call.
Lent(fr) == {fr.args[i].ref : i \in DOMAIN fr.args} \cup fr.taken \cup {fr.answer, Plain}
AllLent == UNION {Lent(stack[i]) : i \in DOMAIN stack}

Readable(r) ==
    /\ r.to = "text" => r.block \in live
    /\ r.to = "bytes" => r.object \in alive \ detached

\* Values a program passes or returns; an object is one it can reach.
Value == {"number", "address", "text", "nulText"} \cup held

\* to_ffi of an argument: a string becomes a C string for both pointer types.
ArgAccepted(type) ==
    IF type = "number" THEN {"number"} ELSE {"address", "text"} \cup held

\* Mutation: the type of a callback's result is not looked at.
ResultOfAnyType(type) ==
    CASE type = "number" -> {"number"}
      [] type = "pointer" -> {"address"} \cup held
      [] type = "string" -> {"address", "text"} \cup held
      [] type = "void" -> Value

\* to_ffi of a callback's result, which validate_callback_signature does not
\* let be a string.
ResultAccepted(type) ==
    CASE type = "number" -> {"number"}
      [] type = "pointer" -> {"address"} \cup held
      [] type = "string" -> {}
      [] type = "void" -> Value

\* Mutation: the address of a C string is taken before the string is made.
StoredEarly(v, b) ==
    IF v \in Objects \ detached THEN Bytes(v) ELSE IF v = "text" THEN Text(None) ELSE Plain

\* What is stored for v; b is the block of the C string, if it becomes one.
\* A detached object has no bytes: its address is like any the program writes.
Stored(v, b) ==
    IF v \in Objects \ detached THEN Bytes(v) ELSE IF v = "text" THEN Text(b) ELSE Plain

\* Node-API: a value is a handle of the call in progress, until it returns.
HandleOf(v) == {v} \cap Objects

\* Fresh blocks for a value: its storage, and the C string if it becomes one.
FreshFor(v, b, c) ==
    /\ b \in Blocks \ live
    /\ IF v = "text" THEN c \in Blocks \ (live \cup {b}) ELSE c = None

-----------------------------------------------------------------------------
(* A call from JavaScript, up to the C function.                           *)

Init ==
    /\ live = {}
    /\ stack = <<>>
    /\ held = Objects
    /\ alive = Objects
    /\ detached = {}
    /\ process = "running"
    /\ detachedInUse = FALSE

Invoke(sig) ==
    /\ InJs
    /\ Len(stack) < MaxDepth
    /\ stack' = Append(stack,
                  [phase |-> "preparing", sig |-> sig, args |-> <<>>, result |-> None,
                   taken |-> {}, handles |-> {}, answer |-> Plain])
    /\ UNCHANGED <<live, objects, process>>

\* The next argument: its storage is allocated, its value converted into it.
Prepare(v, b, c) ==
    LET i == Len(Top.args) + 1 IN
    /\ In("preparing")
    /\ i <= Len(Top.sig.params)
    /\ v \in ArgAccepted(Top.sig.params[i])
    /\ FreshFor(v, b, c)
    /\ live' = live \cup {b} \cup ({c} \ {None})
    /\ Become([Top EXCEPT !.args = Append(@, [storage |-> b, scope |-> c,
                                              ref |-> Stored(v, c)]),
                          !.handles = @ \cup HandleOf(v)])
    /\ UNCHANGED <<objects, process>>

\* The call is over: everything it owns is dropped.
Finish ==
    /\ live' = live \ BlocksOf(Top)
    /\ stack' = Below

\* Mutation: what was prepared before the failure is not dropped.
PrepareFailsLeaking ==
    /\ In("preparing")
    /\ stack' = Below
    /\ UNCHANGED <<live, objects, process>>

\* The next argument is refused, their number is wrong, or memory runs out.
PrepareFails ==
    /\ In("preparing")
    /\ Finish
    /\ UNCHANGED <<objects, process>>

CallC(b) ==
    /\ In("preparing")
    /\ Len(Top.args) = Len(Top.sig.params)
    /\ IF Top.sig.ret = "void" THEN b = None ELSE b \in Blocks \ live
    /\ live' = live \cup ({b} \ {None})
    /\ Become([Top EXCEPT !.phase = "inC", !.result = b])
    /\ UNCHANGED <<objects, process>>

-----------------------------------------------------------------------------
(* The C function: it calls callbacks with what it was lent, and returns.  *)

\* from_ffi of the callback's arguments: a string is read at once, a pointer
\* is only named.
EnterCallback(r) ==
    /\ In("inC")
    /\ r \in AllLent
    /\ Readable(r)
    /\ Become([Top EXCEPT !.phase = "inCallback"])
    /\ UNCHANGED <<live, objects, process>>

\* Mutation: the callback has a handle scope of its own.
CallbackReturnsScoped(type, v, b, c) ==
    /\ In("inCallback")
    /\ v \in ResultAccepted(type)
    /\ IF type = "void" THEN b = None /\ c = None ELSE FreshFor(v, b, c)
    /\ Become([Top EXCEPT !.phase = "inC",
                          !.taken = @ \cup IF type = "void" THEN {} ELSE {Stored(v, c)}])
    /\ UNCHANGED <<live, objects, process>>

\* PreparedCallbackReturn is allocated, converted into, copied to C's result
\* and dropped before C goes on; the handle of the value stays.
CallbackReturns(type, v, b, c) ==
    /\ In("inCallback")
    /\ v \in ResultAccepted(type)
    /\ IF type = "void" THEN b = None /\ c = None ELSE FreshFor(v, b, c)
    /\ Become([Top EXCEPT !.phase = "inC",
                          !.taken = @ \cup IF type = "void" THEN {} ELSE {Stored(v, c)},
                          !.handles = @ \cup HandleOf(v)])
    /\ UNCHANGED <<live, objects, process>>

\* A value that does not convert, an exception, a promise, no memory.
CallbackAborts ==
    /\ In("inCallback")
    /\ process' = "aborted"
    /\ UNCHANGED <<live, stack, objects>>

ReturnFromC(r) ==
    /\ In("inC")
    /\ r \in IF Top.sig.ret \in {"pointer", "string"} THEN AllLent ELSE {Plain}
    /\ Become([Top EXCEPT !.phase = "returned", !.answer = r])
    /\ UNCHANGED <<live, objects, process>>

\* from_ffi copies a string result, or fails to; then all is dropped.
ConvertResult ==
    /\ In("returned")
    /\ Top.sig.ret = "string" => Readable(Top.answer)
    /\ Finish
    /\ UNCHANGED <<objects, process>>

\* The text of a callback's argument or of a result is read where there is
\* none any more.
ReadFreed ==
    /\ \/ In("inC") /\ \E r \in AllLent : ~Readable(r)
       \/ In("returned") /\ Top.sig.ret = "string" /\ ~Readable(Top.answer)
    /\ process' = "undefined"
    /\ UNCHANGED <<live, stack, objects>>

-----------------------------------------------------------------------------
(* The program's objects, and the garbage collector.                       *)

\* The last use of a variable may be as the argument of the call in progress.
DropObject(o) ==
    /\ process = "running"
    /\ o \in held
    /\ held' = held \ {o}
    /\ UNCHANGED <<live, stack, alive, detached, process, detachedInUse>>

\* The bytes are transferred to another thread or resized away.
Detach(o) ==
    /\ InJs
    /\ o \in held
    /\ detached' = detached \cup {o}
    /\ detachedInUse' = (detachedInUse \/ Bytes(o) \in AllLent)
    /\ UNCHANGED <<live, stack, held, alive, process>>

Collect(o) ==
    /\ process = "running"
    /\ o \in alive \ held
    /\ \A i \in DOMAIN stack : o \notin stack[i].handles
    /\ alive' = alive \ {o}
    /\ UNCHANGED <<live, stack, held, detached, process, detachedInUse>>

-----------------------------------------------------------------------------
(* The specification.                                                      *)

Call ==
    \/ \E sig \in Signatures : Invoke(sig)
    \/ \E v \in Value, b \in Blocks, c \in Blocks \cup {None} : Prepare(v, b, c)
    \/ PrepareFails
    \/ \E b \in Blocks \cup {None} : CallC(b)
    \/ ConvertResult

C ==
    \/ \E r \in AllLent : EnterCallback(r) \/ ReturnFromC(r)
    \/ \E type \in Types \cup {"void"}, v \in Value, b, c \in Blocks \cup {None} :
          CallbackReturns(type, v, b, c)
    \/ CallbackAborts
    \/ ReadFreed

Heap == \E o \in Objects : DropObject(o) \/ Detach(o) \/ Collect(o)

Next == Call \/ C \/ Heap

Spec == Init /\ [][Next]_vars

-----------------------------------------------------------------------------
(* Properties.                                                             *)

\* Every block is owned by one argument or result of one call in progress:
\* none is leaked by a call that returned or failed half-way, none is freed
\* while a call uses it, none is freed twice.
OwnedOnce ==
    /\ live = UNION {BlocksOf(stack[i]) : i \in DOMAIN stack}
    /\ \A i, j \in DOMAIN stack : i # j => BlocksOf(stack[i]) \cap BlocksOf(stack[j]) = {}
    /\ \A n \in DOMAIN stack : LET fr == stack[n] IN
          /\ \A i, j \in DOMAIN fr.args :
                i # j => Owned(fr.args[i]) \cap Owned(fr.args[j]) = {}
          /\ \A i \in DOMAIN fr.args : /\ fr.args[i].storage # fr.args[i].scope
                                       /\ fr.result \notin Owned(fr.args[i])

\* What C code was lent stays readable until the call that lent it is over,
\* whatever nested calls, callbacks and the collector do: a C string is owned
\* by a call in progress, bytes have an object that is not collected.  Only
\* the program can take bytes away, by detaching them.
LentIsReadable ==
    \A r \in AllLent : Readable(r) \/ (r.to = "bytes" /\ r.object \in detached)

\* Memory that is gone is read only after the program detached bytes that C
\* code had.
UndefinedOnlyAfterDetach == process = "undefined" => detachedInUse

-----------------------------------------------------------------------------
(* The inductive invariant.                                                *)

\* What a call was lent itself: the answer only repeats it.
Sources(fr) == {fr.args[i].ref : i \in DOMAIN fr.args} \cup fr.taken

\* Only the last call is not inside a callback.
OthersInCallback == \A n \in DOMAIN stack : n < Len(stack) => stack[n].phase = "inCallback"

\* The result is allocated after the arguments.
ResultComesLast ==
    \A n \in DOMAIN stack : stack[n].phase = "preparing" => stack[n].result = None

\* A C string is the one the argument's scope keeps; callbacks return none.
TextIsScoped ==
    \A n \in DOMAIN stack :
        /\ \A i \in DOMAIN stack[n].args :
              LET arg == stack[n].args[i] IN arg.ref.to = "text" => arg.ref.block = arg.scope
        /\ \A r \in stack[n].taken : r.to # "text"

\* Bytes lent by a call belong to an object that a handle of the call keeps.
BytesAreHandled ==
    \A n \in DOMAIN stack :
        /\ stack[n].handles \subseteq alive
        /\ \A r \in Sources(stack[n]) : r.to = "bytes" => r.object \in stack[n].handles

\* The C function answers what some call in progress was lent.
AnswerIsLent ==
    \A n \in DOMAIN stack :
        stack[n].answer = Plain \/ \E m \in 1..n : stack[n].answer \in Sources(stack[m])

\* Bytes are only lent before they are detached.
DetachedIsNoticed ==
    \A n \in DOMAIN stack : \A r \in Sources(stack[n]) :
        r.to = "bytes" /\ r.object \in detached => detachedInUse

IInv ==
    /\ TypeOK
    /\ held \subseteq alive
    /\ OwnedOnce
    /\ OthersInCallback
    /\ ResultComesLast
    /\ TextIsScoped
    /\ BytesAreHandled
    /\ AnswerIsLent
    /\ DetachedIsNoticed
    /\ UndefinedOnlyAfterDetach
=============================================================================
