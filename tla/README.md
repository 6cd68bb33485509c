# napi-ffi in TLA+

A verification development for napi-ffi, the native addon (Rust, `src/src/`) and
the JavaScript layer over it (`src/lib/internal/`) that give Node.js programs
`node:ffi`-like access to dynamic libraries. Line numbers below are those of the
modelled commit; `PROJECT.json` maps every definition to its lines.

## The system

| Part | State | Operations |
| --- | --- | --- |
| Native `DynamicLibrary` (`src/src/dynamic_library.rs`) | `library`, `functions` (compiled signature of each symbol, in a `RefCell`), `callbacks` (closure, context and a strong or weak reference to the function, by address) | `new`, `close`, `get_function`, `register_callback`, `unregister_callback`, `ref_callback`, `unref_callback`, `invoke`; `CallbackContext::invoke` when C calls a closure |
| JavaScript `DynamicLibrary` (`ffi-library.js`) | `_closed`, `_functionCache`, `_symbolCache`, `functions`, `symbols`, the wrappers given to the program | constructor, `dlopen`, `close`, `getSymbol`, `getFunction`, `getFunctions`, calls of wrappers, the callback methods |
| Signatures and marshalling (`ffi-signature.js`, `ffi-shared-buffer.js`, `signature.rs`, `targets.rs`) | none; five tables of types | normalize, validate, compile, check and convert |
| Raw memory helpers (`ffi-memory.js`, `memory.rs`) | the process's memory | export, view or copy, get, set |
| Storage of a call (`storage.rs`, `value_helpers.rs`, `FormalizedStorageScope` of `targets.rs`) | the blocks of arguments and results, the C strings of their scopes | prepared by `invoke` and `try_invoke`, dropped when these return |
| Errors, package entry, loader, `suffix` | none | not modelled, see the end |

How they interact. The program uses the JavaScript object; its caches sit over
the native function cache, and `close()` empties the native one only. A call of a
wrapper enters native `invoke`, which keeps the function cache borrowed until the
C function has returned. The C function may call a closure, which re-enters
JavaScript on the same thread; that JavaScript may use any library again. Worker
threads have their own environments and objects but share the process, its
memory and its closure addresses. The garbage collector finalizes library
objects, `CallbackRef` holders and functions at times of its own.

What is hard to get right:

* **re-entrancy**: what a callback may do to the calls below it on its stack;
* **lifetime**: bindings, closures, holders and functions are kept by different
  owners, three of them subject to the collector;
* **two caches**, filled in several steps between which program code may run (a
  getter, a Proxy trap, a callback), some steps of which may fail;
* **closing** at any of these moments;
* **borrowed memory**: C code works on argument storage, temporary strings and the
  bytes of JavaScript objects, and a callback runs program code in the meantime;
* **the same table of types in five places**, with limits to agree on;
* **numbers** that are a bigint or a double in one layer and `u64`, `u32`, `i64`
  or `usize` in the other.

`PROJECT.json` lists these as hazards, each at its line, with its properties.

## The modules

| Module | Models | Runs |
| --- | --- | --- |
| `DynamicLibrary` | native core: calls, callbacks, registrations, threads, collector | `Reentrancy`, `Workers`, `Collection`, `RefAfterCollection` (through `MCDynamicLibrary`) |
| `CallbackContract` | what a registered callback promises; `DynamicLibrary` implements it | `Collection` |
| `FfiLibrary` | JavaScript class over the native function cache | `Caches`, `SignatureReadOnce`, `ClosedLibrary` (through `MCFfiLibrary`) |
| `FunctionCache` | one table of functions; `FfiLibrary` implements it | `Caches` |
| `NativeCache` | the table of one native library; `DynamicLibrary` and `FunctionCache` implement it | `Collection` |
| `Invocation` | storage of calls: what is allocated, lent to C, and freed | `Lending` (through `MCInvocation`) |
| `Marshalling` | one declared type and one value through both layers, either way | `Marshalling`, `DocumentedSpelling` (through `MCMarshalling`) |
| `Memory` | one request to the memory helpers, to the byte | `Memory`, `TruncatedLength` (through `MCMemory`) |
| `DynamicLibrary_proofs`, `CallbackContract_proofs`, `NativeCache_proofs`, `FfiLibrary_proofs`, `Invocation_proofs`, `Marshalling_proofs`, `Memory_proofs` | theorems | |

How they divide the system. `DynamicLibrary` and `FfiLibrary` both model the native
function cache: the first with everything that may hold or free it, the second with
the JavaScript cache above it. What the two have in common is `NativeCache`, which
both are proved to implement: what the proofs about the JavaScript layer use of the
native table is what the native model gives. `Invocation` is one step of `DynamicLibrary`'s stack
seen closely: its frames are the `invoke` frames of one thread, with what they own.
`Marshalling` is one conversion of `Invocation` seen closely. The callback methods of
the JavaScript class check `_closed` and call their native namesakes, which check
`self.library`: `OpenIsLoaded`, part of the invariant of `FfiLibrary`, says the two
checks are the same, so `DynamicLibrary` stands for both.

A definition whose comment begins with "Mutation:" is a plausible mistake in the
definition after it. It is used by no specification; it is there to show that
each property would notice (`PROJECT.json`, "mutants").

### DynamicLibrary

`stack[t]` is the sequence of activations of thread `t`: an `invoke` frame while a
C function runs, a callback frame while JavaScript runs inside a closure, a
`register` frame while `register_callback` reads the definition it was given, which
may run a getter. JavaScript of `t` runs unless an `invoke` frame is on top
(`InJs`), C when one is (`InNative`). The nesting is what makes the borrow explicit:
`Borrowed(l)` holds while any `invoke` of `l` is on a stack, as
`let cache = self.functions.borrow()` does (line 493).

One action per method; a method that returns an error changes nothing and is not
a step, except `ref_callback`, whose early return loses the state it had
replaced, and `register_callback`, which is two steps: `StartRegister` checks that the
library is open (line 391), `RegisterCallback` inserts (line 417), and anything may
happen in between, including `close()`. `overtaken` remembers the libraries to which
that happened; their late callback stays in a closed library, which `ClosedIsEmpty`
excepts. A method that calls `borrow_mut` inside a call of its library panics in
an `extern "C"` function, which aborts the process (`CloseBorrowed`,
`GetFunctionBorrowed`), as does an error in a callback. Executing a freed closure
or reading a freed context is undefined: `process` becomes `"undefined"` and
nothing follows.

A binding's `state` and `holder` are the enum `CallbackFunctionState` and the
`CallbackRef` object it refers to. That object owns a strong reference to the
function and is itself owned by the enum only while the state is `Strong`; freed
bindings leave theirs to the collector (`orphans`). The collection of a
`CallbackRef` object and the run of its finalizer are one step (`CollectHolder`):
between the two the code sees a reference that no longer upgrades, which is what
it sees after. `refd`, `dangling`, `releasedInUse` and `overtaken` are history
variables: no guard reads them but `dangling`, which stands for the fact that
`self` of the frame is freed.

C code has the address its call was given and whatever it stored (`KeepAddress`),
for later calls and on any thread. A worker may end (`Exit`) when nothing runs on it:
all its libraries and functions go at once, and C code of another thread may still
have addresses of theirs. The library's own code, and which of its methods the
program calls, are arbitrary.

`CallbackContract` says what all of this amounts to: an address belongs to one
function until it is released, a call on the right thread runs that function unless
it was lost, only what is not retained can be lost, what is lost never comes back,
only functions nothing can call are collected, and behaviour is defined unless an
address was released while C code had it. Libraries, bindings, holders and closures
do not occur in it. The refinement maps a lost address to a registered binding that
cannot be upgraded any more.

`NativeCache` is what a library's `functions` is to its callers: a name is compiled
while the library is open and no call of it runs, keeps its signature until `close()`,
and a call ends with the signature it began with. `Cache(l)` maps the calls of library
`l` to their places on the stack of its thread. Everything else `DynamicLibrary` does,
on the same stack, other threads or in the collector, is no step of that table.

### FfiLibrary

An operation is a frame; its steps are what runs between two reads of the
program's definitions, and any operation may start on top of it between two
steps, since a read may run program code. `compiling` marks the gap between
`assertCompatibleCachedSignature` and native `getFunction`, whose argument is read
there again. `getFunctions` and `dlopen` look all names up (`Miss`, `Hit`,
`CompileFunction`) before they publish any (`Publish`); the order in which the
entries of a definitions object are visited is left open. `Throw` ends an
operation at any step that can fail, a missing symbol included, and keeps what was
done before it. `dlopen` without definitions is `New`. A definition is a key of
`signatureKey`; `Compile` gives its native signature, and is not injective: `char`
is another key than `int8` and, where it is signed, the same native type.

`volatile`, chosen once, says whether each read of a definition may give another key:
the arguments of a definition are the program's own array, read again by validation,
by both uses of `signatureKey` and by the native side. Only `StableKeyDescribesSpec`
needs definitions that are not.

`FunctionCache` is the same object with one table and no steps in between: a name gets
one meaning, wrappers are given out for it, calls run with it, and it is not closed
under a call. A compilation that succeeds and is never published defines a name that
nobody was given. Without the wrappers it is a `NativeCache`.

### Invocation

The calls of one thread, each with the storage of its arguments and result
(`RawStorage`), the C strings its scopes keep, and the handles of Node-API, which
keep JavaScript objects until the native call returns. `Lent` is what C code may use:
references to those strings and to the bytes of objects. Arguments are prepared one by
one (`Prepare`), any of them may be refused (`PrepareFails` drops what was prepared),
and the result is converted before everything is dropped (`ConvertResult`), which
matters when a C function returns the string it was passed. A callback's result is
converted into storage that is freed before C reads it; what was stored there is
copied out, and its bytes stay only because the handle of the value belongs to the
outer call's scope: a callback opens none of its own, and the mutant of `IInv` shows
what would happen if it did. `Detach` is the one thing a program can do against this,
and `detachedInUse` remembers it.

### Marshalling

Init chooses a spelling of the definition, a role, a type name, a value, the sign of
`char` and the width of the platform's pointers (`usize`); the steps are validation,
compilation, check and conversion, each by its own table. For a C result (`"answer"`)
and a callback's argument (`"parameter"`) C chooses the value, and the program then
passes what it received to a function that takes the same type (`PassBack`). Numbers are
known by their place among 30 limits: each minimum and maximum of a C type or of the
safe integers, and the value next to it. Between two limits no table distinguishes
anything. The JavaScript tables take any u64 as a pointer on every platform;
`RawPointer`, like `raw_pointer_from_unknown`, refuses one that exceeds `usize`.

### Memory

One request, any pointer, any length and offset (or none, for a getter), through the checks of both layers.
The ranges of the machine types are constants, and `usize` and `MAX_LENGTH` are
those of the platform Init chooses. JavaScript numbers are integers,
halves, NaN and Infinity; `ToU32` and `ToI64` are the conversions Node-API does
between the layers. A `-1 .. U64Range` pointer covers bigints that are negative or
too large. `memory` says where each byte came from. Requests share no state but
memory, and do not depend on what it holds, so one request per behaviour is
enough.

## What the runs check

`Spec` allows every interleaving. All runs but those named violations pass.

| Run | Bounds | Shows |
| --- | --- | --- |
| `Reentrancy` | 1 thread, 2 libraries, 1 symbol, 1 signature, 1 address, 1 function, nesting 4 | a call keeps its library and signature whatever its callbacks do; a callback keeps its binding unless the program released it; freed memory is reached only after such a release; closing empties |
| `Workers` | 2 threads with a library and a function each, 1 address, nesting 2 | the same across threads that also end, with one address that passes from one thread's callback to the other's and is kept by C code; no callable or running function is collected |
| `Collection` | 1 library, 2 addresses, 1 function, nesting 3, fair collector | everything unwanted is collected; `IInv` is an invariant; the callback contract and the native function table are implemented, with a call inside a callback of a call |
| `RefAfterCollection` | as above, 1 address | violation: `refCallback` succeeds and retains nothing |
| `Caches` | 2 names, 2 keys for 2 native signatures, 2 overlapping operations, definitions that read the same or not | the caches agree, a wrapper always finds its function, a failed `dlopen` leaks nothing, what begins after `close()` adds nothing; `IInv` is an invariant; together they implement `FunctionCache` |
| `SignatureReadOnce` | as above | violation: the cached signature is not the compiled one |
| `ClosedLibrary` | stable definitions | violation: `getFunctions` works on a closed library |
| `Lending` | 2 functions, of one and of two arguments, calls nested 2 deep, 6 interchangeable blocks, 1 object with bytes | nothing leaks or is freed early; what C was lent stays readable unless its bytes are detached; `IInv` is an invariant |
| `Marshalling` | 33 type names (one unknown), 70 values, both signs of char, 32-bit and 64-bit pointers, values from the program and from C | no integer or pointer is truncated; what one layer takes the next one takes, but for void arguments, text with a NUL and, on 32 bits, pointers that need 64; no dangling string; what C gave can be passed back |
| `DocumentedSpelling` | as above | violation: the README's spelling compiles as `void ()` |
| `Memory` | 2^64 as 16, 2^32 as 6, `i64::MAX` as 7; a 64-bit platform with `MAX_LENGTH` 10 and a 32-bit one with 3; sources up to 7 bytes | exports write inside what was granted, wholly or (with a length both layers agree on) not at all; accesses and views are exact to the last byte; what exceeds `usize` is refused |
| `TruncatedLength` | as `Memory` | violation: a sufficient length is called too short |

Why the bounds are enough. `MaxDepth` 4 is a call, its callback, a call from it
and that one's callback: a callback can act on a call of its own library, on one
of the other library, and on one not directly below it. Two libraries tell "the
borrowed one" from "the one whose callback is used". One address is the harder
case for reuse: whatever is registered next gets the address that was freed.
Two operations at once let one run wholly inside any gap of the other, and a third
would find the same caches; two names tell what an operation on one does to the
other's entry; with `char` and `int32` as keys a conflict is possible, and equal
compiled signatures of different keys are left to the proof, which has any `Compile`.
Six blocks are what two calls can own of the first function, or one of the second with
a nested one that runs out of memory in the middle, which is an outcome of its own.
The scaled ranges keep the order of every limit that meets another in a comparison of
the code: `MAX_LENGTH` exceeds u32 on 64 bits and not on 32, `i64::MAX` exceeds usize on
32 bits and not on 64. What holds for all bounds is proved, see below.

`CHECK_DEADLOCK FALSE` is in every configuration: the process may abort or be
undefined, and a value or request that reached its end goes no further.

Fairness is assumed in `Collection` only, and of the collector only: a garbage
collector that never runs again would make every liveness property false, and
Node.js runs it as long as the program allocates. Nothing is assumed of the
program, which may stay in a call for ever. `UnwantedIsReleased` says that
nothing stays unwanted and uncollected for ever.

## What the violations show

1. `ref_callback` after the collector finalized the holder returns success with
   nothing retained, although the program still had the function
   (`dynamic_library.rs:449-453`; test "ffi refCallback retains callback
   function", `__test__/ffi-calls.spec.ts:406`).
2. `getFunctions` does not check `_closed` (`ffi-library.js:166`; test "closed
   libraries reject subsequent operations",
   `__test__/ffi-dynamic-library.spec.ts:161`).
3. The elements of `arguments` are read up to four times (`ffi-library.js:57, 62`;
   test "DynamicLibrary evaluates function signatures once",
   `__test__/ffi-dynamic-library.spec.ts:380`).
4. The README declares `parameters` and `result` (`README.md:43-44`); only
   `return` and `arguments` are read (`ffi-signature.js:77-82`).
5. `exportBuffer` compares with a view whose length was taken modulo 2^32 and
   reports a length that is large enough as too short (`ffi-memory.js:37-41`).

One more, which no run shows: a result declared `string` is given as a JavaScript string,
copied from what C returned (`targets.rs:502-515`, `FromCString` in `Marshalling`), so
"string returns are represented as pointers, so you control ownership and freeing
explicitly" (`README.md:196`) is true of results declared `pointer` only.

## What is proved

Every theorem is `Spec => []P`, that every step has a property, or that a specification
implements another, for all values of the constants that satisfy the modules' named
assumptions. These are that `None` is none of the other values, that nesting bounds are
natural numbers, that every library and function has a home thread (`HomeAssumption`),
that every key compiles to a native signature (`CompileAssumption`), that objects are
not the names of other kinds of value (`ObjectAssumption`), that signatures are
sequences of arguments (`SignatureAssumption`), that no type is called as the absence
of a declaration is (`NothingAssumption`), and that the machine ranges are nested as
those of the supported platforms are (`RangeAssumption`).

| Module | Theorems | Inductive invariant |
| --- | --- | --- |
| `DynamicLibrary_proofs` | every invariant of `DynamicLibrary` that the passing runs check; `RefRetainsUnlessLost` | `IInv` |
| `CallbackContract_proofs` | `ContractImplemented`: `DynamicLibrary` implements `CallbackContract` | the same |
| `NativeCache_proofs` | `NativeCacheImplemented`: every library of `DynamicLibrary` implements `NativeCache` | the same |
| `FfiLibrary_proofs` | every invariant of `FfiLibrary` that `Caches` checks; `FunctionCacheImplemented`: it implements `FunctionCache`; `NativeCacheImplemented`: and so `NativeCache`; `ClosedGivesNothingNew` | `IInv`, with `LateInv` for the last |
| `Invocation_proofs` | every property of `Lending` | `IInv` |
| `Marshalling_proofs` | every property of `Marshalling` | `MarshallingInv` |
| `Memory_proofs` | every property of `Memory`; `SmallLengthsAreJudgedRight` | `MemoryInv` |

**DynamicLibrary.** `IInv` is stronger than what it proves, in three places.
`UndefinedOnlyAfterRelease` is not inductive: that a call of a freed closure is
explained needs `CarriedIsRegistered`, which says so of every address C code still
has. `CallableIsAlive` needs to know who keeps a function: `KeptIsAlive` says it of
each keeper, and that a strong state has its holder. `ClosedIsEmpty` needs
`RegistrationSound`: a registration whose library is no longer open was overtaken.
`RunningCallIntact` and `ClosedIsEmpty` need each other: an open library and a cached
function are what `Close` and `FinalizeLib` take away, and `Borrowed` keeps both from it.
The argument has one lemma for each way a step changes the state: `FreeIInv` for those
that free bindings, `PushIInv` and `PopIInv` for activations, `StateIInv` for `ref` and
`unref`, `RegisterIInv`, `LibraryIInv`, `MemoryIInv`, `AddressIInv`, `ExitIInv`, and
`StopIInv` for the steps that end the process. `MethodIInv`, `NativeIInv` and
`CollectorIInv` put each action under the one that fits it, `NextIInv` joins them.

**CallbackContract.** `InitContract` maps initial states; `NextContract` maps every step,
by lemmas that follow the same division (`ReleaseContract`, `RefContract`,
`StackContract`, `ExitContract`, `StopContract`). The contract's stacks are the mapped
ones element by element, which `StackActivity` proves of pushing and popping.

**NativeCache.** Two facts of `IInv` carry it: a call in progress has its library open
and its function compiled (`RunningCallIntact`), and a library is borrowed as long as it
has a call (`CallsProperties`). The rest shows what each way of changing a stack makes
of the calls of one library: `InvokeCache` and `ReturnCache` where a call of it begins
and ends, `PushCalls` and `PopCalls` for every other activation, and `SameCalls` where
activations are only marked.

**FfiLibrary.** The heart of `IInv` is `FoundIsBound`: whatever a wrapper, the cache or
an operation in progress has for a name is one signature, and the bound one while the
library is open. It makes all steps but compilation easy, as they find nothing new
(`NothingFound`); a compilation needs an open library, in which whatever was found is
already bound (`CompileFunctionIInv`). `LookedUp` says that an operation that publishes has
found every name it publishes, `InProgress` that a failing `dlopen`, which closes the
library, is alone on the stack. No part of it but the last conjunct of `CachedIsWhole`
and of `LookedUp` needs definitions that read the same each time.
`FunctionCacheImplemented` maps calls to the places of their frames on the stack.
`LateGivesNothingNew` is a property of steps, and needs to know what an operation begun
after `close()` can have found: `LateOnlyHits` says nothing but what was cached, and
`CachedIsGiven` that publishing that again changes nothing, since what is cached was
listed, with its address, and given out. Both must survive an older operation that
publishes into the closed library's cache while the late one is in progress.

**Invocation.** `OwnedOnce` is inductive with the order of a call's phases
(`ResultComesLast`, `OthersInCallback`). `LentIsReadable` needs an owner for everything
lent: `TextIsScoped` gives C strings to a scope of their call, `BytesAreHandled` gives
bytes to a handle of it, and `AnswerIsLent` says that what C answers was lent by this
call or by one below it, which outlives it. `BecomeIInv` and `FinishIInv` are the two ways
a step changes the stack.

**Marshalling.** `MarshallingInv` says for each stage which table the value has passed
(`StageInv`, `SpecInv`, `OriginInv`). That turns the theorems into facts about the
tables, which are lemmas of their own: an alias compiles as its canonical name
(`AliasCompilesAlike`), every supported name compiles to the native type of its range,
what a validator accepts its `to_ffi` takes, unless it is one of the three exceptions
(`ValidatedConverts`), what fits a pointer of either width fits a u64
(`PlatformPointers`), and what `from_ffi`
makes is accepted again and converts back (`ReceivedIsAccepted`,
`ReceivedConvertsBack`). The names, kinds of value and limits are those of the code,
enumerated; `Types`, with any unknown names among them, and `Values` are arbitrary.

**Memory.** `MemoryInv` adds to the properties what each stage has established: the
checks that were passed, the view that was granted, the bytes written so far.

**What bounds the findings.** Four violations have a theorem that says how far they go.

| Violated | Theorem | What it says |
| --- | --- | --- |
| `RefdIsRetained` | `RefRetainsUnlessLost` | it holds of every behaviour in which no callback is lost while the program has its function (`HeldIsNotLost`): neither a second cause nor a later step can break it |
| `ClosedRejects` | `ClosedGivesNothingNew` | what a closed library gives, it gave before |
| `KeyDescribesSpec` | `StableKeysDescribe` | it holds where definitions read the same each time |
| `TooShortIsTrue` | `SmallLengthsAreJudgedRight` | it holds of lengths up to 2^32 |

`DeclaredIsCompiled` needs none: a definition spelled with `return` and `arguments` is
compiled as it is declared.

Only model-checked: `UnwantedIsReleased`, since liveness under fairness and ENABLED
are out of the prover's reach. No module declares a RECURSIVE operator, and no theorem
is about data defined by induction, which the prover could not do.

## What is not modelled

* `toString` and `getRawPointer`: they only read, at an address the program answers
  for.
* What libffi, the C library and Node-API do inside; a closure address is whatever
  is not in use. That `upgrade(env)?` in `ref_callback` may fail is an outcome of
  `RefCallback`.
* The float-special fallback of `createWrappedFunction`: dead code, since it tests
  `spec.return` and native specs call the field `result`. `attachRawMetadata`, whose
  properties nothing reads, and `ffi-semantics.js`, which nothing uses.
* One specification with `DynamicLibrary` and `FfiLibrary` side by side. They share
  the native table and `_closed`: of the table both implement `NativeCache`, and on
  `_closed` they agree by `OpenIsLoaded`; the JavaScript callback methods add nothing
  to the native ones but that check.
* C code that uses what it was lent after its call returned: argument storage and
  strings are freed by then, which is the contract of every foreign function.
* `DataView` sources, `path`, `get_symbol`, `types`, error texts, the loader and the
  build.

## What could follow

1. Theorems about `CallbackContract` alone, such as that a function that was lost is
   never called again, which `ContractImplemented` then carries to `DynamicLibrary`.
2. A composition in which the JavaScript callback methods re-enter while a definition
   is read, so that a callback registered in a library closed meanwhile is followed up
   to its collection.
3. Liveness of calls: a C function that returns lets every operation below it end.
