---------------------------- MODULE Marshalling ----------------------------
(***************************************************************************)
(* How one declared type and one value travel through both layers: the     *)
(* definition is normalized and validated by ffi-signature.js, compiled by *)
(* signature.rs, and then either an argument is checked by the validators  *)
(* of ffi-shared-buffer.js and converted by targets.rs, or a callback's    *)
(* result is converted by targets.rs alone.  What C returns, or passes to  *)
(* a callback, goes the other way, and the program may pass it back to C.  *)
(* A third way is shorter: a memory setter normalizes its value            *)
(* (ffi-memory.js) and writes it.                                          *)
(*                                                                         *)
(* The same table of types is written five times in the code (canonical    *)
(* names, validators, native names, native conversions, setters); what is  *)
(* checked is that they agree with each other and with C.                  *)
(***************************************************************************)
EXTENDS Integers, Sequences

CONSTANTS
    Types,    \* type names a definition may use, supported or not
    Values    \* values a program may pass: [kind, at]

\* "nothing" stands for a definition that declares no type, see Normalized.
ASSUME NothingAssumption == "nothing" \notin Types

VARIABLES
    spelling,   \* which property names the definition uses
    role,       \* what the type is of: see Roles
    type,       \* as written in the definition
    value,      \* the argument passed, or the value the callback returned
    charSigned, \* whether C's char is signed on this platform
    usize,      \* the range of its pointers
    stage,      \* how far it came, or where it was rejected
    spec,       \* the native name of the compiled type
    stored,     \* what was written for C
    origin      \* what C gave, where the value comes from C

vars == <<spelling, role, type, value, charSigned, usize, stage, spec, stored, origin>>

\* A function's argument or result, a callback's parameter or result, or the
\* value of a memory setter.
Roles == {"argument", "answer", "parameter", "result", "setter"}

-----------------------------------------------------------------------------
(* Numbers are known by their place among the limits of the C types.       *)

Limits == <<"-2^63-1", "-2^63", "-2^53", "-2^53+1", "-2^31-1", "-2^31", "-2^15-1", "-2^15", "-2^7-1", "-2^7",
            "-1", "0", "2^7-1", "2^7", "2^8-1", "2^8", "2^15-1", "2^15", "2^16-1", "2^16",
            "2^31-1", "2^31", "2^32-1", "2^32", "2^53-1", "2^53", "2^63-1", "2^63", "2^64-1", "2^64">>

Integral == {Limits[i] : i \in DOMAIN Limits}
Rank(p) == CHOOSE i \in DOMAIN Limits : Limits[i] = p
Within(p, range) == p \in Integral /\ Rank(range[1]) <= Rank(p) /\ Rank(p) <= Rank(range[2])

\* Values that are not numbers, by what the code can tell of them.  A text
\* with a NUL is "nulString"; "bytes" is a Buffer, ArrayBuffer or typed array.
Plain == {"null", "undefined", "string", "nulString", "bytes", "boolean", "object"}

Int8 == <<"-2^7", "2^7-1">>
UInt8 == <<"0", "2^8-1">>
Int16 == <<"-2^15", "2^15-1">>
UInt16 == <<"0", "2^16-1">>
Int32 == <<"-2^31", "2^31-1">>
UInt32 == <<"0", "2^32-1">>
Int64 == <<"-2^63", "2^63-1">>
UInt64 == <<"0", "2^64-1">>
SafeInteger == <<"-2^53+1", "2^53-1">>

-----------------------------------------------------------------------------
(* JavaScript: definitions.                                                *)

\* The type a definition declares for the role, as normalization reads it:
\* only the properties `return` and `arguments` are looked at.
Normalized ==
    IF spelling = "return/arguments" THEN type
    ELSE IF role \in {"answer", "result"} THEN "void" ELSE "nothing"

Aliases == [bool |-> "uint8", i8 |-> "int8", u8 |-> "uint8", i16 |-> "int16", u16 |-> "uint16",
            i32 |-> "int32", u32 |-> "uint32", i64 |-> "int64", u64 |-> "uint64",
            f32 |-> "float32", float |-> "float32", f64 |-> "float64", double |-> "float64",
            ptr |-> "pointer", str |-> "string"]

\* Mutation: char is an alias of int8.
CanonicalCharIsInt8(t) ==
    IF t = "char" THEN "int8" ELSE IF t \in DOMAIN Aliases THEN Aliases[t] ELSE t

CanonicalTypeName(t) == IF t \in DOMAIN Aliases THEN Aliases[t] ELSE t

SupportedTypes == {"void", "bool", "char", "int8", "uint8", "int16", "uint16", "int32", "uint32",
                   "int64", "uint64", "float32", "float64", "pointer", "buffer", "arraybuffer",
                   "function", "string"}

Supported(t) == CanonicalTypeName(t) \in SupportedTypes

-----------------------------------------------------------------------------
(* Native: parse_target.                                                   *)

Targets == [int8 |-> {"i8", "int8"}, uint8 |-> {"u8", "uint8", "bool"},
            int16 |-> {"i16", "int16"}, uint16 |-> {"u16", "uint16"},
            int32 |-> {"i32", "int32"}, uint32 |-> {"u32", "uint32"},
            int64 |-> {"i64", "int64"}, uint64 |-> {"u64", "uint64"},
            float32 |-> {"f32", "float", "float32"}, float64 |-> {"f64", "double", "float64"},
            pointer |-> {"pointer", "ptr"}, buffer |-> {"buffer"},
            arraybuffer |-> {"arraybuffer"}, function |-> {"function"},
            string |-> {"string", "str"}, void |-> {"void"}]

\* Mutation: the native name of char is not resolved.
ParseCharAsChar(t) ==
    IF t = "char" THEN t
    ELSE IF \E n \in DOMAIN Targets : t \in Targets[n]
         THEN CHOOSE n \in DOMAIN Targets : t \in Targets[n]
         ELSE "unsupported"

\* Mutation: char and bool are not in the native table.
ParseOnlySized(t) ==
    IF t \notin {"bool", "char"} /\ \E n \in DOMAIN Targets : t \in Targets[n]
    THEN CHOOSE n \in DOMAIN Targets : t \in Targets[n]
    ELSE "unsupported"

\* The native name of t, or "unsupported".
ParseTarget(t) ==
    IF t = "char" THEN IF charSigned THEN "int8" ELSE "uint8"
    ELSE IF \E n \in DOMAIN Targets : t \in Targets[n]
         THEN CHOOSE n \in DOMAIN Targets : t \in Targets[n]
         ELSE "unsupported"

\* Mutation: the result type is not looked at.
AnyCallbackResult(native) == TRUE

\* A callback's result cannot be a string: nothing would own its bytes.
CallbackResultAllowed(native) == native # "string"

-----------------------------------------------------------------------------
(* JavaScript: the validator a wrapper runs for an argument.               *)

JsNumberRange == [bool |-> UInt8, u8 |-> UInt8, uint8 |-> UInt8,
                  char |-> Int8, i8 |-> Int8, int8 |-> Int8,
                  i16 |-> Int16, int16 |-> Int16, u16 |-> UInt16, uint16 |-> UInt16,
                  i32 |-> Int32, int32 |-> Int32, u32 |-> UInt32, uint32 |-> UInt32]

JsBigIntRange == [i64 |-> Int64, int64 |-> Int64, u64 |-> UInt64, uint64 |-> UInt64]

JsFloats == {"f32", "float", "float32", "f64", "double", "float64"}

JsPointers == {"pointer", "ptr", "function", "buffer", "arraybuffer", "string", "str"}

\* A type without a validator takes anything.
JsAccepts(t, v) ==
    \/ /\ t \in DOMAIN JsNumberRange
       /\ v.kind = "number" /\ Within(v.at, JsNumberRange[t])
    \/ /\ t \in DOMAIN JsBigIntRange
       /\ v.kind = "bigint" /\ Within(v.at, JsBigIntRange[t])
    \/ t \in JsFloats /\ v.kind = "number"
    \/ /\ t \in JsPointers
       /\ \/ v.kind = "bigint" /\ Within(v.at, UInt64)
          \/ v.kind \in {"null", "undefined", "string", "nulString", "bytes"}
    \/ t \notin DOMAIN JsNumberRange \cup DOMAIN JsBigIntRange \cup JsFloats \cup JsPointers

-----------------------------------------------------------------------------
(* Native: TypeOps::to_ffi, by the context it is called in.                *)

NativeNumberRange == [int8 |-> Int8, uint8 |-> UInt8, int16 |-> Int16, uint16 |-> UInt16,
                      int32 |-> Int32, uint32 |-> UInt32]

\* bigint_to_i64 and bigint_to_u64.
NativeBigIntRange == [int64 |-> Int64, uint64 |-> UInt64]

\* Mutation: the upper bound is exclusive of the wrong side: max + 1 passes.
IntegerUpToLimit(p, range) ==
    p \in Integral /\ Rank(range[1]) <= Rank(p) /\ Rank(p) <= Rank(range[2]) + 1

\* strict_signed_integer and strict_unsigned_integer.
StrictInteger(p, range) == Within(p, range)

NativePointers == {"pointer", "buffer", "arraybuffer", "function"}

\* Mutation: raw_bytes_pointer does not know every kind of byte source.
RawPointerNoBytes(v) ==
    CASE v.kind \in {"null", "undefined"} -> "null"
      [] v.kind = "bigint" /\ Within(v.at, UInt64) /\ Within(v.at, usize) -> "address"
      [] OTHER -> "invalid"

\* Mutation: `as usize` instead of usize::try_from.
RawPointerTruncates(v) ==
    CASE v.kind \in {"null", "undefined"} -> "null"
      [] v.kind = "bigint" /\ Within(v.at, UInt64) -> "address"
      [] v.kind = "bytes" -> "address"
      [] OTHER -> "invalid"

\* What raw_pointer_from_unknown gives for v, or "invalid".  A bigint passes
\* bigint_to_u64 and then usize::try_from.
RawPointer(v) ==
    CASE v.kind \in {"null", "undefined"} -> "null"
      [] v.kind = "bigint" /\ Within(v.at, UInt64) /\ Within(v.at, usize) -> "address"
      [] v.kind = "bytes" -> "address"
      [] OTHER -> "invalid"

\* What is written for a pointer-like type.  A string becomes a CString that
\* lives as long as the prepared value: "temporary".
StoredPointer(native, ctx, v) ==
    IF v.kind = "string" /\ (ctx = "CallArg" \/ native = "string") THEN "temporary"
    ELSE RawPointer(v)

\* What to_ffi stores, or "invalid" where it returns an error.
ToFfi(native, ctx, v) ==
    CASE native \in DOMAIN NativeNumberRange ->
           IF v.kind = "number" /\ StrictInteger(v.at, NativeNumberRange[native])
           THEN "value" ELSE "invalid"
      [] native \in DOMAIN NativeBigIntRange ->
           IF v.kind = "bigint" /\ Within(v.at, NativeBigIntRange[native])
           THEN "value" ELSE "invalid"
      [] native \in {"float32", "float64"} -> IF v.kind = "number" THEN "value" ELSE "invalid"
      [] native \in NativePointers \cup {"string"} -> StoredPointer(native, ctx, v)
      [] native = "void" -> IF ctx = "CallArg" THEN "invalid" ELSE "nothing"

-----------------------------------------------------------------------------
(* Native: TypeOps::from_ffi.                                              *)

\* What C may give for a native type: a place among the limits, any double, or
\* a text.  Nothing is read for void.
CValues(native) ==
    CASE native \in DOMAIN NativeNumberRange -> {p \in Integral : Within(p, NativeNumberRange[native])}
      [] native \in DOMAIN NativeBigIntRange -> {p \in Integral : Within(p, NativeBigIntRange[native])}
      [] native \in {"float32", "float64"} -> Integral \cup {"fraction", "NaN", "Infinity"}
      [] native \in NativePointers -> {p \in Integral : Within(p, usize)}
      [] native = "string" -> {"NULL", "UTF-8", "other bytes"}
      [] native = "void" -> {"void"}

NoValue == [kind |-> "undefined", at |-> "nowhere"]
Unreadable == [kind |-> "undefined", at |-> "unreadable"]

\* A NULL is undefined, and only a text in UTF-8 becomes a string.
FromCString(c) ==
    CASE c = "NULL" -> NoValue
      [] c = "UTF-8" -> [kind |-> "string", at |-> "nowhere"]
      [] c = "other bytes" -> Unreadable

\* Mutation: every number becomes a JavaScript number.
FromFfiNumber(native, from, c) ==
    CASE native \in DOMAIN NativeNumberRange \cup DOMAIN NativeBigIntRange
            \cup {"float32", "float64"} -> [kind |-> "number", at |-> c]
      [] native \in NativePointers -> [kind |-> "bigint", at |-> c]
      [] native = "string" -> FromCString(c)
      [] native = "void" -> IF from = "answer" THEN NoValue ELSE Unreadable

\* The JavaScript value, or Unreadable where from_ffi returns an error.
FromFfi(native, from, c) ==
    CASE native \in DOMAIN NativeNumberRange \cup {"float32", "float64"} ->
           [kind |-> "number", at |-> c]
      [] native \in DOMAIN NativeBigIntRange \cup NativePointers -> [kind |-> "bigint", at |-> c]
      [] native = "string" -> FromCString(c)
      [] native = "void" -> IF from = "answer" THEN NoValue ELSE Unreadable

-----------------------------------------------------------------------------
(* JavaScript: the memory setters.                                         *)

SetterNumbers == [int8 |-> Int8, uint8 |-> UInt8, int16 |-> Int16, uint16 |-> UInt16,
                  int32 |-> Int32, uint32 |-> UInt32]

SetterBigInts == [int64 |-> Int64, uint64 |-> UInt64]

Setters == DOMAIN SetterNumbers \cup DOMAIN SetterBigInts \cup {"float32", "float64"}

\* createNormalizer: a safe integer is converted to a bigint, and the floats
\* are left to the native setter, which takes numbers.
SetterAccepts(t, v) ==
    \/ /\ t \in DOMAIN SetterNumbers
       /\ v.kind = "number" /\ Within(v.at, SetterNumbers[t])
    \/ /\ t \in DOMAIN SetterBigInts
       /\ v.kind = "bigint" \/ (v.kind = "number" /\ Within(v.at, SafeInteger))
       /\ Within(v.at, SetterBigInts[t])
    \/ t \in {"float32", "float64"} /\ v.kind = "number"

-----------------------------------------------------------------------------
(* The way of a value.                                                     *)

Init ==
    /\ spelling \in {"return/arguments", "result/parameters"}
    /\ role \in Roles
    /\ type \in IF role = "setter" THEN Setters ELSE Types
    /\ value \in IF role \in {"answer", "parameter"} THEN {NoValue} ELSE Values
    /\ charSigned \in BOOLEAN
    /\ usize \in {UInt32, UInt64}
    /\ stage = "written"
    /\ spec = "none"
    /\ stored = "none"
    /\ origin = "none"

Reach(s) == stage' = s /\ UNCHANGED <<spelling, role, type, value, charSigned, usize, origin>>

\* validateFunctionDefinition.
Validate ==
    /\ stage = "written"
    /\ role # "setter"
    /\ IF Normalized = "nothing" \/ Supported(Normalized)
       THEN Reach("validated") ELSE Reach("unsupported")
    /\ UNCHANGED <<spec, stored>>

\* compile_signature, and for a callback validate_callback_signature.
CompileSignature ==
    /\ stage = "validated"
    /\ spec' = IF Normalized = "nothing" THEN "nothing" ELSE ParseTarget(Normalized)
    /\ IF spec' = "unsupported" \/ (role = "result" /\ ~CallbackResultAllowed(spec'))
       THEN Reach("uncompiled") ELSE Reach("compiled")
    /\ UNCHANGED stored

\* The wrapper: arity, then the validator made for the native name.
CheckArgument ==
    /\ stage = "compiled"
    /\ role = "argument"
    /\ IF spec # "nothing" /\ JsAccepts(spec, value) THEN Reach("checked") ELSE Reach("refused")
    /\ UNCHANGED <<spec, stored>>

ConvertArgument ==
    /\ stage = "checked"
    /\ stored' = ToFfi(spec, "CallArg", value)
    /\ IF stored' = "invalid" THEN Reach("unconverted") ELSE Reach("passed")
    /\ UNCHANGED spec

\* No validator runs: a value that does not convert aborts the process.
ConvertResult ==
    /\ stage = "compiled"
    /\ role = "result"
    /\ stored' = ToFfi(spec, "CallbackReturn", value)
    /\ IF stored' = "invalid" THEN Reach("aborted") ELSE Reach("returned")
    /\ UNCHANGED spec

\* C returns, or calls a callback: an error of the one is an exception, of the
\* other the end of the process.
ReceiveFromC(c) ==
    /\ stage = "compiled"
    /\ role \in {"answer", "parameter"}
    /\ spec = "nothing" => c = "void"
    /\ spec # "nothing" => c \in CValues(spec)
    /\ origin' = c
    /\ value' = IF spec = "nothing" THEN NoValue ELSE FromFfi(spec, role, c)
    /\ stage' = IF value' # Unreadable THEN "received"
                ELSE IF role = "answer" THEN "thrown" ELSE "aborted"
    /\ UNCHANGED <<spelling, role, type, charSigned, usize, spec, stored>>

\* The program passes what it received to a function that takes the type.
PassBack ==
    /\ stage = "received"
    /\ stage' = "compiled"
    /\ role' = "argument"
    /\ UNCHANGED <<spelling, type, value, charSigned, usize, spec, stored, origin>>

\* wrapMemorySetter: the value as the setter of the type writes it.
StoreValue ==
    /\ stage = "written"
    /\ role = "setter"
    /\ IF SetterAccepts(type, value)
       THEN /\ Reach("passed")
            /\ stored' = "value"
       ELSE /\ Reach("refused")
            /\ UNCHANGED stored
    /\ UNCHANGED spec

Next == \/ Validate
        \/ CompileSignature
        \/ CheckArgument
        \/ ConvertArgument
        \/ ConvertResult
        \/ \E c \in Integral \cup {"fraction", "NaN", "Infinity", "NULL", "UTF-8", "other bytes", "void"} :
              ReceiveFromC(c)
        \/ PassBack
        \/ StoreValue

Spec == Init /\ [][Next]_vars

-----------------------------------------------------------------------------
(* Properties.                                                             *)

\* What C means by each name, from the names themselves.
CInteger ==
    [bool |-> UInt8, i8 |-> Int8, int8 |-> Int8, u8 |-> UInt8, uint8 |-> UInt8,
     i16 |-> Int16, int16 |-> Int16, u16 |-> UInt16, uint16 |-> UInt16,
     i32 |-> Int32, int32 |-> Int32, u32 |-> UInt32, uint32 |-> UInt32,
     i64 |-> Int64, int64 |-> Int64, u64 |-> UInt64, uint64 |-> UInt64,
     char |-> IF charSigned THEN Int8 ELSE UInt8]

Stages == {"written", "validated", "unsupported", "compiled", "uncompiled", "checked", "refused",
           "passed", "unconverted", "returned", "aborted", "received", "thrown"}

\* What from_ffi may give a program, whether or not the program also makes it.
FromC == [kind: {"number", "bigint"}, at: Integral \cup {"fraction", "NaN", "Infinity"}]
             \cup [kind: {"undefined", "string"}, at: {"nowhere"}] \cup {Unreadable}

TypeOK ==
    /\ spelling \in {"return/arguments", "result/parameters"}
    /\ type \in Types \cup Setters
    /\ role \in Roles
    /\ value \in Values \cup FromC
    /\ charSigned \in BOOLEAN
    /\ usize \in {UInt32, UInt64}
    /\ stage \in Stages
    /\ spec \in DOMAIN Targets \cup {"none", "nothing", "unsupported"}
    /\ stored \in {"none", "nothing", "value", "null", "address", "temporary", "invalid"}

\* An integer that reaches C is one the declared C type can represent: no
\* argument, callback result or value stored in memory is truncated, wrapped
\* or reinterpreted, nor is a bigint that stands for a pointer.
IntegersFit ==
    LET declared == IF role = "setter" THEN type ELSE Normalized IN
    stage \in {"passed", "returned"} =>
        /\ declared \in DOMAIN CInteger => Within(value.at, CInteger[declared])
        /\ spec \in NativePointers \cup {"string"} /\ value.kind = "bigint" =>
              Within(value.at, usize)

\* What the JavaScript layer takes as a definition compiles natively; the one
\* exception is a callback that returns a string.
ValidatedCompiles ==
    stage = "uncompiled" => role = "result" /\ CanonicalTypeName(type) = "string"

\* What a wrapper's validators take converts natively; the exceptions are an
\* argument of type void, a string that contains a NUL, and, where pointers
\* have 32 bits, a bigint that is none of them but would be one of 64 bits.
CheckedConverts ==
    stage = "unconverted" =>
        \/ spec = "void"
        \/ value.kind = "nulString"
        \/ /\ spec \in NativePointers \cup {"string"}
           /\ value.kind = "bigint" /\ usize = UInt32 /\ ~Within(value.at, UInt32)

\* The bytes of a string converted for a callback's result are gone when the
\* callback has returned: no such pointer reaches C.
NoDanglingResult == stage = "returned" => stored # "temporary"

\* What a program received from C it can pass back to a function that takes the
\* same type, and C gets the value it gave: no type reads into a JavaScript
\* type, or a precision, that its own validator or conversion refuses.  A void
\* result is not a value.
ReceivedCanBePassedBack ==
    origin \notin {"none", "void"} =>
        /\ stage \notin {"refused", "unconverted"}
        /\ stage = "passed" /\ spec # "string" => stored \in {"value", "address"} /\ value.at = origin
        /\ stage = "passed" /\ spec = "string" =>
              stored = IF origin = "NULL" THEN "null" ELSE "temporary"

\* Two definitions that _functionCache takes for the same compile to the same
\* native signature, so a cached wrapper is the one a new compilation gives.
SameKeySameSignature ==
    \A t \in Types :
        Supported(type) /\ CanonicalTypeName(t) = CanonicalTypeName(type) =>
            ParseTarget(t) = ParseTarget(type)

\* The types of a definition, spelled as the documentation spells them, are
\* the ones its function is compiled with.
DeclaredIsCompiled ==
    stage = "compiled" => spec = ParseTarget(type)
=============================================================================
