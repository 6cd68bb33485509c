-------------------------- MODULE Marshalling_proofs --------------------------
(***************************************************************************)
(* Proofs about Marshalling, for any type names and any values a program   *)
(* may use.  The lemmas about the tables come first: each says of one      *)
(* table what the next one needs of it.                                    *)
(***************************************************************************)
EXTENDS Marshalling, TLAPS

-----------------------------------------------------------------------------
(* The tables.                                                             *)

\* The native names, spelled out.
NativeNames == {"int8", "uint8", "int16", "uint16", "int32", "uint32", "int64", "uint64",
                "float32", "float64", "pointer", "buffer", "arraybuffer", "function", "string",
                "void"}

\* The native table has one entry for each native name, and numbers, bigints,
\* floats, pointers, strings and void divide the names among them.
LEMMA NativeTable ==
    /\ DOMAIN Targets = NativeNames
    /\ DOMAIN NativeNumberRange = {"int8", "uint8", "int16", "uint16", "int32", "uint32"}
    /\ DOMAIN NativeBigIntRange = {"int64", "uint64"}
    /\ \A n \in NativeNames : n \notin {"nothing", "none", "unsupported"}
BY DEF Targets, NativeNames, NativeNumberRange, NativeBigIntRange

\* Compilation gives a native name or refuses.
LEMMA ParseGivesNative ==
    ASSUME NEW t
    PROVE  ParseTarget(t) \in NativeNames \cup {"unsupported"}
BY DEF ParseTarget, Targets, NativeNames

\* What validation takes is a native name, or an alias or char or bool.
LEMMA SupportedCompiles ==
    ASSUME NEW t, Supported(t)
    PROVE  ParseTarget(t) \in NativeNames
BY DEF Supported, SupportedTypes, CanonicalTypeName, Aliases, ParseTarget, Targets, NativeNames

\* An alias compiles as the name it stands for.
LEMMA AliasCompilesAlike ==
    ASSUME NEW t, Supported(t)
    PROVE  ParseTarget(CanonicalTypeName(t)) = ParseTarget(t)
BY DEF Supported, SupportedTypes, CanonicalTypeName, Aliases, ParseTarget, Targets

\* Only string and its alias compile to string.
LEMMA StringName ==
    ASSUME NEW t, ParseTarget(t) = "string"
    PROVE  CanonicalTypeName(t) = "string"
BY DEF CanonicalTypeName, Aliases, ParseTarget, Targets

\* The range the native conversion of an integer type accepts.
NativeRange(n) ==
    IF n \in DOMAIN NativeNumberRange THEN NativeNumberRange[n] ELSE NativeBigIntRange[n]

NativeIntegers == DOMAIN NativeNumberRange \cup DOMAIN NativeBigIntRange

\* The native names of the C integers.
LEMMA IntegerNames ==
    ASSUME NEW t
    PROVE  /\ t \in {"bool", "u8", "uint8"} => ParseTarget(t) = "uint8"
           /\ t \in {"i8", "int8"} => ParseTarget(t) = "int8"
           /\ t \in {"i16", "int16"} => ParseTarget(t) = "int16"
           /\ t \in {"u16", "uint16"} => ParseTarget(t) = "uint16"
           /\ t \in {"i32", "int32"} => ParseTarget(t) = "int32"
           /\ t \in {"u32", "uint32"} => ParseTarget(t) = "uint32"
           /\ t \in {"i64", "int64"} => ParseTarget(t) = "int64"
           /\ t \in {"u64", "uint64"} => ParseTarget(t) = "uint64"
           /\ t = "char" => ParseTarget(t) = IF charSigned THEN "int8" ELSE "uint8"
BY DEF ParseTarget, Targets

\* The native conversion of a C integer has the range C gives it.
LEMMA IntegerRanges ==
    ASSUME NEW t \in DOMAIN CInteger
    PROVE  /\ ParseTarget(t) \in NativeIntegers
           /\ NativeRange(ParseTarget(t)) = CInteger[t]
BY IntegerNames DEF CInteger, NativeIntegers, NativeRange, NativeNumberRange, NativeBigIntRange

\* A setter has the range of its C type.
LEMMA SetterRanges ==
    ASSUME NEW t \in DOMAIN CInteger, NEW v, SetterAccepts(t, v)
    PROVE  Within(v.at, CInteger[t])
BY DEF CInteger, SetterAccepts, SetterNumbers, SetterBigInts

\* The conversion of a C integer takes what is in its range only.
LEMMA ConvertedFits ==
    ASSUME NEW n \in NativeIntegers, NEW ctx, NEW v, ToFfi(n, ctx, v) # "invalid"
    PROVE  Within(v.at, NativeRange(n))
<1>1. n \notin {"float32", "float64", "void", "string"} \cup NativePointers
    BY DEF NativeIntegers, NativePointers, NativeNumberRange, NativeBigIntRange
<1>2. DOMAIN NativeNumberRange \cap DOMAIN NativeBigIntRange = {}
    BY DEF NativeNumberRange, NativeBigIntRange
<1>3. CASE n \in DOMAIN NativeNumberRange
    BY <1>1, <1>2, <1>3 DEF NativeRange, ToFfi, StrictInteger
<1>4. CASE n \in DOMAIN NativeBigIntRange
    BY <1>1, <1>2, <1>4 DEF NativeRange, ToFfi
<1> QED
    BY <1>3, <1>4 DEF NativeIntegers

\* A bigint that the platform's pointers can hold is one that u64 can.
LEMMA PlatformPointers ==
    ASSUME usize \in {UInt32, UInt64}, NEW p
    PROVE  Within(p, usize) => Within(p, UInt64)
<1>1. Rank("2^32-1") <= Rank("2^64-1") /\ Rank("2^32-1") \in Int /\ Rank("2^64-1") \in Int
    BY DEF Rank, Limits
<1>2. ASSUME p \in Integral
      PROVE  Rank(p) \in Int
    <2>1. PICK i \in DOMAIN Limits : p = Limits[i]
        BY <1>2 DEF Integral
    <2>2. Rank(p) \in DOMAIN Limits
        BY <2>1 DEF Rank
    <2>3. DOMAIN Limits = 1 .. 30
        BY DEF Limits
    <2> QED
        BY <2>2, <2>3
<1> QED
    BY <1>1, <1>2 DEF Within, UInt32, UInt64

\* What a validator takes for a native name is what the conversion takes, but
\* for a text with a NUL and a bigint the platform's pointers cannot hold.
LEMMA ValidatedConverts ==
    ASSUME NEW n \in NativeNames, n # "void", NEW v, v.kind # "nulString", JsAccepts(n, v),
           ~(n \in NativePointers \cup {"string"} /\ v.kind = "bigint" /\ ~Within(v.at, usize))
    PROVE  ToFfi(n, "CallArg", v) # "invalid"
BY DEF NativeNames, JsAccepts, JsNumberRange, JsBigIntRange, JsFloats, JsPointers, ToFfi, NativeNumberRange,
       NativeBigIntRange, NativePointers, StoredPointer, RawPointer, StrictInteger

\* A pointer that is converted from a bigint is one the platform has.
LEMMA ConvertedPointerFits ==
    ASSUME NEW n \in NativePointers \cup {"string"}, NEW ctx, NEW v, v.kind = "bigint",
           ToFfi(n, ctx, v) # "invalid"
    PROVE  Within(v.at, usize)
BY DEF ToFfi, NativePointers, NativeNumberRange, NativeBigIntRange, StoredPointer, RawPointer

\* On one platform a value always converts alike, and C has the same values.
LEMMA SamePlatform ==
    ASSUME usize' = usize
    PROVE  /\ \A n, ctx, v : ToFfi(n, ctx, v)' = ToFfi(n, ctx, v)
           /\ \A n : CValues(n)' = CValues(n)
BY DEF ToFfi, StoredPointer, RawPointer, CValues

\* A conversion gives one of six outcomes.
LEMMA ConversionOutcomes ==
    ASSUME NEW n \in NativeNames, NEW ctx, NEW v
    PROVE  ToFfi(n, ctx, v) \in {"nothing", "value", "null", "address", "temporary", "invalid"}
BY DEF NativeNames, ToFfi, NativeNumberRange, NativeBigIntRange, NativePointers, StoredPointer, RawPointer

\* The result of a callback is never the address of a temporary.
LEMMA ResultsAreNotTemporary ==
    ASSUME NEW n \in NativeNames, n # "string", NEW v
    PROVE  ToFfi(n, "CallbackReturn", v) # "temporary"
BY DEF NativeNames, ToFfi, NativeNumberRange, NativeBigIntRange, NativePointers, StoredPointer, RawPointer

\* Whatever C gives for a type becomes a JavaScript value or is refused.
LEMMA GivenIsValue ==
    ASSUME NEW n \in NativeNames, NEW from, NEW c \in CValues(n)
    PROVE  FromFfi(n, from, c) \in FromC
<1>1. CASE n \in {"int8", "uint8", "int16", "uint16", "int32", "uint32"}
    BY <1>1 DEF CValues, FromFfi, FromC, NativeNumberRange, NativeBigIntRange, NativePointers
<1>2. CASE n \in {"int64", "uint64"}
    BY <1>2 DEF CValues, FromFfi, FromC, NativeNumberRange, NativeBigIntRange, NativePointers
<1>3. CASE n \in {"float32", "float64"}
    BY <1>3 DEF CValues, FromFfi, FromC, NativeNumberRange, NativeBigIntRange, NativePointers
<1>4. CASE n \in NativePointers
    BY <1>4 DEF CValues, FromFfi, FromC, NativeNumberRange, NativeBigIntRange, NativePointers
<1>5. CASE n = "string"
    BY <1>5 DEF CValues, FromFfi, FromC, NativeNumberRange, NativeBigIntRange, NativePointers, FromCString,
                NoValue, Unreadable
<1>6. CASE n = "void"
    BY <1>6 DEF CValues, FromFfi, FromC, NativeNumberRange, NativeBigIntRange, NativePointers,
                NoValue, Unreadable
<1> QED
    BY <1>1, <1>2, <1>3, <1>4, <1>5, <1>6 DEF NativeNames, NativePointers

\* A value received for a type is one its validator takes.
LEMMA ReceivedIsAccepted ==
    ASSUME usize \in {UInt32, UInt64}, NEW n \in NativeNames \ {"void"}, NEW from, NEW c \in CValues(n),
           FromFfi(n, from, c) # Unreadable
    PROVE  JsAccepts(n, FromFfi(n, from, c))
<1>1. CASE n \in {"int8", "uint8", "int16", "uint16", "int32", "uint32"}
    <2>1. FromFfi(n, from, c) = [kind |-> "number", at |-> c] /\ Within(c, NativeNumberRange[n])
        BY <1>1 DEF CValues, FromFfi, NativeNumberRange, NativeBigIntRange, NativePointers
    <2>2. n \in DOMAIN JsNumberRange /\ JsNumberRange[n] = NativeNumberRange[n]
        BY <1>1 DEF JsNumberRange, NativeNumberRange
    <2> QED
        BY <2>1, <2>2 DEF JsAccepts
<1>2. CASE n \in {"int64", "uint64"}
    <2>1. FromFfi(n, from, c) = [kind |-> "bigint", at |-> c] /\ Within(c, NativeBigIntRange[n])
        BY <1>2 DEF CValues, FromFfi, NativeNumberRange, NativeBigIntRange, NativePointers
    <2>2. n \in DOMAIN JsBigIntRange /\ JsBigIntRange[n] = NativeBigIntRange[n]
        BY <1>2 DEF JsBigIntRange, NativeBigIntRange
    <2> QED
        BY <2>1, <2>2 DEF JsAccepts
<1>3. CASE n \in {"float32", "float64"}
    BY <1>3 DEF CValues, FromFfi, NativeNumberRange, NativeBigIntRange, NativePointers, JsAccepts, JsFloats
<1>4. CASE n \in NativePointers
    BY <1>4, PlatformPointers
       DEF CValues, FromFfi, NativeNumberRange, NativeBigIntRange, NativePointers, JsAccepts, JsPointers
<1>5. CASE n = "string"
    BY <1>5 DEF CValues, FromFfi, NativeNumberRange, NativeBigIntRange, NativePointers, FromCString,
                NoValue, Unreadable, JsAccepts, JsPointers
<1> QED
    BY <1>1, <1>2, <1>3, <1>4, <1>5 DEF NativeNames, NativePointers

\* A value received for a type converts back to what C gave.
LEMMA ReceivedConvertsBack ==
    ASSUME usize \in {UInt32, UInt64}, NEW n \in NativeNames \ {"void"}, NEW from, NEW c \in CValues(n),
           FromFfi(n, from, c) # Unreadable
    PROVE  /\ n # "string" => /\ ToFfi(n, "CallArg", FromFfi(n, from, c)) \in {"value", "address"}
                             /\ FromFfi(n, from, c).at = c
           /\ n = "string" => ToFfi(n, "CallArg", FromFfi(n, from, c)) =
                                   IF c = "NULL" THEN "null" ELSE "temporary"
<1>1. CASE n \in {"int8", "uint8", "int16", "uint16", "int32", "uint32"}
    BY <1>1 DEF CValues, FromFfi, NativeNumberRange, NativeBigIntRange, NativePointers, ToFfi, StrictInteger
<1>2. CASE n \in {"int64", "uint64"}
    BY <1>2 DEF CValues, FromFfi, NativeNumberRange, NativeBigIntRange, NativePointers, ToFfi
<1>3. CASE n \in {"float32", "float64"}
    BY <1>3 DEF CValues, FromFfi, NativeNumberRange, NativeBigIntRange, NativePointers, ToFfi
<1>4. CASE n \in NativePointers
    BY <1>4, PlatformPointers
       DEF CValues, FromFfi, NativeNumberRange, NativeBigIntRange, NativePointers, ToFfi, StoredPointer, RawPointer
<1>5. CASE n = "string"
    BY <1>5 DEF CValues, FromFfi, NativeNumberRange, NativeBigIntRange, NativePointers, FromCString,
                NoValue, Unreadable, ToFfi, StoredPointer, RawPointer
<1> QED
    BY <1>1, <1>2, <1>3, <1>4, <1>5 DEF NativeNames, NativePointers

-----------------------------------------------------------------------------
(* The inductive invariant.                                                *)

\* A type compiled: what spec is from then on.  What a program passes back is
\* passed to an argument of the type that was compiled, whatever was declared.
SpecInv ==
    /\ spelling = "return/arguments" => spec = ParseTarget(type)
    /\ spelling # "return/arguments" => spec \in {"void", "nothing"}
    /\ spec \in NativeNames \cup {"nothing"}
    /\ role = "result" => spec \notin {"string", "nothing"}

\* A value came from C: which one, and as what.
OriginInv ==
    /\ role \notin {"setter", "result"}
    /\ spec = "nothing" => origin = "void" /\ value = NoValue
    /\ spec # "nothing" => /\ origin \in CValues(spec)
                          /\ \E from \in Roles : value = FromFfi(spec, from, origin)
    /\ stage \notin {"thrown", "aborted"} => value # Unreadable

StageInv ==
    /\ stage = "written" => spec = "none" /\ stored = "none" /\ origin = "none"
    /\ stage = "validated" =>
          /\ role # "setter"
          /\ spec = "none" /\ stored = "none" /\ origin = "none"
          /\ Normalized = "nothing" \/ Supported(Normalized)
    /\ stage = "unsupported" => origin = "none"
    /\ stage = "uncompiled" =>
          /\ origin = "none"
          /\ role = "result" /\ spelling = "return/arguments" /\ ParseTarget(type) = "string"
    /\ stage = "compiled" => role # "setter" /\ SpecInv
    /\ stage \in {"checked", "unconverted"} =>
          /\ role = "argument" /\ SpecInv
          /\ spec # "nothing" /\ JsAccepts(spec, value)
    /\ stage = "unconverted" => ToFfi(spec, "CallArg", value) = "invalid"
    /\ stage = "refused" /\ role # "setter" =>
          SpecInv /\ (spec = "nothing" \/ ~JsAccepts(spec, value))
    /\ stage = "passed" /\ role # "setter" =>
          /\ role = "argument" /\ SpecInv /\ spec # "nothing"
          /\ stored = ToFfi(spec, "CallArg", value) /\ stored # "invalid"
    /\ stage \in {"passed", "refused"} /\ role = "setter" => origin = "none" /\ spec = "none"
    /\ stage = "passed" /\ role = "setter" => SetterAccepts(type, value)
    /\ stage = "returned" =>
          /\ role = "result" /\ SpecInv /\ origin = "none"
          /\ stored = ToFfi(spec, "CallbackReturn", value) /\ stored # "invalid"
    /\ stage = "aborted" => role \in {"result", "parameter"}
    /\ stage \in {"received", "thrown"} => role # "setter" /\ SpecInv /\ origin # "none"
    /\ stage = "compiled" /\ role \in {"answer", "parameter", "result"} => origin = "none"
    /\ role = "setter" => stage \in {"written", "passed", "refused"}

MarshallingInv ==
    /\ TypeOK
    /\ StageInv
    /\ origin # "none" => OriginInv

-----------------------------------------------------------------------------
(* Each step preserves the invariant.                                      *)

LEMMA InitInv == Init => MarshallingInv
<1> SUFFICES ASSUME Init
             PROVE  MarshallingInv
    OBVIOUS
<1>1. TypeOK
    BY DEF Init, TypeOK, Roles, FromC, NoValue, Stages
<1>2. StageInv
    BY DEF Init, StageInv
<1> QED
    BY <1>1, <1>2 DEF Init, MarshallingInv

\* A definition validated is one that compiles, or declares nothing.
LEMMA ValidateInv ==
    ASSUME MarshallingInv, Validate
    PROVE  MarshallingInv'
<1> USE DEF MarshallingInv, Validate, Reach
<1>1. TypeOK'
    BY DEF TypeOK, Stages
<1>2. StageInv'
    BY DEF StageInv, Supported, Normalized
<1> QED
    BY <1>1, <1>2 DEF StageInv

\* A compiled definition has the native name of what it declares.
LEMMA CompileInv ==
    ASSUME MarshallingInv, CompileSignature
    PROVE  MarshallingInv'
<1> USE DEF MarshallingInv
<1>1. /\ role # "setter" /\ spec = "none" /\ stored = "none" /\ origin = "none"
      /\ Normalized = "nothing" \/ Supported(Normalized)
      /\ UNCHANGED <<spelling, role, type, value, charSigned, usize, stored, origin>>
      /\ stage' \in {"compiled", "uncompiled"}
    BY DEF CompileSignature, Reach, StageInv
<1>2. spec' \in NativeNames \cup {"nothing"}
    BY <1>1, SupportedCompiles DEF CompileSignature
<1>3. /\ stage' = "compiled" <=> ~(role = "result" /\ spec' = "string")
    BY <1>2, NativeTable DEF CompileSignature, Reach, CallbackResultAllowed, NativeNames
<1>4. spelling = "return/arguments" => Normalized # "nothing" /\ spec' = ParseTarget(type)
    BY NothingAssumption DEF CompileSignature, Normalized, TypeOK, Setters, SetterNumbers, SetterBigInts
<1>5. spelling # "return/arguments" => spec' \in {"void", "nothing"}
    BY DEF CompileSignature, Normalized, ParseTarget, Targets
<1>6. ParseTarget(type)' = ParseTarget(type)
    BY <1>1 DEF ParseTarget
<1>7. role = "result" => spec' # "nothing"
    BY <1>2, <1>4, ParseGivesNative, NativeTable DEF CompileSignature, Normalized, ParseTarget, Targets
<1>8. TypeOK'
    BY <1>1, <1>2, NativeTable DEF TypeOK, Stages
<1>9. ASSUME stage' = "compiled"
      PROVE  SpecInv'
    BY <1>1, <1>2, <1>3, <1>4, <1>5, <1>6, <1>7, <1>9 DEF SpecInv
<1>10. ASSUME stage' = "uncompiled"
       PROVE  role = "result" /\ spelling = "return/arguments" /\ ParseTarget(type)' = "string"
    BY <1>1, <1>3, <1>4, <1>5, <1>6, <1>10
<1>11. StageInv'
    BY <1>1, <1>9, <1>10 DEF StageInv
<1> QED
    BY <1>1, <1>8, <1>11

\* What the wrapper lets through is what the validator of its type takes.
LEMMA CheckInv ==
    ASSUME MarshallingInv, CheckArgument
    PROVE  MarshallingInv'
<1> USE DEF MarshallingInv
<1>1. /\ role = "argument" /\ SpecInv
      /\ UNCHANGED <<spelling, role, type, value, charSigned, usize, spec, stored, origin>>
      /\ \/ stage' = "checked" /\ spec # "nothing" /\ JsAccepts(spec, value)
         \/ stage' = "refused" /\ (spec = "nothing" \/ ~JsAccepts(spec, value))
    BY DEF CheckArgument, Reach, StageInv
<1>2. TypeOK'
    BY <1>1 DEF TypeOK, Stages
<1>3. SpecInv'
    BY <1>1 DEF SpecInv, ParseTarget
<1>4. StageInv'
    BY <1>1, <1>3, SamePlatform DEF StageInv
<1>5. origin # "none" => OriginInv'
    BY <1>1, SamePlatform DEF OriginInv, CheckArgument
<1> QED
    BY <1>1, <1>2, <1>4, <1>5

LEMMA ConvertArgumentInv ==
    ASSUME MarshallingInv, ConvertArgument
    PROVE  MarshallingInv'
<1> USE DEF MarshallingInv
<1>1. /\ role = "argument" /\ SpecInv /\ spec # "nothing" /\ JsAccepts(spec, value)
      /\ UNCHANGED <<spelling, role, type, value, charSigned, usize, spec, origin>>
      /\ stored' = ToFfi(spec, "CallArg", value)
      /\ stage' = IF stored' = "invalid" THEN "unconverted" ELSE "passed"
    BY DEF ConvertArgument, Reach, StageInv
<1>2. TypeOK'
    BY <1>1, ConversionOutcomes DEF TypeOK, Stages, SpecInv
<1>3. SpecInv'
    BY <1>1 DEF SpecInv, ParseTarget
<1>4. StageInv'
    BY <1>1, <1>3, SamePlatform DEF StageInv
<1>5. origin # "none" => OriginInv'
    BY <1>1, SamePlatform DEF OriginInv, ConvertArgument
<1> QED
    BY <1>1, <1>2, <1>4, <1>5

LEMMA ConvertResultInv ==
    ASSUME MarshallingInv, ConvertResult
    PROVE  MarshallingInv'
<1> USE DEF MarshallingInv
<1>1. /\ role = "result" /\ SpecInv /\ origin = "none"
      /\ UNCHANGED <<spelling, role, type, value, charSigned, usize, spec, origin>>
      /\ stored' = ToFfi(spec, "CallbackReturn", value)
      /\ stage' = IF stored' = "invalid" THEN "aborted" ELSE "returned"
    BY DEF ConvertResult, Reach, StageInv
<1>2. spec # "nothing"
    BY <1>1 DEF SpecInv
<1>3. TypeOK'
    BY <1>1, <1>2, ConversionOutcomes DEF TypeOK, Stages, SpecInv
<1>4. SpecInv'
    BY <1>1 DEF SpecInv, ParseTarget
<1>5. StageInv'
    BY <1>1, <1>4, SamePlatform DEF StageInv
<1> QED
    BY <1>1, <1>3, <1>5

\* What C gives becomes a value of the program, or an error; the program may
\* pass the value back.
LEMMA ReceiveInv ==
    ASSUME MarshallingInv, NEW c, ReceiveFromC(c), c # "none"
    PROVE  MarshallingInv'
<1> USE DEF MarshallingInv
<1>1. /\ role \in {"answer", "parameter"} /\ SpecInv /\ origin = "none" /\ origin' = c
      /\ UNCHANGED <<spelling, role, type, charSigned, usize, spec, stored>>
      /\ spec = "nothing" => c = "void" /\ value' = NoValue
      /\ spec # "nothing" => c \in CValues(spec) /\ value' = FromFfi(spec, role, c)
      /\ stage' = IF value' # Unreadable THEN "received"
                  ELSE IF role = "answer" THEN "thrown" ELSE "aborted"
    BY DEF ReceiveFromC, StageInv
<1>2. value' \in FromC
    <2>1. CASE spec = "nothing"
        BY <1>1, <2>1 DEF FromC, NoValue
    <2>2. CASE spec # "nothing"
        BY <1>1, <2>2, GivenIsValue DEF SpecInv
    <2> QED
        BY <2>1, <2>2
<1>3. TypeOK'
    BY <1>1, <1>2 DEF TypeOK, Stages
<1>4. SpecInv'
    BY <1>1 DEF SpecInv, ParseTarget
<1>5. StageInv'
    BY <1>1, <1>4, SamePlatform DEF StageInv
<1>6. OriginInv'
    BY <1>1, SamePlatform DEF OriginInv, Roles
<1> QED
    BY <1>3, <1>5, <1>6

LEMMA PassBackInv ==
    ASSUME MarshallingInv, PassBack
    PROVE  MarshallingInv'
<1> USE DEF MarshallingInv
<1>1. /\ role # "setter" /\ SpecInv /\ origin # "none" /\ OriginInv
      /\ UNCHANGED <<spelling, type, value, charSigned, usize, spec, stored, origin>>
      /\ stage = "received" /\ stage' = "compiled" /\ role' = "argument"
    BY DEF PassBack, StageInv
<1>2. TypeOK'
    BY <1>1 DEF TypeOK, Stages, Roles
<1>3. SpecInv'
    BY <1>1 DEF SpecInv, ParseTarget
<1>4. StageInv'
    BY <1>1, <1>3, SamePlatform DEF StageInv
<1>5. OriginInv'
    BY <1>1, SamePlatform DEF OriginInv
<1> QED
    BY <1>2, <1>4, <1>5

LEMMA StoreInv ==
    ASSUME MarshallingInv, StoreValue
    PROVE  MarshallingInv'
<1> USE DEF MarshallingInv
<1>1. /\ role = "setter" /\ origin = "none" /\ stored = "none" /\ spec = "none"
      /\ UNCHANGED <<spelling, role, type, value, charSigned, usize, spec, origin>>
      /\ \/ stage' = "passed" /\ SetterAccepts(type, value) /\ stored' = "value"
         \/ stage' = "refused" /\ stored' = stored
    BY DEF StoreValue, Reach, StageInv
<1>2. TypeOK'
    BY <1>1 DEF TypeOK, Stages
<1>3. StageInv'
    BY <1>1 DEF StageInv
<1> QED
    BY <1>1, <1>2, <1>3

LEMMA StutterInv ==
    ASSUME MarshallingInv, UNCHANGED vars
    PROVE  MarshallingInv'
BY SamePlatform DEF MarshallingInv, vars, TypeOK, StageInv, OriginInv, SpecInv, Normalized, ParseTarget

LEMMA NextInv ==
    ASSUME MarshallingInv, [Next]_vars
    PROVE  MarshallingInv'
<1>1. "none" \notin Integral \cup {"fraction", "NaN", "Infinity", "NULL", "UTF-8", "other bytes", "void"}
    BY DEF Integral, Limits
<1> QED
    BY <1>1, ValidateInv, CompileInv, CheckInv, ConvertArgumentInv, ConvertResultInv, ReceiveInv, PassBackInv,
       StoreInv, StutterInv DEF Next

-----------------------------------------------------------------------------
(* What the invariant implies.                                             *)

LEMMA InvImpliesFit == MarshallingInv => IntegersFit
<1> SUFFICES ASSUME MarshallingInv, stage \in {"passed", "returned"},
                    NEW declared, declared = IF role = "setter" THEN type ELSE Normalized
             PROVE  /\ declared \in DOMAIN CInteger => Within(value.at, CInteger[declared])
                    /\ spec \in NativePointers \cup {"string"} /\ value.kind = "bigint" =>
                          Within(value.at, usize)
    BY DEF IntegersFit
<1>1. role # "setter" =>
          /\ SpecInv
          /\ \E ctx \in {"CallArg", "CallbackReturn"} : ToFfi(spec, ctx, value) # "invalid"
    BY DEF MarshallingInv, StageInv
<1>2. ASSUME role = "setter", declared \in DOMAIN CInteger
      PROVE  Within(value.at, CInteger[declared])
    BY <1>2, SetterRanges DEF MarshallingInv, StageInv
<1>3. ASSUME role # "setter", declared \in DOMAIN CInteger
      PROVE  Within(value.at, CInteger[declared])
    <2>1. spelling = "return/arguments" /\ declared = type
        BY <1>3 DEF Normalized, CInteger
    <2> QED
        BY <1>1, <1>3, <2>1, IntegerRanges, ConvertedFits DEF SpecInv
<1>4. ASSUME spec \in NativePointers \cup {"string"}, value.kind = "bigint"
      PROVE  Within(value.at, usize)
    <2>1. role # "setter"
        BY <1>4 DEF MarshallingInv, StageInv, NativePointers
    <2> QED
        BY <1>1, <1>4, <2>1, ConvertedPointerFits
<1> QED
    BY <1>2, <1>3, <1>4

LEMMA InvImpliesReceived == MarshallingInv => ReceivedCanBePassedBack
<1> SUFFICES ASSUME MarshallingInv, origin \notin {"none", "void"}
             PROVE  /\ stage \notin {"refused", "unconverted"}
                    /\ stage = "passed" /\ spec # "string" =>
                          stored \in {"value", "address"} /\ value.at = origin
                    /\ stage = "passed" /\ spec = "string" =>
                          stored = IF origin = "NULL" THEN "null" ELSE "temporary"
    BY DEF ReceivedCanBePassedBack
<1>1. OriginInv /\ role \notin {"setter", "result"}
    BY DEF MarshallingInv, OriginInv
<1> SUFFICES ASSUME stage \in {"refused", "unconverted", "passed"}
             PROVE  /\ stage = "passed"
                    /\ spec # "string" => stored \in {"value", "address"} /\ value.at = origin
                    /\ spec = "string" => stored = IF origin = "NULL" THEN "null" ELSE "temporary"
    BY DEF Stages
<1>2. SpecInv
    BY <1>1 DEF MarshallingInv, StageInv
<1>3. spec \in NativeNames \ {"void"}
    BY <1>1, <1>2 DEF OriginInv, SpecInv, CValues, NativeNumberRange, NativeBigIntRange, NativePointers
<1>4. PICK from \in Roles : value = FromFfi(spec, from, origin)
    BY <1>1, <1>3, NativeTable DEF OriginInv
<1>5. origin \in CValues(spec) /\ value # Unreadable
    BY <1>1, <1>3, NativeTable DEF OriginInv
<1>6. /\ spec # "string" => ToFfi(spec, "CallArg", value) \in {"value", "address"} /\ value.at = origin
      /\ spec = "string" => ToFfi(spec, "CallArg", value) = IF origin = "NULL" THEN "null" ELSE "temporary"
    BY <1>3, <1>4, <1>5, ReceivedConvertsBack DEF MarshallingInv, TypeOK
<1>7. stage # "refused"
    BY <1>1, <1>3, <1>4, <1>5, ReceivedIsAccepted, NativeTable
       DEF MarshallingInv, StageInv, TypeOK
<1>8. stage # "unconverted"
    BY <1>6 DEF MarshallingInv, StageInv
<1> QED
    BY <1>1, <1>6, <1>7, <1>8 DEF MarshallingInv, StageInv

LEMMA AlikeCompileAlike ==
    ASSUME NEW t, NEW u, Supported(u), CanonicalTypeName(t) = CanonicalTypeName(u)
    PROVE  ParseTarget(t) = ParseTarget(u)
<1>1. Supported(t)
    BY DEF Supported
<1> QED
    BY <1>1, AliasCompilesAlike

-----------------------------------------------------------------------------
(* Theorems.                                                               *)

\* The invariant is inductive: every reachable state satisfies it.
THEOREM MarshallingInductive == Spec => []MarshallingInv
BY InitInv, NextInv, PTL DEF Spec

\* Every variable keeps its type: the stages, native names and outcomes are the
\* ones the code has.
THEOREM TypeCorrect == Spec => []TypeOK
<1>1. MarshallingInv => TypeOK
    BY DEF MarshallingInv
<1> QED
    BY <1>1, MarshallingInductive, PTL

\* An integer that reaches C, as an argument, a callback's result or a value
\* written to memory, is one the declared C type can represent, and a bigint
\* that reaches it as a pointer one that the platform's pointers can,
\* whatever value the program passed.
THEOREM IntegersAreNotTruncated == Spec => []IntegersFit
BY InvImpliesFit, MarshallingInductive, PTL

\* A definition that the JavaScript layer accepts compiles, whatever type names
\* are used, unless it is of a callback that returns a string.
THEOREM ValidatedDefinitionsCompile == Spec => []ValidatedCompiles
<1>1. MarshallingInv => ValidatedCompiles
    BY StringName DEF MarshallingInv, StageInv, ValidatedCompiles
<1> QED
    BY <1>1, MarshallingInductive, PTL

\* A value that the wrapper's validator accepts converts natively, unless the
\* argument is void, the value a text with a NUL, or pointers have 32 bits and
\* the value is a bigint that needs more: the validators do not know the
\* platform.
THEOREM CheckedValuesConvert == Spec => []CheckedConverts
<1>1. MarshallingInv => CheckedConverts
    <2> SUFFICES ASSUME MarshallingInv, stage = "unconverted", spec # "void", value.kind # "nulString"
                 PROVE  /\ spec \in NativePointers \cup {"string"}
                        /\ value.kind = "bigint" /\ usize = UInt32 /\ ~Within(value.at, UInt32)
        BY DEF CheckedConverts
    <2>1. /\ spec \in NativeNames /\ JsAccepts(spec, value)
          /\ ToFfi(spec, "CallArg", value) = "invalid"
        BY DEF MarshallingInv, StageInv, SpecInv
    <2>2. spec \in NativePointers \cup {"string"} /\ value.kind = "bigint" /\ ~Within(value.at, usize)
        BY <2>1, ValidatedConverts
    <2>3. Within(value.at, UInt64)
        BY <2>1, <2>2 DEF JsAccepts, NativePointers, JsNumberRange, JsBigIntRange, JsFloats, JsPointers
    <2> QED
        BY <2>2, <2>3 DEF MarshallingInv, TypeOK
<1> QED
    BY <1>1, MarshallingInductive, PTL

\* A callback never returns to C the address of bytes that are freed by then.
THEOREM ResultsDoNotDangle == Spec => []NoDanglingResult
<1>1. MarshallingInv => NoDanglingResult
    BY ResultsAreNotTemporary DEF MarshallingInv, StageInv, SpecInv, NoDanglingResult
<1> QED
    BY <1>1, MarshallingInductive, PTL

\* What a program received from C it can pass back, and C gets what it gave.
THEOREM ReceivedValuesReturn == Spec => []ReceivedCanBePassedBack
BY InvImpliesReceived, MarshallingInductive, PTL

\* Definitions with one cache key have one native signature.
THEOREM CacheKeysAreSound == Spec => []SameKeySameSignature
<1>1. SameKeySameSignature
    BY AlikeCompileAlike DEF SameKeySameSignature
<1> QED
    BY <1>1, PTL
=============================================================================
