------------------------------- MODULE Memory -------------------------------
(***************************************************************************)
(* The raw memory helpers: src/lib/internal/ffi-memory.js over             *)
(* src/src/memory.rs.  One request goes through the checks of both layers, *)
(* the conversions of its numbers between them, and the writes it makes.   *)
(*                                                                         *)
(* Pointers are bigints, lengths and offsets JavaScript numbers, and the   *)
(* native side sees them as u64, u32 and i64 before it adds them as usize. *)
(* The ranges of these types are constants, and usize is one of the        *)
(* platform, so that a small instance has every boundary of the real ones. *)
(***************************************************************************)
EXTENDS Integers

CONSTANTS
    Platforms,   \* [usize, maxLength]: usize::MAX + 1, buffer.constants.MAX_LENGTH
    U64Range,    \* 2^64
    U32Range,    \* 2^32
    I64Max,      \* i64::MAX
    Sizes,       \* bytes of the types that are read and written
    MaxSource    \* bound on the bytes a program exports

ASSUME RangeAssumption ==
    /\ {U64Range, U32Range, I64Max, MaxSource} \cup Sizes \subseteq Nat \ {0}
    /\ I64Max < U64Range
    /\ \A p \in Platforms : /\ {p.usize, p.maxLength} \subseteq Nat \ {0}
                           /\ U32Range <= p.usize /\ p.usize <= U64Range

VARIABLES
    platform, \* where the program runs
    request,  \* what the program asked for
    stage,    \* how far it came, or how it ended
    target,   \* the bytes the native side accesses, or gives a buffer of
    memory    \* the bytes of the process, by where they came from

vars == <<platform, request, stage, target, memory>>

-----------------------------------------------------------------------------
(* JavaScript numbers: whole + 1/2 for a fraction.                         *)

Numbers == [kind: {"integer", "fraction"}, whole: -2 .. U64Range]
             \cup [kind: {"NaN", "Infinity"}, whole: {0}]

Less(x, n) == x.kind \in {"integer", "fraction"} /\ x.whole < n
Greater(x, n) == \/ x.kind = "integer" /\ x.whole > n
                 \/ x.kind = "fraction" /\ x.whole >= n
                 \/ x.kind = "Infinity"

Finite(x) == x.kind \in {"integer", "fraction"}
Truncated(x) == IF x.kind = "fraction" /\ x.whole < 0 THEN x.whole + 1 ELSE x.whole

\* napi_get_value_uint32 wraps, napi_get_value_int64 saturates; both take what
\* is not finite for zero.
ToU32(x) == IF Finite(x) THEN Truncated(x) % U32Range ELSE 0
ToI64(x) ==
    LET n == Truncated(x) IN
    IF ~Finite(x) THEN 0
    ELSE IF n > I64Max THEN I64Max ELSE IF n < -I64Max - 1 THEN -I64Max - 1 ELSE n

-----------------------------------------------------------------------------
(* Requests and memory.                                                    *)

Pointers == -1 .. U64Range
Addresses == 0 .. platform.usize - 1

\* exportBuffer, exportArrayBuffer and exportArrayBufferView; exportString,
\* whose encoding has a terminator of one or two bytes; toBuffer and
\* toArrayBuffer; the getters, whose offset is optional, and the setters.
Absent == [kind |-> "undefined", whole |-> 0]
Exports ==
    [op: {"exportBytes"}, pointer: Pointers, len: Numbers, source: 0 .. MaxSource, unit: {0}]
Strings ==
    {r \in [op: {"exportString"}, pointer: Pointers, len: Numbers, source: 0 .. MaxSource,
            unit: {1, 2}] : r.source % r.unit = 0}
Buffers == [op: {"toBuffer"}, pointer: Pointers, len: Numbers, copy: BOOLEAN]
Accesses ==
    [op: {"get", "set"}, pointer: Pointers, size: Sizes, offset: Numbers]
      \cup [op: {"get"}, pointer: Pointers, size: Sizes, offset: {Absent}]

IsExport == request.op \in {"exportBytes", "exportString"}

\* size bytes from start on.
Range(start, size) == [start |-> start, size |-> size]
Nowhere == Range(0, 0)
In(address, range) == range.start <= address /\ address < range.start + range.size

TypeOK ==
    /\ platform \in Platforms
    /\ request \in Exports \cup Strings \cup Buffers \cup Accesses
    /\ stage \in {"asked", "checked", "viewed", "copied", "done", "refused", "tooShort"}
    /\ target.start \in Addresses /\ target.size \in Nat
    /\ memory \in [Addresses -> {"old", "data", "zero"}]

-----------------------------------------------------------------------------
(* Native: which bytes a request accesses, or that it is refused.          *)

\* bigint_to_u64, and usize::try_from.
IsU64(pointer) == 0 <= pointer /\ pointer < U64Range
IsUsize(n) == n < platform.usize

\* Mutation: the end of the range is one byte too far.
CheckedAddrPastEnd(pointer, offset, size) ==
    /\ IsU64(pointer)
    /\ pointer # 0
    /\ offset >= 0
    /\ IsUsize(pointer) /\ IsUsize(offset)
    /\ IsUsize(pointer + offset + size)

\* The offset checked_addr sees: offset.unwrap_or(0).
Offset == IF request.offset = Absent THEN 0 ELSE ToI64(request.offset)

\* checked_addr.
CheckedAddr(pointer, offset, size) ==
    /\ IsU64(pointer)
    /\ pointer # 0
    /\ offset >= 0
    /\ IsUsize(pointer) /\ IsUsize(offset)
    /\ IsUsize(pointer + offset)
    /\ IsUsize(pointer + offset + (size - 1))

\* Mutation: the pointer may have lost high words.
CheckedRangeAnyPointer(pointer, len) ==
    /\ pointer >= 0
    /\ pointer = 0 => len = 0

\* Mutation: len instead of len.saturating_sub(1).
CheckedRangePastEnd(pointer, len) ==
    /\ IsU64(pointer)
    /\ IsUsize(pointer)
    /\ pointer = 0 => len = 0
    /\ IsUsize(pointer + len)

\* to_buffer and to_array_buffer: len.saturating_sub(1) is 0 for 0.
CheckedRange(pointer, len) ==
    /\ IsU64(pointer)
    /\ IsUsize(pointer)
    /\ pointer = 0 => len = 0
    /\ IsUsize(pointer + (IF len = 0 THEN 0 ELSE len - 1))

-----------------------------------------------------------------------------
(* JavaScript: what is checked before the native call.                     *)

ValidPointer(pointer) == pointer >= 0
ValidLength(len) == len.kind = "integer" /\ ~Less(len, 0) /\ ~Greater(len, platform.maxLength)

\* exportString checks neither; it compares len with what it needs.
Required == request.source + request.unit

Init ==
    /\ platform \in Platforms
    /\ request \in Exports \cup Strings \cup Buffers \cup Accesses
    /\ IsExport => request.source <= platform.maxLength
    /\ stage = "asked"
    /\ target = Nowhere
    /\ memory = [a \in Addresses |-> "old"]

Stay == UNCHANGED <<platform, request, memory>>

CheckBytes ==
    /\ stage = "asked"
    /\ request.op \in {"exportBytes", "toBuffer"}
    /\ IF /\ ValidPointer(request.pointer) /\ ValidLength(request.len)
          /\ request.op = "exportBytes" =>
                ~(request.pointer = 0 /\ Greater(request.len, 0))
       THEN stage' = "checked" ELSE stage' = "refused"
    /\ UNCHANGED target /\ Stay

\* Mutation: the terminator is not counted.
CheckStringWithoutTerminator ==
    /\ stage = "asked"
    /\ request.op = "exportString"
    /\ stage' = IF Less(request.len, request.source) THEN "tooShort" ELSE "checked"
    /\ UNCHANGED target /\ Stay

CheckString ==
    /\ stage = "asked"
    /\ request.op = "exportString"
    /\ stage' = IF Less(request.len, Required) THEN "tooShort" ELSE "checked"
    /\ UNCHANGED target /\ Stay

\* Mutation: the view is as long as the source, not as the caller's len.
MakeBufferForSource ==
    /\ stage = "checked"
    /\ LET len == IF IsExport THEN request.source + request.unit ELSE ToU32(request.len) IN
       IF CheckedRange(request.pointer, len)
       THEN /\ target' = Range(request.pointer, len)
            /\ stage' = IF request.op = "toBuffer" THEN "done" ELSE "viewed"
       ELSE /\ stage' = "refused"
            /\ UNCHANGED target
    /\ Stay

\* The length crosses to the native side.  An export writes to a view, which
\* Node-API may refuse to make at null even if it is empty.
MakeBuffer ==
    /\ stage = "checked"
    /\ LET len == ToU32(request.len) IN
       IF CheckedRange(request.pointer, len)
       THEN /\ target' = Range(request.pointer, len)
            /\ stage' = IF request.op = "toBuffer" THEN "done" ELSE "viewed"
       ELSE /\ stage' = "refused"
            /\ UNCHANGED target
    /\ Stay

NullView ==
    /\ stage = "checked"
    /\ request.pointer = 0
    /\ request.op = "toBuffer" => ~request.copy
    /\ stage' = "refused"
    /\ UNCHANGED target /\ Stay

Written(from, size, byte) ==
    [a \in Addresses |-> IF In(a, Range(from, size)) THEN byte ELSE memory[a]]

\* source.copy stops where the target ends.
CopyLength == IF request.source <= target.size THEN request.source ELSE target.size

\* Mutation: the source is cut to the length of the view.
CopyWhatFits ==
    /\ stage = "viewed"
    /\ memory' = Written(target.start, CopyLength, "data")
    /\ stage' = IF request.op = "exportBytes" THEN "done" ELSE "copied"
    /\ UNCHANGED <<platform, request, target>>

\* Only exportBytes compares the source with the view it got.
CopySource ==
    /\ stage = "viewed"
    /\ IF request.op = "exportBytes" /\ request.source > target.size
       THEN /\ stage' = "tooShort"
            /\ UNCHANGED memory
       ELSE /\ memory' = Written(target.start, CopyLength, "data")
            /\ stage' = IF request.op = "exportBytes" THEN "done" ELSE "copied"
    /\ UNCHANGED <<platform, request, target>>

\* target.fill throws if its end lies beyond the target.
FillTerminator ==
    /\ stage = "copied"
    /\ IF Required > target.size
       THEN /\ stage' = "tooShort"
            /\ UNCHANGED memory
       ELSE /\ memory' = Written(target.start + request.source, request.unit, "zero")
            /\ stage' = "done"
    /\ UNCHANGED <<platform, request, target>>

\* A getter or setter of an integer or float of the requested size.
Access ==
    /\ stage = "asked"
    /\ request.op \in {"get", "set"}
    /\ LET at == request.pointer + Offset IN
       IF CheckedAddr(request.pointer, Offset, request.size)
       THEN /\ target' = Range(at, request.size)
            /\ memory' = IF request.op = "set" THEN Written(at, request.size, "data") ELSE memory
            /\ stage' = "done"
       ELSE /\ stage' = "refused"
            /\ UNCHANGED <<target, memory>>
    /\ UNCHANGED <<platform, request>>

Next == CheckBytes \/ CheckString \/ MakeBuffer \/ NullView \/ CopySource \/ FillTerminator \/ Access

Spec == Init /\ [][Next]_vars

-----------------------------------------------------------------------------
(* Properties.                                                             *)

\* A length that means the same to both layers.
SmallLength == Less(request.len, U32Range) /\ ~Less(request.len, 0)

\* An export writes only inside the bytes its caller granted, pointer and len;
\* a length that is not a number grants nothing.
WritesStayInside ==
    IsExport => \A a \in Addresses : memory[a] # "old" =>
        /\ request.pointer <= a
        /\ Finite(request.len) /\ ~Less(request.len, a - request.pointer + 1)

\* An export that succeeds has written all of its source and its terminator,
\* however its length was converted.
WrittenWhole ==
    IsExport /\ stage = "done" =>
        \A a \in Addresses :
            /\ In(a, Range(request.pointer, request.source)) => memory[a] = "data"
            /\ In(a, Range(request.pointer + request.source, request.unit)) => memory[a] = "zero"
            /\ request.pointer + Required <= platform.usize

\* An export that throws has written nothing: exportBytes whatever its length,
\* exportString unless its length is changed by the conversion to u32.
RefusedWritesNothing ==
    /\ stage \in {"refused", "tooShort"}
    /\ request.op = "exportString" => SmallLength
    => \A a \in Addresses : memory[a] = "old"

\* A getter or setter with an integral offset, or a getter with none, which is
\* an offset of 0, accesses exactly its bytes, and does so whenever they all lie
\* in the address space: the last byte can be accessed, the one after it cannot,
\* and no sum wraps around to low memory.
AccessExact ==
    /\ request.op \in {"get", "set"}
    /\ stage # "asked"
    /\ request.offset.kind \in {"integer", "undefined"} /\ request.offset.whole <= I64Max
    => LET at == request.pointer + request.offset.whole IN
       IF /\ request.pointer > 0 /\ request.offset.whole >= 0
          /\ at + request.size <= platform.usize
       THEN stage = "done" /\ target = Range(at, request.size)
       ELSE stage = "refused"

\* toBuffer and toArrayBuffer give exactly the bytes asked for, and refuse only
\* what is not a range of memory, or an empty view at null.
BufferExact ==
    /\ request.op = "toBuffer"
    /\ stage \in {"done", "refused"}
    /\ SmallLength
    => IF /\ request.len.kind = "integer" /\ ~Greater(request.len, platform.maxLength)
          /\ request.pointer >= 0 /\ IsUsize(request.pointer)
          /\ request.pointer = 0 => request.len.whole = 0 /\ request.copy
          /\ request.pointer + request.len.whole <= platform.usize
       THEN stage = "done" /\ target = Range(request.pointer, request.len.whole)
       ELSE stage = "refused" \/ (request.pointer = 0 /\ target.size = 0)

\* An error that says len is too short is true: len is less than is required.
TooShortIsTrue ==
    request.op = "exportBytes" /\ stage = "tooShort" => Less(request.len, Required)
=============================================================================
