---------------------------- MODULE Memory_proofs ----------------------------
(***************************************************************************)
(* Proofs about Memory, for any ranges of the machine types.               *)
(***************************************************************************)
EXTENDS Memory, TLAPS

-----------------------------------------------------------------------------
(* The inductive invariant.                                                *)

AllOld == \A a \in Addresses : memory[a] = "old"

\* A request has passed the checks of the JavaScript layer.
Checked ==
    /\ request.op \in {"exportBytes", "exportString", "toBuffer"}
    /\ request.op \in {"exportBytes", "toBuffer"} =>
          ValidPointer(request.pointer) /\ ValidLength(request.len)
    /\ request.op = "exportString" => ~Less(request.len, Required)

\* An export has a view of the bytes it was granted.
Viewed ==
    /\ IsExport
    /\ Checked
    /\ target = Range(request.pointer, ToU32(request.len))
    /\ CheckedRange(request.pointer, target.size)

\* exportString has written its source, or what fits of it.
SourceWritten ==
    /\ request.op = "exportString"
    /\ Viewed
    /\ \A a \in Addresses :
          memory[a] = IF In(a, Range(target.start, CopyLength)) THEN "data" ELSE "old"

StageInv ==
    /\ stage = "asked" => AllOld
    /\ stage = "checked" => AllOld /\ Checked
    /\ stage = "viewed" => AllOld /\ Viewed
    /\ stage = "copied" => SourceWritten

MemoryInv ==
    /\ TypeOK
    /\ StageInv
    /\ WritesStayInside
    /\ WrittenWhole
    /\ RefusedWritesNothing
    /\ AccessExact
    /\ BufferExact

-----------------------------------------------------------------------------
(* Requests and their numbers.                                             *)

\* The ranges are numbers, and nested as the machine types are.
LEMMA Ranges ==
    ASSUME TypeOK
    PROVE  /\ U64Range \in Nat \ {0} /\ U32Range \in Nat \ {0} /\ I64Max \in Nat \ {0}
           /\ MaxSource \in Nat /\ \A s \in Sizes : s \in Nat \ {0}
           /\ platform.usize \in Nat \ {0} /\ platform.maxLength \in Nat \ {0}
           /\ U32Range <= platform.usize /\ platform.usize <= U64Range
           /\ Addresses \subseteq Nat /\ 0 \in Addresses
<1>1. /\ U64Range \in Nat \ {0} /\ U32Range \in Nat \ {0} /\ I64Max \in Nat \ {0}
      /\ MaxSource \in Nat /\ \A s \in Sizes : s \in Nat \ {0}
    BY RangeAssumption
<1>2. /\ platform.usize \in Nat \ {0} /\ platform.maxLength \in Nat \ {0}
      /\ U32Range <= platform.usize /\ platform.usize <= U64Range
    BY RangeAssumption DEF TypeOK
<1>3. Addresses \subseteq Nat /\ 0 \in Addresses
    BY <1>2 DEF Addresses
<1> QED
    BY <1>1, <1>2, <1>3

\* A JavaScript number: what it is, and its whole part.
LEMMA NumberProperties ==
    ASSUME TypeOK, NEW x \in Numbers
    PROVE  /\ x.whole \in Int
           /\ x.kind \in {"integer", "fraction", "NaN", "Infinity"}
           /\ Truncated(x) \in Int
           /\ x.whole >= 0 => Truncated(x) = x.whole
<1>1. x.whole \in Int /\ x.kind \in {"integer", "fraction", "NaN", "Infinity"}
    BY Ranges DEF Numbers
<1> QED
    BY <1>1 DEF Truncated

\* The remainder of a division, as a u32 conversion takes it.
LEMMA Remainder ==
    ASSUME NEW x \in Nat, NEW n \in Nat \ {0}
    PROVE  x % n \in Nat /\ x % n < n /\ x % n <= x /\ (x < n => x % n = x)
OBVIOUS

\* A u32 conversion never makes a length longer, and keeps what fits.
LEMMA ToU32Properties ==
    ASSUME TypeOK, NEW x \in Numbers, Finite(x) => x.whole >= 0
    PROVE  /\ ToU32(x) \in Nat
           /\ ~Finite(x) => ToU32(x) = 0
           /\ Finite(x) => ToU32(x) <= x.whole
           /\ Finite(x) /\ x.whole < U32Range => ToU32(x) = x.whole
<1>1. CASE ~Finite(x)
    BY <1>1 DEF ToU32
<1>2. CASE Finite(x)
    <2>1. Truncated(x) = x.whole /\ x.whole \in Nat
        BY <1>2, NumberProperties
    <2>2. ToU32(x) = x.whole % U32Range
        BY <1>2, <2>1 DEF ToU32
    <2> QED
        BY <1>2, <2>1, <2>2, Remainder, Ranges
<1> QED
    BY <1>1, <1>2

\* The fields of a request, by its operation.
LEMMA RequestFields ==
    ASSUME TypeOK
    PROVE  /\ request.op \in {"exportBytes", "exportString", "toBuffer", "get", "set"}
           /\ request.pointer \in Int /\ request.pointer <= U64Range
           /\ request.op \in {"exportBytes", "exportString", "toBuffer"} => request.len \in Numbers
           /\ IsExport => request.source \in Nat /\ request.unit \in Nat /\ Required \in Nat
           /\ request.op = "exportBytes" => request.unit = 0
           /\ request.op = "exportString" => request.unit > 0
           /\ request.op = "toBuffer" => request.copy \in BOOLEAN
           /\ request.op \in {"get", "set"} => request.size \in Nat \ {0} /\ request.offset \in Numbers \cup {Absent}
<1>1. U64Range \in Nat /\ MaxSource \in Nat /\ \A s \in Sizes : s \in Nat \ {0}
    BY Ranges
<1>2. CASE request \in Exports
    BY <1>1, <1>2 DEF Exports, Pointers, IsExport, Required
<1>3. CASE request \in Strings
    BY <1>1, <1>3 DEF Strings, Pointers, IsExport, Required
<1>4. CASE request \in Buffers
    BY <1>1, <1>4 DEF Buffers, Pointers, IsExport
<1>5. CASE request \in Accesses
    BY <1>1, <1>5 DEF Accesses, Pointers, IsExport
<1> QED
    BY <1>2, <1>3, <1>4, <1>5 DEF TypeOK

\* A length that passed the checks is not negative.
LEMMA CheckedLength ==
    ASSUME TypeOK, Checked
    PROVE  /\ request.len \in Numbers
           /\ Finite(request.len) => request.len.whole >= 0
           /\ request.op = "exportString" /\ Finite(request.len) => request.len.whole >= Required
           /\ ToU32(request.len) \in Nat
<1>1. request.len \in Numbers /\ request.len.whole \in Int
    BY RequestFields, NumberProperties DEF Checked
<1>2. request.op \in {"exportBytes", "toBuffer"} /\ Finite(request.len)
         => request.len.whole >= 0
    BY <1>1 DEF Checked, ValidLength, Less, Finite
<1>3. request.op = "exportString" /\ Finite(request.len) => request.len.whole >= Required
    BY <1>1, RequestFields DEF Checked, Less, Finite, IsExport
<1>4. request.op = "exportString" => Required \in Nat
    BY RequestFields DEF IsExport
<1>5. Finite(request.len) => request.len.whole >= 0
    BY <1>1, <1>2, <1>3, <1>4 DEF Checked
<1> QED
    BY <1>1, <1>3, <1>5, ToU32Properties

\* What lies in a view was granted.
LEMMA ViewIsGranted ==
    ASSUME TypeOK, Viewed, NEW a \in Addresses, In(a, target)
    PROVE  /\ request.pointer <= a
           /\ Finite(request.len) /\ ~Less(request.len, a - request.pointer + 1)
<1>1. target.start = request.pointer /\ target.size = ToU32(request.len)
    BY DEF Viewed, Range
<1>2. request.pointer <= a /\ a < request.pointer + ToU32(request.len)
    BY <1>1 DEF In
<1>3. /\ request.pointer \in Int /\ a \in Nat
      /\ request.len \in Numbers /\ request.len.whole \in Int
      /\ Finite(request.len) => request.len.whole >= 0
      /\ ToU32(request.len) \in Nat
    BY RequestFields, Ranges, CheckedLength, NumberProperties DEF Viewed
<1>4. Finite(request.len) /\ ToU32(request.len) <= request.len.whole
    BY <1>2, <1>3, ToU32Properties
<1> QED
    BY <1>2, <1>3, <1>4 DEF Less

-----------------------------------------------------------------------------
(* Each kind of step preserves the invariant.                              *)

\* At first nothing is written and nothing is checked.
LEMMA InitMemory == Init => MemoryInv
<1> SUFFICES ASSUME Init PROVE MemoryInv
    OBVIOUS
<1>1. 0 \in Addresses
    BY RangeAssumption DEF Init, Addresses
<1>2. TypeOK
    BY <1>1 DEF Init, TypeOK, Nowhere, Range
<1>3. AllOld /\ stage = "asked"
    BY DEF Init, AllOld
<1>4. StageInv
    BY <1>3 DEF StageInv
<1> QED
    BY <1>2, <1>3, <1>4 DEF MemoryInv, AllOld, WritesStayInside, WrittenWhole,
        RefusedWritesNothing, AccessExact, BufferExact

\* A step of an export or a view that writes nothing, and does not end it well
\* if it is an export.
LEMMA QuietStep ==
    ASSUME MemoryInv, AllOld, Stay, TypeOK', StageInv',
           ~(request.op \in {"get", "set"}), IsExport => stage' # "done", BufferExact'
    PROVE  MemoryInv'
<1>1. platform' = platform /\ request' = request /\ memory' = memory
    BY DEF Stay
<1>2. AllOld'
    BY <1>1 DEF AllOld, Addresses
<1>3. WritesStayInside' /\ RefusedWritesNothing'
    BY <1>2 DEF AllOld, WritesStayInside, RefusedWritesNothing
<1>4. WrittenWhole' /\ AccessExact'
    BY <1>1 DEF WrittenWhole, AccessExact, IsExport
<1> QED
    BY <1>3, <1>4 DEF MemoryInv

\* The checks of the JavaScript layer: what they refuse is not a range.
LEMMA CheckStep ==
    ASSUME MemoryInv, CheckBytes \/ CheckString
    PROVE  MemoryInv'
<1>1. TypeOK /\ AllOld /\ stage = "asked"
    BY DEF MemoryInv, StageInv, CheckBytes, CheckString
<1>2. platform' = platform /\ request' = request /\ memory' = memory /\ target' = target
    BY DEF CheckBytes, CheckString, Stay
<1>3. stage' \in {"checked", "refused", "tooShort"} /\ (stage' = "tooShort" => IsExport)
    BY DEF CheckBytes, CheckString, IsExport
<1>4. TypeOK'
    BY <1>1, <1>2, <1>3 DEF TypeOK, Addresses, Exports, Strings, Buffers, Accesses
<1>5. stage' = "checked" => Checked
    BY DEF CheckBytes, CheckString, Checked
<1>6. Checked => Checked'
    BY <1>2 DEF Checked, ValidLength, Required
<1>7. AllOld'
    BY <1>1, <1>2 DEF AllOld, Addresses
<1>8. StageInv'
    BY <1>3, <1>5, <1>6, <1>7 DEF StageInv
<1>9. BufferExact'
    <2>1. SUFFICES ASSUME request.op = "toBuffer", stage' = "refused"
                   PROVE  ~(/\ request.len.kind = "integer" /\ ~Greater(request.len, platform.maxLength)
                            /\ request.pointer >= 0 /\ SmallLength)
        BY <1>2, <1>3 DEF BufferExact, SmallLength
    <2>2. ~ValidPointer(request.pointer) \/ ~ValidLength(request.len)
        BY <2>1 DEF CheckBytes, CheckString
    <2> QED
        BY <2>2 DEF ValidPointer, ValidLength, SmallLength
<1>10. ~(request.op \in {"get", "set"}) /\ stage' # "done"
    BY <1>3 DEF CheckBytes, CheckString
<1> QED
    BY <1>1, <1>4, <1>8, <1>9, <1>10, QuietStep DEF CheckBytes, CheckString

\* The native view: it is the range asked for, or there is no such range.
LEMMA ViewStep ==
    ASSUME MemoryInv, MakeBuffer \/ NullView
    PROVE  MemoryInv'
<1>1. TypeOK /\ AllOld /\ Checked
    BY DEF MemoryInv, StageInv, MakeBuffer, NullView
<1>2. platform' = platform /\ request' = request /\ memory' = memory
    BY DEF MakeBuffer, NullView, Stay
<1>3. /\ request.len \in Numbers /\ request.len.whole \in Int
      /\ ToU32(request.len) \in Nat /\ request.pointer \in Int
      /\ platform.usize \in Nat /\ platform.usize <= U64Range /\ U64Range \in Nat
      /\ platform.maxLength \in Nat
    BY <1>1, CheckedLength, RequestFields, NumberProperties, Ranges
<1>4. \/ /\ CheckedRange(request.pointer, ToU32(request.len))
         /\ target' = Range(request.pointer, ToU32(request.len))
         /\ stage' = IF request.op = "toBuffer" THEN "done" ELSE "viewed"
      \/ /\ ~CheckedRange(request.pointer, ToU32(request.len))
         /\ target' = target
         /\ stage' = "refused"
      \/ /\ request.pointer = 0 /\ (request.op = "toBuffer" => ~request.copy)
         /\ target' = target
         /\ stage' = "refused"
    BY DEF MakeBuffer, NullView
<1>5. CheckedRange(request.pointer, ToU32(request.len)) =>
         /\ request.pointer \in Addresses
         /\ request.pointer + ToU32(request.len) <= platform.usize
    BY <1>3 DEF CheckedRange, IsU64, IsUsize, Addresses
<1>6. TypeOK'
    <2>1. target'.start \in Addresses /\ target'.size \in Nat
        BY <1>1, <1>3, <1>4, <1>5 DEF TypeOK, Range
    <2>2. stage' \in {"asked", "checked", "viewed", "copied", "done", "refused", "tooShort"}
        BY <1>4
    <2> QED
        BY <1>1, <1>2, <2>1, <2>2 DEF TypeOK, Addresses, Exports, Strings, Buffers, Accesses
<1>7. AllOld'
    BY <1>1, <1>2 DEF AllOld, Addresses
<1>8. stage' = "viewed" => Viewed'
    <2>1. SUFFICES ASSUME stage' = "viewed" PROVE Viewed'
        OBVIOUS
    <2>2. /\ CheckedRange(request.pointer, ToU32(request.len))
          /\ target' = Range(request.pointer, ToU32(request.len))
          /\ request.op # "toBuffer"
        BY <1>4, <2>1
    <2>3. target'.size = ToU32(request.len)
        BY <2>2 DEF Range
    <2>4. IsExport' /\ Checked'
        BY <1>1, <1>2, <2>2 DEF Checked, IsExport, ValidLength, Required
    <2>5. CheckedRange(request.pointer, target.size)'
        BY <1>2, <2>2, <2>3 DEF CheckedRange, IsUsize
    <2> QED
        BY <1>2, <2>2, <2>4, <2>5 DEF Viewed, ToU32, Finite, Truncated
<1>9. StageInv'
    BY <1>4, <1>7, <1>8 DEF StageInv
<1>10. BufferExact'
    <2>1. SUFFICES ASSUME request.op = "toBuffer", SmallLength
                   PROVE  BufferExact'
        BY <1>2 DEF BufferExact, SmallLength
    <2>2. /\ request.len.kind = "integer" /\ ~Greater(request.len, platform.maxLength)
          /\ request.len.whole >= 0 /\ request.pointer >= 0
        BY <1>1, <1>3, <2>1 DEF Checked, ValidPointer, ValidLength, Less
    <2>3. ToU32(request.len) = request.len.whole
        BY <1>1, <1>3, <2>1, <2>2, ToU32Properties, Ranges DEF SmallLength, Less, Finite
    <2>4. request.copy \in BOOLEAN
        BY <1>1, <2>1, RequestFields
    <2>5. CheckedRange(request.pointer, request.len.whole) <=>
             /\ IsUsize(request.pointer)
             /\ request.pointer = 0 => request.len.whole = 0
             /\ request.pointer + request.len.whole <= platform.usize
        BY <1>3, <2>2 DEF CheckedRange, IsU64, IsUsize
    <2>6. BufferExact' <=>
             (stage' \in {"done", "refused"} =>
                IF /\ IsUsize(request.pointer)
                   /\ request.pointer = 0 => request.len.whole = 0 /\ request.copy
                   /\ request.pointer + request.len.whole <= platform.usize
                THEN stage' = "done" /\ target' = Range(request.pointer, request.len.whole)
                ELSE stage' = "refused" \/ (request.pointer = 0 /\ target'.size = 0))
        BY <1>2, <2>1, <2>2 DEF BufferExact, SmallLength, IsUsize
    <2>7. CASE CheckedRange(request.pointer, ToU32(request.len)) /\ stage' = "done"
        BY <1>4, <2>1, <2>3, <2>4, <2>5, <2>6, <2>7 DEF Range
    <2>8. CASE ~CheckedRange(request.pointer, ToU32(request.len)) /\ stage' = "refused"
        BY <2>3, <2>5, <2>6, <2>8
    <2>9. CASE request.pointer = 0 /\ ~request.copy /\ stage' = "refused"
        BY <2>6, <2>9
    <2> QED
        BY <1>4, <2>1, <2>7, <2>8, <2>9
<1>11. ~(request.op \in {"get", "set"}) /\ (IsExport => stage' # "done")
    BY <1>1, <1>4 DEF Checked, IsExport
<1> QED
    BY <1>1, <1>6, <1>9, <1>10, <1>11, QuietStep DEF MakeBuffer, NullView

\* The copy of the source: it stays in the view, and is whole if it is the end.
LEMMA CopyStep ==
    ASSUME MemoryInv, CopySource
    PROVE  MemoryInv'
<1>1. TypeOK /\ AllOld /\ Viewed /\ Checked /\ IsExport
    BY DEF MemoryInv, StageInv, CopySource, Viewed
<1>2. platform' = platform /\ request' = request /\ target' = target
    BY DEF CopySource
<1>3. /\ request.source \in Nat /\ request.unit \in Nat /\ Required \in Nat
      /\ target.start \in Nat /\ target.size \in Nat /\ request.pointer \in Int
      /\ target = Range(request.pointer, ToU32(request.len))
      /\ platform.usize \in Nat
    BY <1>1, RequestFields, Ranges DEF TypeOK, Viewed
<1>4. CopyLength \in Nat /\ CopyLength <= target.size /\ CopyLength <= request.source
    BY <1>3 DEF CopyLength
<1>5. CASE request.op = "exportBytes" /\ request.source > target.size
    <2>1. stage' = "tooShort" /\ memory' = memory
        BY <1>5 DEF CopySource
    <2>2. TypeOK'
        BY <1>1, <1>2, <2>1 DEF TypeOK, Addresses, Exports, Strings, Buffers, Accesses
    <2>3. StageInv' /\ BufferExact'
        BY <1>1, <1>2, <2>1 DEF StageInv, BufferExact, IsExport
    <2>4. Stay /\ ~(request.op \in {"get", "set"}) /\ stage' # "done"
        BY <1>2, <1>5, <2>1 DEF Stay
    <2> QED
        BY <1>1, <2>2, <2>3, <2>4, QuietStep
<1>6. CASE ~(request.op = "exportBytes" /\ request.source > target.size)
    <2>1. /\ memory' = Written(target.start, CopyLength, "data")
          /\ stage' = IF request.op = "exportBytes" THEN "done" ELSE "copied"
        BY <1>6 DEF CopySource
    <2>2. \A a \in Addresses :
             memory'[a] = IF In(a, Range(target.start, CopyLength)) THEN "data" ELSE "old"
        BY <1>1, <2>1 DEF Written, AllOld
    <2>3. Addresses' = Addresses
        BY <1>2 DEF Addresses
    <2>4. TypeOK'
        <3>1. memory' \in [Addresses -> {"old", "data", "zero"}]
            BY <1>1, <2>1 DEF Written, TypeOK
        <3> QED
            BY <1>1, <1>2, <2>1, <2>3, <3>1 DEF TypeOK, Exports, Strings, Buffers, Accesses
    <2>5. ASSUME NEW a \in Addresses, memory'[a] # "old"
          PROVE  In(a, target)
        <3>1. In(a, Range(target.start, CopyLength))
            BY <2>2, <2>5
        <3>2. a \in Nat
            BY <1>1, Ranges
        <3> QED
            BY <1>3, <1>4, <3>1, <3>2 DEF In, Range
    <2>6. WritesStayInside'
        BY <1>1, <1>2, <2>3, <2>5, ViewIsGranted DEF WritesStayInside, IsExport, Less, Finite
    <2>7. RefusedWritesNothing' /\ AccessExact' /\ BufferExact'
        BY <1>1, <1>2, <2>1 DEF RefusedWritesNothing, AccessExact, BufferExact, IsExport
    <2>8. Viewed' /\ CopyLength' = CopyLength
        BY <1>1, <1>2 DEF Viewed, Checked, IsExport, ValidLength, Required, CheckedRange,
            IsUsize, CopyLength
    <2>9. StageInv'
        BY <1>1, <1>2, <2>1, <2>2, <2>3, <2>8 DEF StageInv, SourceWritten, IsExport
    <2>10. WrittenWhole'
        <3>1. SUFFICES ASSUME request.op = "exportBytes" PROVE WrittenWhole'
            BY <1>1, <1>2, <2>1 DEF WrittenWhole, IsExport
        <3>2. request.unit = 0 /\ request.source <= target.size /\ CopyLength = request.source
              /\ Required = request.source
            BY <1>1, <1>3, <1>6, <3>1, RequestFields DEF CopyLength, Required
        <3>3. target.start = request.pointer
            BY <1>3 DEF Range
        <3>4. request.pointer + request.source <= platform.usize
            BY <1>1, <1>3, <3>2 DEF Viewed, CheckedRange, IsUsize
        <3>5. \A a \in Addresses : a \in Nat
            BY <1>1, Ranges
        <3>6. \A a \in Addresses :
                 /\ In(a, Range(request.pointer, request.source)) => memory'[a] = "data"
                 /\ ~In(a, Range(request.pointer + request.source, request.unit))
            BY <1>3, <2>2, <3>2, <3>3, <3>5 DEF In, Range
        <3>7. Required' = Required
            BY <1>2 DEF Required
        <3> QED
            BY <1>2, <2>3, <3>2, <3>4, <3>6, <3>7 DEF WrittenWhole
    <2> QED
        BY <2>4, <2>6, <2>7, <2>9, <2>10 DEF MemoryInv
<1> QED
    BY <1>5, <1>6

\* The terminator: it follows the source, inside the view.
LEMMA FillStep ==
    ASSUME MemoryInv, FillTerminator
    PROVE  MemoryInv'
<1>1. TypeOK /\ SourceWritten /\ Viewed /\ Checked /\ IsExport /\ request.op = "exportString"
    BY DEF MemoryInv, StageInv, FillTerminator, SourceWritten, Viewed
<1>2. platform' = platform /\ request' = request /\ target' = target
    BY DEF FillTerminator
<1>3. /\ request.source \in Nat /\ request.unit \in Nat /\ request.unit > 0
      /\ Required = request.source + request.unit
      /\ target.start \in Nat /\ target.size \in Nat /\ request.pointer \in Int
      /\ target.start = request.pointer /\ target.size = ToU32(request.len)
      /\ platform.usize \in Nat
    BY <1>1, RequestFields, Ranges DEF TypeOK, Viewed, Required, Range
<1>4. CopyLength \in Nat /\ CopyLength <= target.size /\ CopyLength <= request.source
    BY <1>3 DEF CopyLength
<1>5. Addresses' = Addresses /\ Addresses \subseteq Nat /\ Required' = Required
    BY <1>1, <1>2, Ranges DEF Addresses, Required
<1>6. \A a \in Addresses :
         memory[a] = IF In(a, Range(target.start, CopyLength)) THEN "data" ELSE "old"
    BY <1>1 DEF SourceWritten
<1>7. AccessExact' /\ BufferExact'
    BY <1>1, <1>2 DEF AccessExact, BufferExact
<1>8. CASE Required > target.size
    <2>1. stage' = "tooShort" /\ memory' = memory
        BY <1>8 DEF FillTerminator
    <2>2. TypeOK' /\ StageInv'
        BY <1>1, <1>2, <2>1 DEF TypeOK, StageInv, Addresses, Exports, Strings, Buffers, Accesses
    <2>3. WritesStayInside' /\ WrittenWhole'
        BY <1>2, <1>5, <2>1 DEF MemoryInv, WritesStayInside, WrittenWhole, IsExport, Less, Finite
    <2>4. ~SmallLength
        <3>1. SUFFICES ASSUME SmallLength PROVE FALSE
            OBVIOUS
        <3>2. /\ request.len \in Numbers /\ request.len.whole \in Int
              /\ Finite(request.len) => request.len.whole >= Required
              /\ Finite(request.len) => request.len.whole >= 0
            BY <1>1, CheckedLength, NumberProperties
        <3>3. Finite(request.len) /\ request.len.whole < U32Range
            BY <3>1 DEF SmallLength, Less, Finite
        <3>4. ToU32(request.len) = request.len.whole
            BY <1>1, <3>2, <3>3, ToU32Properties
        <3> QED
            BY <1>3, <1>8, <3>2, <3>3, <3>4
    <2>5. RefusedWritesNothing'
        BY <1>1, <1>2, <2>4 DEF RefusedWritesNothing, SmallLength, Less
    <2> QED
        BY <1>7, <2>2, <2>3, <2>5 DEF MemoryInv
<1>9. CASE ~(Required > target.size)
    <2>1. memory' = Written(target.start + request.source, request.unit, "zero") /\ stage' = "done"
        BY <1>9 DEF FillTerminator
    <2>2. Required <= target.size /\ CopyLength = request.source
        BY <1>3, <1>9 DEF CopyLength
    <2>3. \A a \in Addresses :
             memory'[a] = IF In(a, Range(target.start + request.source, request.unit))
                          THEN "zero" ELSE memory[a]
        BY <2>1 DEF Written
    <2>4. TypeOK'
        <3>1. memory' \in [Addresses -> {"old", "data", "zero"}]
            BY <1>1, <2>1 DEF Written, TypeOK
        <3> QED
            BY <1>1, <1>2, <1>5, <2>1, <3>1 DEF TypeOK, Exports, Strings, Buffers, Accesses
    <2>5. StageInv' /\ RefusedWritesNothing'
        BY <2>1 DEF StageInv, RefusedWritesNothing
    <2>6. ASSUME NEW a \in Addresses, memory'[a] # "old"
          PROVE  In(a, target)
        <3>1. In(a, Range(target.start + request.source, request.unit))
              \/ In(a, Range(target.start, request.source))
            BY <1>6, <2>2, <2>3, <2>6
        <3>2. a \in Nat
            BY <1>5
        <3> QED
            BY <1>3, <2>2, <3>1, <3>2 DEF In, Range
    <2>7. WritesStayInside'
        BY <1>1, <1>2, <1>5, <2>6, ViewIsGranted DEF WritesStayInside, IsExport, Less, Finite
    <2>8. request.pointer + Required <= platform.usize
        BY <1>1, <1>3, <2>2 DEF Viewed, CheckedRange, IsUsize
    <2>9. ASSUME NEW a \in Addresses
          PROVE  /\ In(a, Range(request.pointer, request.source)) => memory'[a] = "data"
                 /\ In(a, Range(request.pointer + request.source, request.unit)) =>
                       memory'[a] = "zero"
        <3>1. a \in Nat
            BY <1>5
        <3>2. In(a, Range(request.pointer, request.source)) =>
                 ~In(a, Range(request.pointer + request.source, request.unit))
            BY <1>3, <3>1 DEF In, Range
        <3> QED
            BY <1>3, <1>6, <2>2, <2>3, <3>2
    <2>10. WrittenWhole'
        BY <1>2, <1>5, <2>8, <2>9 DEF WrittenWhole
    <2> QED
        BY <1>7, <2>4, <2>5, <2>7, <2>10 DEF MemoryInv
<1> QED
    BY <1>8, <1>9

\* An i64 conversion keeps what is integral and fits.
LEMMA ToI64Properties ==
    ASSUME TypeOK, NEW x \in Numbers
    PROVE  /\ ToI64(x) \in Int
           /\ x.kind = "integer" /\ x.whole <= I64Max /\ x.whole >= -I64Max - 1 =>
                 ToI64(x) = x.whole
           /\ x.kind = "integer" /\ x.whole < 0 => ToI64(x) < 0
<1>1. /\ x.whole \in Int /\ Truncated(x) \in Int /\ I64Max \in Nat \ {0}
      /\ x.kind = "integer" => Truncated(x) = x.whole /\ Finite(x)
    BY NumberProperties, Ranges DEF Truncated, Finite
<1> QED
    BY <1>1 DEF ToI64

\* The offset of an access: what the program gave if that is integral and
\* fits, and 0 if it gave none.
LEMMA OffsetProperties ==
    ASSUME TypeOK, request.op \in {"get", "set"}
    PROVE  /\ Offset \in Int /\ request.offset.whole \in Int
           /\ request.offset.kind \in {"integer", "undefined"} /\ request.offset.whole <= I64Max =>
                 /\ request.offset.whole >= 0 => Offset = request.offset.whole
                 /\ request.offset.whole < 0 => Offset < 0
<1>1. CASE request.offset = Absent
    BY <1>1 DEF Offset, Absent
<1>2. CASE request.offset \in Numbers /\ request.offset # Absent
    <2>1. /\ request.offset.whole \in Int /\ I64Max \in Nat
          /\ request.offset.kind \in {"integer", "fraction", "NaN", "Infinity"}
        BY <1>2, NumberProperties, Ranges
    <2>2. Offset = ToI64(request.offset)
        BY <1>2 DEF Offset
    <2> QED
        BY <1>2, <2>1, <2>2, ToI64Properties
<1> QED
    BY <1>1, <1>2, RequestFields

\* A getter or a setter: it accesses its bytes, or refuses.
LEMMA AccessStep ==
    ASSUME MemoryInv, Access
    PROVE  MemoryInv'
<1> DEFINE at == request.pointer + Offset
<1>1. TypeOK /\ AllOld /\ request.op \in {"get", "set"}
    BY DEF MemoryInv, StageInv, Access
<1>2. platform' = platform /\ request' = request
    BY DEF Access
<1>3. \/ /\ CheckedAddr(request.pointer, Offset, request.size)
         /\ target' = Range(at, request.size)
         /\ memory' = IF request.op = "set" THEN Written(at, request.size, "data") ELSE memory
         /\ stage' = "done"
      \/ /\ ~CheckedAddr(request.pointer, Offset, request.size)
         /\ stage' = "refused" /\ target' = target /\ memory' = memory
    BY DEF Access
<1>4. /\ Offset \in Int /\ request.pointer \in Int
      /\ request.size \in Nat \ {0} /\ platform.usize \in Nat
      /\ platform.usize <= U64Range /\ U64Range \in Nat /\ request.offset.whole \in Int
    BY <1>1, RequestFields, OffsetProperties, Ranges
<1>5. CheckedAddr(request.pointer, Offset, request.size) <=>
         request.pointer > 0 /\ Offset >= 0 /\ at + request.size <= platform.usize
    BY <1>4 DEF CheckedAddr, IsU64, IsUsize
<1>6. TypeOK'
    <2>1. target'.start \in Addresses /\ target'.size \in Nat
        BY <1>1, <1>3, <1>4, <1>5 DEF TypeOK, Range, Addresses
    <2>2. memory' \in [Addresses -> {"old", "data", "zero"}]
        BY <1>1, <1>3 DEF Written, TypeOK
    <2>3. stage' \in {"done", "refused"}
        BY <1>3
    <2> QED
        BY <1>1, <1>2, <2>1, <2>2, <2>3 DEF TypeOK, Addresses, Exports, Strings, Buffers, Accesses
<1>7. StageInv' /\ WritesStayInside' /\ WrittenWhole' /\ BufferExact'
    BY <1>1, <1>2, <1>3 DEF StageInv, WritesStayInside, WrittenWhole, BufferExact, IsExport
<1>8. RefusedWritesNothing'
    BY <1>1, <1>2, <1>3 DEF RefusedWritesNothing, AllOld, Addresses
<1>9. AccessExact'
    <2>1. SUFFICES ASSUME request.offset.kind \in {"integer", "undefined"},
                          request.offset.whole <= I64Max
                   PROVE  IF /\ request.pointer > 0 /\ request.offset.whole >= 0
                             /\ request.pointer + request.offset.whole + request.size
                                   <= platform.usize
                          THEN /\ stage' = "done"
                               /\ target' = Range(request.pointer + request.offset.whole, request.size)
                          ELSE stage' = "refused"
        BY <1>2 DEF AccessExact
    <2>2. /\ request.offset.whole >= 0 => Offset = request.offset.whole
          /\ request.offset.whole < 0 => Offset < 0
        BY <1>1, <2>1, OffsetProperties
    <2> QED
        BY <1>3, <1>4, <1>5, <2>2
<1> QED
    BY <1>6, <1>7, <1>8, <1>9 DEF MemoryInv

\* Every step, and no step, preserves the invariant.
LEMMA NextMemory == MemoryInv /\ [Next]_vars => MemoryInv'
<1> SUFFICES ASSUME MemoryInv, [Next]_vars PROVE MemoryInv'
    OBVIOUS
<1>1. CASE UNCHANGED vars
    BY <1>1 DEF vars, MemoryInv, TypeOK, StageInv, AllOld, Checked, Viewed, SourceWritten,
        WritesStayInside, WrittenWhole, RefusedWritesNothing, AccessExact, BufferExact, Addresses,
        IsExport, Required, ValidLength, CheckedRange, IsUsize, CopyLength, SmallLength,
        Exports, Strings, Buffers, Accesses
<1> QED
    BY <1>1, CheckStep, ViewStep, CopyStep, FillStep, AccessStep DEF Next

-----------------------------------------------------------------------------
(* The theorems.                                                           *)

\* The invariant is inductive: every reachable state satisfies it.
THEOREM MemoryInductive == Spec => []MemoryInv
BY InitMemory, NextMemory, PTL DEF Spec

\* Every request, platform and byte of memory keeps its type.
THEOREM TypeCorrect == Spec => []TypeOK
<1>1. MemoryInv => TypeOK
    BY DEF MemoryInv
<1> QED
    BY <1>1, MemoryInductive, PTL

\* No export writes outside the bytes its caller granted.
THEOREM ExportsStayInside == Spec => []WritesStayInside
<1>1. MemoryInv => WritesStayInside
    BY DEF MemoryInv
<1> QED
    BY <1>1, MemoryInductive, PTL

\* An export that succeeds has written its source and its terminator.
THEOREM ExportsAreWhole == Spec => []WrittenWhole
<1>1. MemoryInv => WrittenWhole
    BY DEF MemoryInv
<1> QED
    BY <1>1, MemoryInductive, PTL

\* An export that throws has written nothing, unless its length shrank.
THEOREM RefusedExportsWriteNothing == Spec => []RefusedWritesNothing
<1>1. MemoryInv => RefusedWritesNothing
    BY DEF MemoryInv
<1> QED
    BY <1>1, MemoryInductive, PTL

\* Getters and setters access exactly their bytes, up to the last address.
THEOREM AccessesAreExact == Spec => []AccessExact
<1>1. MemoryInv => AccessExact
    BY DEF MemoryInv
<1> QED
    BY <1>1, MemoryInductive, PTL

\* Views and copies are exactly the bytes asked for.
THEOREM BuffersAreExact == Spec => []BufferExact
<1>1. MemoryInv => BufferExact
    BY DEF MemoryInv
<1> QED
    BY <1>1, MemoryInductive, PTL

-----------------------------------------------------------------------------
(* Where lengths are refused for their value.                              *)

\* An export of a length that u32 can hold is called too short if it is.
SmallTooShortIsTrue ==
    IsExport /\ stage = "tooShort" /\ Less(request.len, U32Range) => Less(request.len, Required)

\* A length that u32 can hold, and that passed the checks, is that of the view.
LEMMA SmallView ==
    ASSUME MemoryInv, Viewed, Less(request.len, U32Range)
    PROVE  /\ target.size = request.len.whole
           /\ \A n \in Int : n > target.size => Less(request.len, n)
<1>1. TypeOK /\ Checked
    BY DEF MemoryInv, Viewed
<1>2. request.len \in Numbers /\ request.len.whole \in Int
    BY <1>1, CheckedLength, NumberProperties
<1>3. Finite(request.len) /\ request.len.whole < U32Range
    BY DEF Less, Finite
<1>4. ToU32(request.len) = request.len.whole
    BY <1>1, <1>2, <1>3, CheckedLength, ToU32Properties
<1>5. target.size = request.len.whole
    BY <1>4 DEF Viewed, Range
<1> QED
    BY <1>2, <1>3, <1>5 DEF Less, Finite

\* Every step keeps it: the checks compare the length as it is, and the writes
\* with the view.
LEMMA SmallTooShortStep ==
    ASSUME MemoryInv, SmallTooShortIsTrue, [Next]_vars
    PROVE  SmallTooShortIsTrue'
<1>1. request' = request /\ (IsExport' <=> IsExport) /\ Required' = Required
    BY DEF Next, vars, CheckBytes, CheckString, MakeBuffer, NullView, CopySource, FillTerminator,
           Access, Stay, IsExport, Required
<1>2. SUFFICES ASSUME IsExport, stage' = "tooShort", Less(request.len, U32Range)
               PROVE  Less(request.len, Required)
    BY <1>1 DEF SmallTooShortIsTrue
<1>3. CASE UNCHANGED vars
    BY <1>2, <1>3 DEF vars, SmallTooShortIsTrue
<1>4. CASE CheckString
    BY <1>2, <1>4 DEF CheckString
<1>5. Required \in Nat /\ request.source <= Required /\ (request.op = "exportBytes" => Required = request.source)
    BY <1>2, RequestFields DEF MemoryInv, Required
<1>6. CASE CopySource
    <2>1. Viewed /\ request.op = "exportBytes" /\ request.source > target.size
        BY <1>2, <1>6 DEF CopySource, MemoryInv, StageInv
    <2> QED
        BY <1>2, <1>5, <2>1, SmallView
<1>7. CASE FillTerminator
    <2>1. Viewed /\ Required > target.size
        BY <1>2, <1>7 DEF FillTerminator, MemoryInv, StageInv, SourceWritten
    <2> QED
        BY <1>2, <1>5, <2>1, SmallView
<1>8. CASE CheckBytes \/ MakeBuffer \/ NullView \/ Access
    BY <1>2, <1>8 DEF CheckBytes, MakeBuffer, NullView, Access
<1> QED
    BY <1>3, <1>4, <1>6, <1>7, <1>8 DEF Next

\* TooShortIsTrue, which does not hold, fails for no other reason than the
\* conversion to u32: up to 2^32 every export, of bytes or a string, that is
\* called too short is.
THEOREM SmallLengthsAreJudgedRight == Spec => []SmallTooShortIsTrue
<1>1. Init => SmallTooShortIsTrue
    BY DEF Init, SmallTooShortIsTrue
<1> QED
    BY <1>1, SmallTooShortStep, MemoryInductive, PTL DEF Spec
=============================================================================
