-------------------------- MODULE Invocation_proofs --------------------------
(***************************************************************************)
(* Proofs about Invocation, for any sets of blocks, objects and signatures *)
(* and any nesting of calls.                                               *)
(***************************************************************************)
EXTENDS Invocation, TLAPS

-----------------------------------------------------------------------------
(* The inductive invariant, frame by frame.                                *)

\* The arguments and the result of a call own different blocks, and a C
\* string is lent by the scope that keeps it.
Tidy(fr) ==
    /\ \A i, j \in DOMAIN fr.args :
          i # j => Owned(fr.args[i]) \cap Owned(fr.args[j]) = {}
    /\ \A i \in DOMAIN fr.args : /\ fr.args[i].storage # fr.args[i].scope
                                 /\ fr.result \notin Owned(fr.args[i])
                                 /\ fr.args[i].ref.to = "text" =>
                                       fr.args[i].ref.block = fr.args[i].scope
    /\ \A r \in fr.taken : r.to # "text"
    /\ fr.phase = "preparing" => fr.result = None

\* The bytes a call lent are kept by its handles, and detached noticeably.
Backed(fr) ==
    /\ fr.handles \subseteq alive
    /\ \A r \in Sources(fr) : r.to = "bytes" =>
          r.object \in fr.handles /\ (r.object \in detached => detachedInUse)

\* The blocks allocated are those of the calls in progress, each of one call.
Accounted ==
    /\ live = UNION {BlocksOf(stack[i]) : i \in DOMAIN stack}
    /\ \A i, j \in DOMAIN stack : i # j => BlocksOf(stack[i]) \cap BlocksOf(stack[j]) = {}

Parts ==
    /\ TypeOK
    /\ held \subseteq alive
    /\ Accounted
    /\ OthersInCallback
    /\ \A n \in DOMAIN stack : Tidy(stack[n])
    /\ \A n \in DOMAIN stack : Backed(stack[n])
    /\ AnswerIsLent
    /\ UndefinedOnlyAfterDetach

\* The inductive invariant is its parts, in a state and in the next one.
LEMMA Regrouped == (IInv <=> Parts) /\ (IInv' <=> Parts')
<1>1. OwnedOnce /\ ResultComesLast /\ TextIsScoped <=> Accounted /\ \A n \in DOMAIN stack : Tidy(stack[n])
    BY DEF OwnedOnce, ResultComesLast, TextIsScoped, Accounted, Tidy
<1>2. BytesAreHandled /\ DetachedIsNoticed <=> \A n \in DOMAIN stack : Backed(stack[n])
    BY DEF BytesAreHandled, DetachedIsNoticed, Backed
<1>3. (OwnedOnce /\ ResultComesLast /\ TextIsScoped)' <=> Accounted' /\ \A n \in DOMAIN stack' : Tidy(stack'[n])
    BY DEF OwnedOnce, ResultComesLast, TextIsScoped, Accounted, Tidy
<1>4. (BytesAreHandled /\ DetachedIsNoticed)' <=>
            \A n \in DOMAIN stack' : Backed(stack[n])'
    BY DEF BytesAreHandled, DetachedIsNoticed, Backed
<1>5. (\A n \in DOMAIN stack : Tidy(stack[n]))' <=> \A n \in DOMAIN stack' : Tidy(stack'[n])
    BY DEF Tidy
<1> QED
    BY <1>1, <1>2, <1>3, <1>4, <1>5 DEF IInv, Parts

-----------------------------------------------------------------------------
(* Stacks, and what is lent.                                               *)

\* What is left of a nonempty sequence without its last element.
LEMMA ShorterProperties ==
    ASSUME NEW S, NEW s \in Seq(S), s # <<>>
    PROVE  /\ SubSeq(s, 1, Len(s) - 1) \in Seq(S)
           /\ DOMAIN SubSeq(s, 1, Len(s) - 1) = 1 .. (Len(s) - 1)
           /\ Len(SubSeq(s, 1, Len(s) - 1)) = Len(s) - 1
           /\ \A n \in 1 .. (Len(s) - 1) :
                n \in DOMAIN s /\ n # Len(s) /\ SubSeq(s, 1, Len(s) - 1)[n] = s[n]
<1>1. Len(s) \in Nat /\ Len(s) # 0 /\ DOMAIN s = 1 .. Len(s)
    OBVIOUS
<1>2. SubSeq(s, 1, Len(s) - 1) \in Seq(S)
    OBVIOUS
<1>3. Len(SubSeq(s, 1, Len(s) - 1)) = Len(s) - 1
    BY <1>1
<1>4. \A n \in 1 .. (Len(s) - 1) : SubSeq(s, 1, Len(s) - 1)[n] = s[n]
    OBVIOUS
<1>5. DOMAIN SubSeq(s, 1, Len(s) - 1) = 1 .. (Len(s) - 1)
    BY <1>2, <1>3
<1>6. ASSUME NEW k \in Nat PROVE \A n \in 1 .. (k - 1) : n \in 1 .. k /\ n # k
    OBVIOUS
<1> QED
    BY <1>1, <1>2, <1>3, <1>4, <1>5, <1>6

\* The call in progress, when there is one.
LEMMA TopProperties ==
    ASSUME TypeOK, stack # <<>>
    PROVE  /\ Len(stack) \in DOMAIN stack
           /\ DOMAIN stack = 1 .. Len(stack)
           /\ Top \in Frame
           /\ Top = stack[Len(stack)]
BY DEF TypeOK, Top

\* A change of the call in progress leaves the others as they are.
LEMMA BecomeProperties ==
    ASSUME TypeOK, stack # <<>>, NEW fr \in Frame, Become(fr)
    PROVE  /\ stack' \in Seq(Frame)
           /\ DOMAIN stack' = DOMAIN stack
           /\ Len(stack') = Len(stack)
           /\ stack'[Len(stack)] = fr
           /\ \A n \in DOMAIN stack : n # Len(stack) => stack'[n] = stack[n]
BY DEF TypeOK, Become

\* The end of a call leaves the others as they are.
LEMMA BelowProperties ==
    ASSUME TypeOK, stack # <<>>
    PROVE  /\ Below \in Seq(Frame)
           /\ DOMAIN Below = 1 .. (Len(stack) - 1)
           /\ Len(Below) = Len(stack) - 1
           /\ \A n \in DOMAIN Below : n \in DOMAIN stack /\ n # Len(stack) /\ Below[n] = stack[n]
<1>1. stack \in Seq(Frame)
    BY DEF TypeOK
<1>2. Len(Below) = Len(stack) - 1 /\ Below \in Seq(Frame) /\ DOMAIN Below = 1 .. (Len(stack) - 1)
    BY <1>1, ShorterProperties DEF Below
<1>3. \A n \in 1 .. (Len(stack) - 1) : n \in DOMAIN stack /\ n # Len(stack) /\ Below[n] = stack[n]
    BY <1>1, ShorterProperties DEF Below
<1> QED
    BY <1>2, <1>3

\* What a call was lent is a reference.
LEMMA SourcesAreReferences ==
    ASSUME NEW fr \in Frame
    PROVE  Sources(fr) \subseteq Reference
<1>1. \A i \in DOMAIN fr.args : fr.args[i] \in Prepared
    BY DEF Frame
<1>2. \A i \in DOMAIN fr.args : fr.args[i].ref \in Reference
    BY <1>1 DEF Prepared
<1>3. fr.taken \subseteq Reference
    BY DEF Frame
<1> QED
    BY <1>2, <1>3 DEF Sources

\* C code has what some call in progress was lent, and addresses of its own.
LEMMA LentIsSourced ==
    ASSUME IInv, NEW r \in AllLent
    PROVE  r = Plain \/ \E n \in DOMAIN stack : r \in Sources(stack[n])
<1>1. PICK n \in DOMAIN stack : r \in Lent(stack[n])
    BY DEF AllLent
<1>2. r \in Sources(stack[n]) \/ r = stack[n].answer \/ r = Plain
    BY <1>1 DEF Lent, Sources
<1>3. DOMAIN stack = 1 .. Len(stack) /\ Len(stack) \in Nat
    BY DEF IInv, TypeOK
<1>4. ASSUME r = stack[n].answer, r # Plain
      PROVE  \E m \in DOMAIN stack : r \in Sources(stack[m])
    <2>1. PICK m \in 1 .. n : r \in Sources(stack[m])
        BY <1>4 DEF IInv, AnswerIsLent
    <2> QED
        BY <2>1, <1>3
<1> QED
    BY <1>2, <1>4

\* A block that a call owns is allocated.
LEMMA BlocksAreLive ==
    ASSUME Accounted, NEW n \in DOMAIN stack, NEW b \in BlocksOf(stack[n])
    PROVE  b \in live
BY DEF Accounted

\* What C code was lent is readable, or detached, which has been noticed.
LEMMA Readability ==
    ASSUME IInv, NEW r \in AllLent, ~Readable(r)
    PROVE  r.to = "bytes" /\ r.object \in detached /\ detachedInUse
<1>1. CASE r = Plain
    BY <1>1 DEF Plain, Readable
<1>2. CASE \E n \in DOMAIN stack : r \in Sources(stack[n])
    <2>1. PICK n \in DOMAIN stack : r \in Sources(stack[n])
        BY <1>2
    <2>2. stack[n] \in Frame
        BY DEF IInv, TypeOK
    <2>3. r \in Reference
        BY <2>1, <2>2, SourcesAreReferences
    <2>4. Parts
        BY Regrouped
    <2>5. Tidy(stack[n]) /\ Backed(stack[n]) /\ Accounted
        BY <2>4 DEF Parts
    <2>6. ASSUME r.to = "text"
          PROVE  r.block \in live
        <3>1. PICK i \in DOMAIN stack[n].args : r = stack[n].args[i].ref
            BY <2>1, <2>5, <2>6 DEF Sources, Tidy
        <3>2. r.block = stack[n].args[i].scope
            BY <3>1, <2>5, <2>6 DEF Tidy
        <3>3. r.block # None
            BY <2>3, <2>6, NoneAssumption DEF Reference, Plain, Text, Bytes
        <3>4. r.block \in BlocksOf(stack[n])
            BY <3>2, <3>3 DEF BlocksOf, Owned
        <3> QED
            BY <3>4, <2>5, BlocksAreLive
    <2>7. ASSUME r.to = "bytes"
          PROVE  r.object \in alive /\ (r.object \in detached => detachedInUse)
        BY <2>1, <2>5, <2>7 DEF Backed
    <2> QED
        BY <2>6, <2>7 DEF Readable
<1> QED
    BY <1>1, <1>2, LentIsSourced

-----------------------------------------------------------------------------
(* Each kind of step preserves the invariant.                              *)

\* Nothing is allocated, lent or in progress at first.
LEMMA InitIInv == Init => IInv
<1> SUFFICES ASSUME Init PROVE IInv
    OBVIOUS
<1>1. stack \in Seq(Frame)
    BY DEF Init
<1>3. TypeOK
    BY <1>1 DEF Init, TypeOK
<1>2. DOMAIN stack = {}
    BY DEF Init
<1> QED
    BY <1>2, <1>3 DEF Init, IInv, OwnedOnce, OthersInCallback, ResultComesLast, TextIsScoped,
        BytesAreHandled, AnswerIsLent, DetachedIsNoticed, UndefinedOnlyAfterDetach

\* A step of the call in progress that lends more, and allocates what it then
\* owns.
LEMMA BecomeIInv ==
    ASSUME IInv, stack # <<>>, NEW fr \in Frame, Become(fr),
           NEW new \in SUBSET Blocks,
           new \cap live = {}, live' = live \cup new,
           BlocksOf(fr) = BlocksOf(Top) \cup new,
           Tidy(fr), Backed(fr), Sources(Top) \subseteq Sources(fr),
           fr.answer = Plain \/ \E n \in DOMAIN stack : fr.answer \in Sources(stack[n]),
           UNCHANGED <<objects, process>>
    PROVE  IInv'
<1>1. Parts
    BY Regrouped
<1>2. TypeOK
    BY <1>1 DEF Parts
<1>3. /\ Len(stack) \in DOMAIN stack
      /\ DOMAIN stack = 1 .. Len(stack)
      /\ Len(stack) \in Nat
      /\ Top = stack[Len(stack)]
    BY <1>2, TopProperties DEF TypeOK
<1>4. /\ stack' \in Seq(Frame)
      /\ DOMAIN stack' = DOMAIN stack
      /\ Len(stack') = Len(stack)
      /\ stack'[Len(stack)] = fr
      /\ \A n \in DOMAIN stack : n # Len(stack) => stack'[n] = stack[n]
    BY <1>2, BecomeProperties
<1>5. TypeOK'
    BY <1>2, <1>4 DEF TypeOK, objects
<1>6. Accounted'
    <2>1. \A n \in DOMAIN stack : BlocksOf(stack'[n]) =
              IF n = Len(stack) THEN BlocksOf(stack[n]) \cup new ELSE BlocksOf(stack[n])
        BY <1>3, <1>4
    <2>2. live' = UNION {BlocksOf(stack'[n]) : n \in DOMAIN stack'}
        BY <1>1, <1>3, <1>4, <2>1 DEF Parts, Accounted
    <2>3. \A n \in DOMAIN stack : BlocksOf(stack[n]) \cap new = {}
        BY <1>1, BlocksAreLive DEF Parts
    <2>4. \A i, j \in DOMAIN stack' : i # j => BlocksOf(stack'[i]) \cap BlocksOf(stack'[j]) = {}
        BY <1>1, <1>3, <1>4, <2>1, <2>3 DEF Parts, Accounted
    <2> QED
        BY <2>2, <2>4 DEF Accounted
<1>7. OthersInCallback'
    BY <1>1, <1>3, <1>4 DEF Parts, OthersInCallback
<1>8. \A n \in DOMAIN stack' : Tidy(stack'[n])
    BY <1>1, <1>3, <1>4 DEF Parts
<1>9. \A n \in DOMAIN stack' : Backed(stack'[n])
    BY <1>1, <1>3, <1>4 DEF Parts
<1>10. AnswerIsLent'
    <2>1. \A m \in DOMAIN stack : Sources(stack[m]) \subseteq Sources(stack'[m])
        BY <1>3, <1>4
    <2>2. \A n \in DOMAIN stack :
              stack'[n].answer = Plain \/ \E m \in 1 .. n : stack'[n].answer \in Sources(stack[m])
        BY <1>1, <1>3, <1>4 DEF Parts, AnswerIsLent
    <2> QED
        BY <1>3, <1>4, <2>1, <2>2 DEF AnswerIsLent
<1>11. held' \subseteq alive' /\ UndefinedOnlyAfterDetach'
    BY <1>1 DEF Parts, UndefinedOnlyAfterDetach, objects
<1>12. (\A n \in DOMAIN stack : Tidy(stack[n]))' /\ (\A n \in DOMAIN stack : Backed(stack[n]))'
    BY <1>8, <1>9 DEF Backed, Tidy, objects
<1> QED
    BY <1>5, <1>6, <1>7, <1>10, <1>11, <1>12, Regrouped DEF Parts

\* The end of the call in progress.
LEMMA FinishIInv ==
    ASSUME IInv, stack # <<>>, Finish, UNCHANGED <<objects, process>>
    PROVE  IInv'
<1>1. Parts
    BY Regrouped
<1>2. TypeOK
    BY <1>1 DEF Parts
<1>3. /\ Len(stack) \in DOMAIN stack
      /\ DOMAIN stack = 1 .. Len(stack)
      /\ Len(stack) \in Nat
      /\ Top = stack[Len(stack)]
    BY <1>2, TopProperties DEF TypeOK
<1>4. /\ stack' \in Seq(Frame)
      /\ DOMAIN stack' = 1 .. (Len(stack) - 1)
      /\ Len(stack') = Len(stack) - 1
      /\ \A n \in DOMAIN stack' : n \in DOMAIN stack /\ n # Len(stack) /\ stack'[n] = stack[n]
    BY <1>2, BelowProperties DEF Finish
<1>5. TypeOK'
    BY <1>2, <1>4 DEF TypeOK, objects, Finish
<1>6. Accounted'
    <2>1. live' = (UNION {BlocksOf(stack[n]) : n \in DOMAIN stack}) \ BlocksOf(Top)
        BY <1>1 DEF Parts, Accounted, Finish
    <2>2. \A n \in DOMAIN stack' : BlocksOf(stack[n]) \cap BlocksOf(Top) = {}
        BY <1>1, <1>3, <1>4 DEF Parts, Accounted
    <2>3. DOMAIN stack = DOMAIN stack' \cup {Len(stack)}
        BY <1>3, <1>4
    <2>4. live' = UNION {BlocksOf(stack'[n]) : n \in DOMAIN stack'}
        BY <1>3, <1>4, <2>1, <2>2, <2>3
    <2>5. \A i, j \in DOMAIN stack' : i # j => BlocksOf(stack'[i]) \cap BlocksOf(stack'[j]) = {}
        BY <1>1, <1>4 DEF Parts, Accounted
    <2> QED
        BY <2>4, <2>5 DEF Accounted
<1>7. OthersInCallback'
    BY <1>1, <1>3, <1>4 DEF Parts, OthersInCallback
<1>8. \A n \in DOMAIN stack' : Tidy(stack'[n])
    BY <1>1, <1>4 DEF Parts
<1>9. \A n \in DOMAIN stack' : Backed(stack'[n])
    BY <1>1, <1>4 DEF Parts
<1>10. AnswerIsLent'
    <2>1. ASSUME NEW n \in DOMAIN stack'
          PROVE  stack'[n].answer = Plain
                    \/ \E m \in 1 .. n : stack'[n].answer \in Sources(stack'[m])
        <3>1. \A m \in 1 .. n : m \in DOMAIN stack'
            BY <1>3, <1>4
        <3> QED
            BY <1>1, <1>4, <3>1 DEF Parts, AnswerIsLent
    <2> QED
        BY <2>1 DEF AnswerIsLent
<1>11. held' \subseteq alive' /\ UndefinedOnlyAfterDetach'
    BY <1>1 DEF Parts, UndefinedOnlyAfterDetach, objects
<1>12. (\A n \in DOMAIN stack : Tidy(stack[n]))' /\ (\A n \in DOMAIN stack : Backed(stack[n]))'
    BY <1>8, <1>9 DEF Backed, Tidy, objects
<1> QED
    BY <1>5, <1>6, <1>7, <1>10, <1>11, <1>12, Regrouped DEF Parts

\* A value that is stored for an argument or a callback's result: what it
\* refers to, and the handle that keeps it.
LEMMA StoredProperties ==
    ASSUME TypeOK, held \subseteq alive, NEW v \in Value, NEW b, v = "text" => b \in Blocks
    PROVE  /\ Stored(v, b) \in Reference
           /\ Stored(v, b).to = "text" => v = "text" /\ Stored(v, b).block = b
           /\ Stored(v, b).to = "bytes" =>
                 /\ Stored(v, b).object \in HandleOf(v)
                 /\ Stored(v, b).object \notin detached
           /\ HandleOf(v) \subseteq alive
<1>1. HandleOf(v) \subseteq alive
    BY ObjectAssumption DEF HandleOf, Value, TypeOK
<1>2. CASE v \in Objects \ detached
    BY <1>1, <1>2 DEF Stored, Reference, Bytes, HandleOf
<1>3. CASE v \notin Objects \ detached /\ v = "text"
    BY <1>1, <1>3, ObjectAssumption DEF Stored, Reference, Text
<1>4. CASE v \notin Objects \ detached /\ v # "text"
    BY <1>1, <1>4 DEF Stored, Reference, Plain
<1> QED
    BY <1>2, <1>3, <1>4

\* A call starts: it owns and lends nothing yet.
LEMMA InvokeIInv ==
    ASSUME IInv, NEW sig \in Signatures, Invoke(sig)
    PROVE  IInv'
<1> DEFINE fr == [phase |-> "preparing", sig |-> sig, args |-> <<>>, result |-> None,
                  taken |-> {}, handles |-> {}, answer |-> Plain]
<1>1. Parts
    BY Regrouped
<1>2. TypeOK
    BY <1>1 DEF Parts
<1>3. fr \in Frame
    BY DEF Frame, Reference
<1>4. /\ stack \in Seq(Frame)
      /\ Len(stack) \in Nat
      /\ DOMAIN stack = 1 .. Len(stack)
      /\ stack' = Append(stack, fr)
    BY <1>2 DEF TypeOK, Invoke
<1>5. /\ stack' \in Seq(Frame)
      /\ DOMAIN stack' = 1 .. (Len(stack) + 1)
      /\ Len(stack') = Len(stack) + 1
      /\ \A n \in DOMAIN stack : stack'[n] = stack[n]
      /\ stack'[Len(stack) + 1] = fr
    BY <1>3, <1>4
<1>6. DOMAIN stack' = DOMAIN stack \cup {Len(stack) + 1} /\ Len(stack) + 1 \notin DOMAIN stack
    BY <1>4, <1>5
<1>7. BlocksOf(fr) = {} /\ Sources(fr) = {} /\ Tidy(fr)
      /\ fr.handles = {} /\ fr.answer = Plain
    BY DEF BlocksOf, Sources, Tidy
<1> HIDE DEF fr
<1>8. TypeOK'
    BY <1>2, <1>5 DEF TypeOK, objects, Invoke
<1>9. Accounted'
    <2>1. live' = live
        BY DEF Invoke
    <2>2. \A b : (\E n \in DOMAIN stack' : b \in BlocksOf(stack'[n]))
                <=> \E n \in DOMAIN stack : b \in BlocksOf(stack[n])
        BY <1>5, <1>6, <1>7
    <2>3. live' = UNION {BlocksOf(stack'[n]) : n \in DOMAIN stack'}
        BY <1>1, <2>1, <2>2 DEF Parts, Accounted
    <2>4. \A i, j \in DOMAIN stack' : i # j => BlocksOf(stack'[i]) \cap BlocksOf(stack'[j]) = {}
        BY <1>1, <1>5, <1>6, <1>7 DEF Parts, Accounted
    <2> QED
        BY <2>3, <2>4 DEF Accounted
<1>10. OthersInCallback'
    <2>1. stack # <<>> => stack[Len(stack)].phase = "inCallback"
        BY DEF Invoke, InJs, InNative, Top
    <2>2. \A n \in DOMAIN stack : stack[n].phase = "inCallback"
        <3>1. ASSUME NEW n \in DOMAIN stack PROVE n < Len(stack) \/ n = Len(stack)
            BY <1>4
        <3>2. ASSUME NEW n \in DOMAIN stack, n = Len(stack) PROVE stack[n].phase = "inCallback"
            BY <1>4, <2>1, <3>2
        <3> QED
            BY <1>1, <3>1, <3>2 DEF Parts, OthersInCallback
    <2> QED
        BY <1>4, <1>5, <1>6, <2>2 DEF OthersInCallback
<1>11. \A n \in DOMAIN stack' : Tidy(stack'[n])
    BY <1>1, <1>5, <1>6, <1>7 DEF Parts
<1>12. \A n \in DOMAIN stack' : Backed(stack'[n])
    <2>1. Backed(fr)
        BY <1>7 DEF Backed
    <2> QED
        BY <1>1, <1>5, <1>6, <2>1 DEF Parts
<1>13. AnswerIsLent'
    <2>1. ASSUME NEW n \in DOMAIN stack
          PROVE  stack'[n].answer = Plain
                    \/ \E m \in 1 .. n : stack'[n].answer \in Sources(stack'[m])
        <3>1. \A m \in 1 .. n : m \in DOMAIN stack
            BY <1>4
        <3> QED
            BY <1>1, <1>5, <3>1 DEF Parts, AnswerIsLent
    <2> QED
        BY <1>5, <1>6, <1>7, <2>1 DEF AnswerIsLent
<1>14. held' \subseteq alive' /\ UndefinedOnlyAfterDetach'
    BY <1>1 DEF Parts, UndefinedOnlyAfterDetach, objects, Invoke
<1>15. (\A n \in DOMAIN stack : Tidy(stack[n]))' /\ (\A n \in DOMAIN stack : Backed(stack[n]))'
    BY <1>11, <1>12 DEF Backed, Tidy, objects, Invoke
<1> QED
    BY <1>8, <1>9, <1>10, <1>13, <1>14, <1>15, Regrouped DEF Parts

\* The next argument: what it owns is fresh, and what it lends it owns, or has
\* a handle.
LEMMA PrepareIInv ==
    ASSUME IInv, NEW v \in Value, NEW b \in Blocks, NEW c \in Blocks \cup {None},
           Prepare(v, b, c)
    PROVE  IInv'
<1> DEFINE arg == [storage |-> b, scope |-> c, ref |-> Stored(v, c)]
           fr == [Top EXCEPT !.args = Append(@, arg), !.handles = @ \cup HandleOf(v)]
           new == {b} \cup ({c} \ {None})
<1>1. Parts /\ TypeOK /\ held \subseteq alive /\ stack # <<>>
    BY Regrouped DEF Parts, Prepare, In
<1>2. Top \in Frame /\ Len(stack) \in DOMAIN stack /\ Top = stack[Len(stack)]
      /\ DOMAIN stack = 1 .. Len(stack)
    BY <1>1, TopProperties
<1>3. FreshFor(v, b, c) /\ Become(fr) /\ live' = live \cup new
      /\ UNCHANGED <<objects, process>>
    BY DEF Prepare
<1>4. b # None /\ new \cap live = {} /\ new \subseteq Blocks /\ b # c
    BY <1>3, NoneAssumption DEF FreshFor
<1>5. v = "text" => c \in Blocks
    BY <1>3 DEF FreshFor
<1>6. /\ arg \in Prepared
      /\ arg.ref.to = "text" => arg.ref.block = c
      /\ arg.ref.to = "bytes" => arg.ref.object \in HandleOf(v) \ detached
      /\ HandleOf(v) \subseteq alive
    BY <1>1, <1>5, StoredProperties DEF Prepared
<1>7. Owned(arg) = new
    BY <1>4 DEF Owned
<1>8. /\ Top.args \in Seq(Prepared)
      /\ Top.handles \subseteq Objects
      /\ HandleOf(v) \subseteq Objects
    BY <1>2 DEF Frame, HandleOf
<1>9. /\ fr.phase = Top.phase
      /\ fr.sig = Top.sig
      /\ fr.args = Append(Top.args, arg)
      /\ fr.result = Top.result
      /\ fr.taken = Top.taken
      /\ fr.handles = Top.handles \cup HandleOf(v)
      /\ fr.answer = Top.answer
    BY <1>2 DEF Frame
<1>10. /\ fr.args \in Seq(Prepared)
       /\ Len(Top.args) \in Nat
       /\ DOMAIN Top.args = 1 .. Len(Top.args)
       /\ DOMAIN fr.args = 1 .. (Len(Top.args) + 1)
       /\ \A i \in DOMAIN Top.args : fr.args[i] = Top.args[i]
       /\ fr.args[Len(Top.args) + 1] = arg
    BY <1>6, <1>8, <1>9
<1>11. DOMAIN fr.args = DOMAIN Top.args \cup {Len(Top.args) + 1}
    BY <1>10
<1>12. fr \in Frame
    BY <1>2, <1>8, <1>9, <1>10 DEF Frame
<1>13. BlocksOf(fr) = BlocksOf(Top) \cup new
    BY <1>7, <1>9, <1>10, <1>11 DEF BlocksOf
<1>14. Sources(fr) = Sources(Top) \cup {arg.ref}
    BY <1>9, <1>10, <1>11 DEF Sources
<1>15. Tidy(Top) /\ Backed(Top) /\ Accounted
    BY <1>1, <1>2 DEF Parts
<1>16. BlocksOf(Top) \cap new = {}
    BY <1>2, <1>4, <1>15, BlocksAreLive
<1>17. Tidy(fr)
    <2>1. \A i \in DOMAIN Top.args : Owned(Top.args[i]) \cap new = {}
        BY <1>16 DEF BlocksOf
    <2>2. Top.result \notin new
        BY <1>4, <1>16, NoneAssumption DEF BlocksOf
    <2>3. \A i, j \in DOMAIN fr.args :
              i # j => Owned(fr.args[i]) \cap Owned(fr.args[j]) = {}
        BY <1>7, <1>10, <1>11, <1>15, <2>1 DEF Tidy
    <2>4. \A i \in DOMAIN fr.args : /\ fr.args[i].storage # fr.args[i].scope
                                    /\ fr.result \notin Owned(fr.args[i])
                                    /\ fr.args[i].ref.to = "text" =>
                                          fr.args[i].ref.block = fr.args[i].scope
        BY <1>4, <1>6, <1>7, <1>9, <1>10, <1>11, <1>15, <2>2 DEF Tidy
    <2> QED
        BY <1>9, <1>15, <2>3, <2>4 DEF Tidy
<1>18. Backed(fr)
    BY <1>6, <1>9, <1>14, <1>15 DEF Backed
<1>19. fr.answer = Plain \/ \E n \in DOMAIN stack : fr.answer \in Sources(stack[n])
    BY <1>1, <1>2, <1>9 DEF Parts, AnswerIsLent
<1>20. Sources(Top) \subseteq Sources(fr)
    BY <1>14
<1> HIDE DEF fr, new
<1> QED
    BY <1>1, <1>3, <1>4, <1>12, <1>13, <1>17, <1>18, <1>19, <1>20, BecomeIInv

\* The C function is called: its result has storage of its own.
LEMMA CallCIInv ==
    ASSUME IInv, NEW b \in Blocks \cup {None}, CallC(b)
    PROVE  IInv'
<1> DEFINE fr == [Top EXCEPT !.phase = "inC", !.result = b]
           new == {b} \ {None}
<1>1. Parts /\ TypeOK /\ stack # <<>> /\ Top.phase = "preparing"
    BY Regrouped DEF Parts, CallC, In
<1>2. Top \in Frame /\ Len(stack) \in DOMAIN stack /\ Top = stack[Len(stack)]
      /\ DOMAIN stack = 1 .. Len(stack)
    BY <1>1, TopProperties
<1>3. Become(fr) /\ live' = live \cup new /\ UNCHANGED <<objects, process>>
    BY DEF CallC
<1>4. new \cap live = {} /\ new \subseteq Blocks
    BY DEF CallC
<1>5. /\ fr.phase = "inC"
      /\ fr.sig = Top.sig
      /\ fr.args = Top.args
      /\ fr.result = b
      /\ fr.taken = Top.taken
      /\ fr.handles = Top.handles
      /\ fr.answer = Top.answer
    BY <1>2 DEF Frame
<1>6. fr \in Frame
    BY <1>2 DEF Frame
<1>7. Tidy(Top) /\ Backed(Top) /\ Accounted
    BY <1>1, <1>2 DEF Parts
<1> HIDE DEF fr
<1>8. Top.result = None
    BY <1>1, <1>7 DEF Tidy
<1>9. BlocksOf(fr) = BlocksOf(Top) \cup new
    BY <1>5, <1>8 DEF BlocksOf
<1>10. Sources(fr) = Sources(Top)
    BY <1>5 DEF Sources
<1>11. Tidy(fr)
    <2>1. \A i \in DOMAIN Top.args : Owned(Top.args[i]) \subseteq BlocksOf(Top)
        BY DEF BlocksOf
    <2>2. BlocksOf(Top) \subseteq live
        BY <1>2, <1>7, BlocksAreLive
    <2>3. \A i \in DOMAIN Top.args : b \notin Owned(Top.args[i])
        BY <1>4, <2>1, <2>2 DEF Owned
    <2> QED
        BY <1>5, <1>7, <2>3 DEF Tidy
<1>12. Backed(fr)
    BY <1>5, <1>7, <1>10 DEF Backed
<1>13. fr.answer = Plain \/ \E n \in DOMAIN stack : fr.answer \in Sources(stack[n])
    BY <1>1, <1>2, <1>5 DEF Parts, AnswerIsLent
<1> HIDE DEF new
<1> QED
    BY <1>1, <1>3, <1>4, <1>6, <1>9, <1>10, <1>11, <1>12, <1>13, BecomeIInv

\* A step of the call in progress that allocates nothing, and lends what has a
\* handle.
LEMMA LendIInv ==
    ASSUME IInv, stack # <<>>, NEW fr \in Frame, Become(fr),
           fr.args = Top.args, fr.result = Top.result, fr.phase # "preparing",
           NEW refs, fr.taken = Top.taken \cup refs,
           \A r \in refs : r.to # "text" /\ (r.to = "bytes" =>
                              r.object \in fr.handles /\ r.object \notin detached),
           Top.handles \subseteq fr.handles, fr.handles \subseteq alive,
           fr.answer = Plain \/ \E n \in DOMAIN stack : fr.answer \in Sources(stack[n]),
           UNCHANGED <<live, objects, process>>
    PROVE  IInv'
<1>1. Parts /\ TypeOK
    BY Regrouped DEF Parts
<1>2. Len(stack) \in DOMAIN stack /\ Top = stack[Len(stack)]
    BY <1>1, TopProperties
<1>3. Tidy(Top) /\ Backed(Top)
    BY <1>1, <1>2 DEF Parts
<1>4. BlocksOf(fr) = BlocksOf(Top) \cup {}
    BY DEF BlocksOf
<1>5. Sources(fr) = Sources(Top) \cup refs
    BY DEF Sources
<1>6. Tidy(fr)
    BY <1>3 DEF Tidy
<1>7. Backed(fr)
    BY <1>3, <1>5 DEF Backed
<1>8. {} \in SUBSET Blocks /\ {} \cap live = {} /\ live' = live \cup {}
    OBVIOUS
<1>9. Sources(Top) \subseteq Sources(fr) /\ UNCHANGED <<objects, process>>
    BY <1>5
<1> QED
    BY <1>4, <1>6, <1>7, <1>8, <1>9, BecomeIInv

\* What C code was lent, it may return.
LEMMA LentMayBeAnswered ==
    ASSUME IInv, stack # <<>>, NEW r \in AllLent
    PROVE  r \in Reference /\ (r = Plain \/ \E n \in DOMAIN stack : r \in Sources(stack[n]))
<1>1. r = Plain \/ \E n \in DOMAIN stack : r \in Sources(stack[n])
    BY LentIsSourced
<1>2. Plain \in Reference
    BY DEF Reference
<1>3. \A n \in DOMAIN stack : Sources(stack[n]) \subseteq Reference
    BY SourcesAreReferences DEF IInv, TypeOK
<1> QED
    BY <1>1, <1>2, <1>3

\* A callback starts, a callback returns, the C function returns.
LEMMA CIInv ==
    ASSUME IInv, C
    PROVE  IInv'
<1>1. Parts /\ TypeOK /\ held \subseteq alive
    BY Regrouped DEF Parts
<1>2. ASSUME stack # <<>>
      PROVE  /\ Top \in Frame
             /\ Backed(Top)
             /\ Top.handles \subseteq Objects /\ Top.taken \subseteq Reference
             /\ Top.handles \subseteq alive
             /\ Top.answer = Plain \/ \E n \in DOMAIN stack : Top.answer \in Sources(stack[n])
    <2>1. Top \in Frame /\ Len(stack) \in DOMAIN stack /\ Top = stack[Len(stack)]
          /\ DOMAIN stack = 1 .. Len(stack)
        BY <1>1, <1>2, TopProperties
    <2>2. Backed(Top)
        BY <1>1, <2>1 DEF Parts
    <2>3. Top.answer = Plain \/ \E n \in DOMAIN stack : Top.answer \in Sources(stack[n])
        BY <1>1, <2>1 DEF Parts, AnswerIsLent
    <2> QED
        BY <2>1, <2>2, <2>3 DEF Backed, Frame
<1>3. ASSUME NEW r \in AllLent, EnterCallback(r) PROVE IInv'
    <2> DEFINE fr == [Top EXCEPT !.phase = "inCallback"]
               refs == {}
    <2>1. stack # <<>> /\ Become(fr) /\ UNCHANGED <<live, objects, process>>
        BY <1>3 DEF EnterCallback, In
    <2>2. /\ fr \in Frame /\ fr.args = Top.args /\ fr.result = Top.result
          /\ fr.phase # "preparing" /\ fr.taken = Top.taken \cup refs
          /\ fr.handles = Top.handles /\ fr.answer = Top.answer
        BY <1>2, <2>1 DEF Frame
    <2>3. /\ \A x \in refs : x.to # "text" /\ (x.to = "bytes" =>
                                x.object \in fr.handles /\ x.object \notin detached)
          /\ Top.handles \subseteq fr.handles /\ fr.handles \subseteq alive
        BY <1>2, <2>1, <2>2
    <2> HIDE DEF fr, refs
    <2> QED
        BY <1>2, <2>1, <2>2, <2>3, LendIInv
<1>4. ASSUME NEW type \in Types \cup {"void"}, NEW v \in Value, NEW b \in Blocks \cup {None},
             NEW c \in Blocks \cup {None}, CallbackReturns(type, v, b, c)
      PROVE  IInv'
    <2> DEFINE refs == IF type = "void" THEN {} ELSE {Stored(v, c)}
               fr == [Top EXCEPT !.phase = "inC", !.taken = @ \cup refs,
                                 !.handles = @ \cup HandleOf(v)]
    <2>1. stack # <<>> /\ Become(fr) /\ UNCHANGED <<live, objects, process>>
        BY <1>4 DEF CallbackReturns, In
    <2>2. type # "void" => v # "text"
        BY <1>4, <1>1, ObjectAssumption DEF CallbackReturns, ResultAccepted, Types, TypeOK
    <2>3. v = "text" => type = "void"
        BY <2>2
    <2>4. type # "void" =>
             /\ Stored(v, c) \in Reference
             /\ Stored(v, c).to # "text"
             /\ Stored(v, c).to = "bytes" => Stored(v, c).object \in HandleOf(v) \ detached
        BY <1>1, <2>2, StoredProperties
    <2>5. HandleOf(v) \subseteq alive /\ HandleOf(v) \subseteq Objects
        BY <1>1, ObjectAssumption DEF HandleOf, Value, TypeOK
    <2>6. /\ refs \subseteq Reference
          /\ \A r \in refs : r.to # "text" /\ (r.to = "bytes" => r.object \in HandleOf(v) \ detached)
        BY <2>4
    <2> HIDE DEF refs
    <2>7. /\ fr.args = Top.args /\ fr.result = Top.result /\ fr.sig = Top.sig
          /\ fr.phase = "inC" /\ fr.taken = Top.taken \cup refs
          /\ fr.handles = Top.handles \cup HandleOf(v) /\ fr.answer = Top.answer
        BY <1>2, <2>1 DEF Frame
    <2>8. fr \in Frame
        BY <1>2, <2>1, <2>5, <2>6, <2>7 DEF Frame
    <2> HIDE DEF fr
    <2>9. \A r \in refs : r.to # "text" /\ (r.to = "bytes" =>
                             r.object \in fr.handles /\ r.object \notin detached)
        BY <2>6, <2>7
    <2>10. Top.handles \subseteq fr.handles /\ fr.handles \subseteq alive /\ fr.phase # "preparing"
        BY <1>2, <2>1, <2>5, <2>7
    <2>11. fr.answer = Plain \/ \E n \in DOMAIN stack : fr.answer \in Sources(stack[n])
        BY <1>2, <2>1, <2>7
    <2> QED
        BY <2>1, <2>7, <2>8, <2>9, <2>10, <2>11, LendIInv
<1>5. ASSUME NEW r \in AllLent, ReturnFromC(r) PROVE IInv'
    <2> DEFINE fr == [Top EXCEPT !.phase = "returned", !.answer = r]
               refs == {}
    <2>1. stack # <<>> /\ Become(fr) /\ UNCHANGED <<live, objects, process>>
        BY <1>5 DEF ReturnFromC, In
    <2>2. r \in Reference /\ (r = Plain \/ \E n \in DOMAIN stack : r \in Sources(stack[n]))
        BY <2>1, LentMayBeAnswered
    <2>3. /\ fr \in Frame /\ fr.args = Top.args /\ fr.result = Top.result
          /\ fr.phase # "preparing" /\ fr.taken = Top.taken \cup refs
          /\ fr.handles = Top.handles /\ fr.answer = r
        BY <1>2, <2>1, <2>2 DEF Frame
    <2>4. /\ \A x \in refs : x.to # "text" /\ (x.to = "bytes" =>
                                x.object \in fr.handles /\ x.object \notin detached)
          /\ Top.handles \subseteq fr.handles /\ fr.handles \subseteq alive
        BY <1>2, <2>1, <2>3
    <2> HIDE DEF fr, refs
    <2> QED
        BY <1>2, <2>1, <2>2, <2>3, <2>4, LendIInv
<1>6. ASSUME CallbackAborts \/ ReadFreed PROVE IInv'
    <2>1. UNCHANGED <<live, stack, objects>> /\ process' \in {"aborted", "undefined"}
        BY <1>6 DEF CallbackAborts, ReadFreed
    <2>2. process' = "undefined" => detachedInUse
        <3>1. CASE CallbackAborts
            BY <3>1 DEF CallbackAborts
        <3>2. CASE ReadFreed
            <4>1. \E r \in AllLent : ~Readable(r)
                <5>1. Top.answer \in AllLent \/ stack = <<>>
                    BY <1>1, TopProperties DEF AllLent, Lent
                <5> QED
                    BY <3>2, <5>1 DEF ReadFreed, In
            <4> QED
                BY <4>1, Readability
        <3> QED
            BY <1>6, <3>1, <3>2
    <2>3. TypeOK' /\ (held \subseteq alive)' /\ Accounted' /\ OthersInCallback' /\ AnswerIsLent'
        BY <1>1, <2>1 DEF Parts, TypeOK, Accounted, OthersInCallback, AnswerIsLent, objects
    <2>4. (\A n \in DOMAIN stack : Tidy(stack[n]))' /\ (\A n \in DOMAIN stack : Backed(stack[n]))'
        BY <1>1, <2>1 DEF Parts, Tidy, Backed, objects
    <2>5. UndefinedOnlyAfterDetach'
        BY <2>1, <2>2 DEF UndefinedOnlyAfterDetach, objects
    <2> QED
        BY <2>3, <2>4, <2>5, Regrouped DEF Parts
<1> QED
    BY <1>3, <1>4, <1>5, <1>6 DEF C

\* The program lets objects go and takes bytes away, the collector frees.
LEMMA HeapIInv ==
    ASSUME IInv, NEW o \in Objects, DropObject(o) \/ Detach(o) \/ Collect(o)
    PROVE  IInv'
<1>1. Parts /\ TypeOK /\ held \subseteq alive
    BY Regrouped DEF Parts
<1>2. UNCHANGED <<live, stack, process>>
    BY DEF DropObject, Detach, Collect
<1>3. TypeOK' /\ (held \subseteq alive)' /\ (detachedInUse => detachedInUse')
    <2>1. CASE DropObject(o)
        BY <1>1, <2>1 DEF TypeOK, DropObject
    <2>2. CASE Detach(o)
        BY <1>1, <2>2 DEF TypeOK, Detach
    <2>3. CASE Collect(o)
        BY <1>1, <2>3 DEF TypeOK, Collect
    <2> QED
        BY <2>1, <2>2, <2>3
<1>4. Accounted' /\ OthersInCallback' /\ AnswerIsLent' /\ UndefinedOnlyAfterDetach'
    BY <1>1, <1>2, <1>3 DEF Parts, Accounted, OthersInCallback, AnswerIsLent,
        UndefinedOnlyAfterDetach
<1>5. (\A n \in DOMAIN stack : Tidy(stack[n]))'
    BY <1>1, <1>2 DEF Parts
<1>6. ASSUME NEW n \in DOMAIN stack
      PROVE  /\ stack[n].handles \subseteq alive'
             /\ \A r \in Sources(stack[n]) : r.to = "bytes" =>
                   r.object \in stack[n].handles /\ (r.object \in detached' => detachedInUse')
    <2>1. Backed(stack[n]) /\ stack[n] \in Frame
        BY <1>1 DEF Parts, TypeOK
    <2>2. CASE DropObject(o)
        BY <2>1, <2>2 DEF Backed, DropObject
    <2>3. CASE Detach(o)
        <3>1. ASSUME NEW r \in Sources(stack[n]), r.to = "bytes", r.object = o
              PROVE  detachedInUse'
            <4>1. r \in AllLent
                BY DEF AllLent, Lent, Sources
            <4>2. r \in Reference
                BY <2>1, SourcesAreReferences
            <4>3. r = Bytes(o)
                BY <3>1, <4>2 DEF Reference, Plain, Text, Bytes
            <4> QED
                BY <2>3, <4>1, <4>3 DEF Detach
        <3>2. alive' = alive /\ detached' = detached \cup {o} /\ (detachedInUse => detachedInUse')
            BY <2>3, <1>3 DEF Detach
        <3> QED
            BY <2>1, <3>1, <3>2 DEF Backed
    <2>4. CASE Collect(o)
        BY <2>1, <2>4 DEF Backed, Collect
    <2> QED
        BY <2>2, <2>3, <2>4
<1>7. (\A n \in DOMAIN stack : Backed(stack[n]))'
    BY <1>2, <1>6 DEF Backed
<1> QED
    BY <1>3, <1>4, <1>5, <1>7, Regrouped DEF Parts

\* Every step, and no step, preserves the invariant.
LEMMA NextIInv == IInv /\ [Next]_vars => IInv'
<1> SUFFICES ASSUME IInv, [Next]_vars PROVE IInv'
    OBVIOUS
<1>1. CASE Call
    <2>1. ASSUME PrepareFails \/ ConvertResult PROVE IInv'
        BY <2>1, FinishIInv DEF PrepareFails, ConvertResult, In
    <2> QED
        BY <1>1, <2>1, InvokeIInv, PrepareIInv, CallCIInv DEF Call
<1>2. CASE UNCHANGED vars
    <2>1. UNCHANGED <<live, stack, held, alive, detached, process, detachedInUse>>
        BY <1>2 DEF vars, objects
    <2> QED
        BY <2>1 DEF IInv, TypeOK, OwnedOnce, OthersInCallback, ResultComesLast, TextIsScoped,
            BytesAreHandled, AnswerIsLent, DetachedIsNoticed, UndefinedOnlyAfterDetach
<1> QED
    BY <1>1, <1>2, CIInv, HeapIInv DEF Next, Heap

-----------------------------------------------------------------------------
(* The theorems.                                                           *)

\* The invariant is inductive: every reachable state satisfies it.
THEOREM Inductive == Spec => []IInv
BY InitIInv, NextIInv, PTL DEF Spec

\* Every variable keeps its type: a call in progress lends and owns blocks,
\* C strings and bytes of objects only.
THEOREM TypeCorrect == Spec => []TypeOK
<1>1. IInv => TypeOK
    BY DEF IInv
<1> QED
    BY <1>1, Inductive, PTL

\* Every block of memory is owned by exactly one call in progress: a call that
\* returns, or fails half-way through its arguments, leaks and frees twice
\* nothing.
THEOREM BlocksAreOwnedOnce == Spec => []OwnedOnce
<1>1. IInv => OwnedOnce
    BY DEF IInv
<1> QED
    BY <1>1, Inductive, PTL

\* What C code was lent stays readable while the call that lent it lasts,
\* unless the program detaches it.
THEOREM LentStaysReadable == Spec => []LentIsReadable
<1>1. IInv => LentIsReadable
    BY Readability DEF LentIsReadable
<1> QED
    BY <1>1, Inductive, PTL

\* Nothing that is gone is read unless the program detached bytes C code had.
THEOREM DefinedUnlessDetached == Spec => []UndefinedOnlyAfterDetach
<1>1. IInv => UndefinedOnlyAfterDetach
    BY DEF IInv
<1> QED
    BY <1>1, Inductive, PTL
=============================================================================
