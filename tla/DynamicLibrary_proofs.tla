----------------------- MODULE DynamicLibrary_proofs -----------------------
(***************************************************************************)
(* Proofs about DynamicLibrary, for any sets of threads, libraries,        *)
(* symbols, addresses and functions and any nesting of calls.              *)
(***************************************************************************)
EXTENDS DynamicLibrary, TLAPS

-----------------------------------------------------------------------------
(* Stacks.                                                                 *)

\* Popping a nonempty stack keeps the activations below its top.
LEMMA PopProperties ==
    ASSUME NEW S, NEW s \in Seq(S), s # <<>>
    PROVE  /\ Pop(s) \in Seq(S)
           /\ Len(s) \in DOMAIN s
           /\ DOMAIN Pop(s) = 1 .. (Len(s) - 1)
           /\ DOMAIN Pop(s) \subseteq DOMAIN s
           /\ \A i \in DOMAIN Pop(s) : Pop(s)[i] = s[i]
BY DEF Pop

\* Pushing an activation keeps those that were there.
LEMMA PushProperties ==
    ASSUME NEW S, NEW s \in Seq(S), NEW e \in S
    PROVE  /\ Append(s, e) \in Seq(S)
           /\ DOMAIN Append(s, e) = 1 .. (Len(s) + 1)
           /\ DOMAIN s = 1 .. Len(s)
           /\ \A i \in DOMAIN s : Append(s, e)[i] = s[i]
           /\ Append(s, e)[Len(s) + 1] = e
OBVIOUS

-----------------------------------------------------------------------------
(* Freeing bindings.                                                       *)

\* Freeing the bindings at ps keeps every stack's height and every activation,
\* but for the mark on the running callbacks that lose their binding.
LEMMA FreeStack ==
    ASSUME TypeOK, NEW ps \in SUBSET Ptrs, Free(ps), NEW t \in Threads
    PROVE  /\ stack'[t] \in Seq(Frame)
           /\ DOMAIN stack'[t] = DOMAIN stack[t]
           /\ \A i \in DOMAIN stack[t] :
                /\ stack[t][i] \in Frame
                /\ stack'[t][i] \in Frame
                /\ stack'[t][i].kind = stack[t][i].kind
                /\ stack'[t][i].lib = stack[t][i].lib
                /\ stack'[t][i].sym = stack[t][i].sym
                /\ stack'[t][i].sig = stack[t][i].sig
                /\ stack'[t][i].ptr = stack[t][i].ptr
                /\ stack'[t][i].fn = stack[t][i].fn
                /\ stack[t][i].kind = "callback" /\ stack[t][i].ptr \in ps =>
                      stack'[t][i].dangling
                /\ ~(stack[t][i].kind = "callback" /\ stack[t][i].ptr \in ps) =>
                      stack'[t][i] = stack[t][i]
<1>1. stack[t] \in Seq(Frame)
    BY DEF TypeOK
<1>2. DOMAIN stack[t] = 1 .. Len(stack[t]) /\ Len(stack[t]) \in Nat
    BY <1>1
<1>3. \A i \in 1 .. Len(stack[t]) : stack[t][i] \in Frame
    BY <1>1
<1>4. stack'[t] = [i \in 1 .. Len(stack[t]) |-> Mark(stack[t][i], ps)]
    BY <1>2 DEF Free
<1>5. ASSUME NEW fr \in Frame
      PROVE  /\ Mark(fr, ps) \in Frame
             /\ Mark(fr, ps).kind = fr.kind
             /\ Mark(fr, ps).lib = fr.lib
             /\ Mark(fr, ps).sym = fr.sym
             /\ Mark(fr, ps).sig = fr.sig
             /\ Mark(fr, ps).ptr = fr.ptr
             /\ Mark(fr, ps).fn = fr.fn
             /\ fr.kind = "callback" /\ fr.ptr \in ps => Mark(fr, ps).dangling
             /\ ~(fr.kind = "callback" /\ fr.ptr \in ps) => Mark(fr, ps) = fr
    BY DEF Frame, InvokeFrame, CallbackFrame, RegisterFrame, Mark
<1>6. \A i \in 1 .. Len(stack[t]) : stack'[t][i] = Mark(stack[t][i], ps)
    BY <1>4
<1>7. [i \in 1 .. Len(stack[t]) |-> Mark(stack[t][i], ps)] \in Seq(Frame)
    BY <1>2, <1>3, <1>5
<1>8. stack'[t] \in Seq(Frame) /\ DOMAIN stack'[t] = DOMAIN stack[t]
    BY <1>2, <1>4, <1>7
<1> QED
    BY <1>2, <1>3, <1>5, <1>6, <1>8

\* Freeing bindings keeps the types.
LEMMA FreeTypes ==
    ASSUME TypeOK, NEW ps \in SUBSET Ptrs, Free(ps)
    PROVE  /\ callbacks' \in [Ptrs -> Binding]
           /\ stack' \in [Threads -> Seq(Frame)]
           /\ releasedInUse' \in BOOLEAN
<1>1. callbacks' \in [Ptrs -> Binding]
    BY DEF TypeOK, Free, Binding, NoBinding
<1>2. stack' = [t \in Threads |-> stack'[t]]
    BY DEF Free
<1>3. stack' \in [Threads -> Seq(Frame)]
    BY <1>2, FreeStack
<1>4. releasedInUse' \in BOOLEAN
    BY DEF TypeOK, Free
<1> QED
    BY <1>1, <1>3, <1>4

\* When nothing else is let go, the functions of the freed bindings that their
\* CallbackRef objects keep, and all others that were kept, are alive.
LEMMA OrphanAlive ==
    ASSUME KeptIsAlive, NEW ps \in SUBSET Ptrs, Orphan(ps), UNCHANGED <<heldFns, alive>>
    PROVE  /\ heldFns' \subseteq alive'
           /\ orphans' \subseteq alive'
           /\ \A f \in Fns : Running(f) => f \in alive'
           /\ \A p \in Ptrs : callbacks[p].holder => callbacks[p].fn \in alive'
BY DEF Orphan, KeptIsAlive

-----------------------------------------------------------------------------
(* The inductive invariant: one lemma for each kind of step.               *)

\* Before any library is created there is nothing for the invariant to
\* relate.
LEMMA InitIInv == Init => IInv
<1> SUFFICES ASSUME Init PROVE IInv
    OBVIOUS
<1>1. \A t \in Threads : \A i \in DOMAIN stack[t] : FALSE
    BY DEF Init
<1>2. TypeOK
    <2>1. NoBinding \in Binding
        BY DEF Binding, NoBinding
    <2>2. stack \in [Threads -> Seq(Frame)]
        BY DEF Init
    <2> QED
        BY <2>1, <2>2 DEF Init, TypeOK
<1>3. /\ RunningCallIntact /\ RunningCallbackBacked
      /\ RegistrationSound /\ CarriedIsRegistered
    BY <1>1 DEF Init, RunningCallIntact, RunningCallbackBacked, RegistrationSound,
                CarriedIsRegistered, Carried
<1>4. UndefinedOnlyAfterRelease
    BY DEF Init, UndefinedOnlyAfterRelease
<1>5. ClosedIsEmpty
    BY NoneAssumption DEF Init, ClosedIsEmpty, BindingsOf, Registered, NoBinding
<1>6. KeptIsAlive
    BY <1>1 DEF Init, KeptIsAlive, Running, NoBinding
<1> QED
    BY <1>2, <1>3, <1>4, <1>5, <1>6 DEF IInv

\* Steps after which the process no longer runs change nothing else.
LEMMA StopIInv ==
    ASSUME IInv,
           UNCHANGED <<library, functions, callbacks, stack, memory, history>>,
           process' = "aborted" \/ (process' = "undefined" /\ releasedInUse)
    PROVE  IInv'
<1>1. TypeOK'
    BY DEF IInv, TypeOK, memory, history
<1>2. RunningCallIntact'
    BY DEF IInv, RunningCallIntact
<1>3. RunningCallbackBacked'
    BY DEF IInv, RunningCallbackBacked, history
<1>4. UndefinedOnlyAfterRelease'
    BY DEF UndefinedOnlyAfterRelease, history
<1>5. ClosedIsEmpty'
    BY DEF IInv, ClosedIsEmpty, BindingsOf, Registered, history
<1>6. CarriedIsRegistered'
    BY DEF IInv, CarriedIsRegistered, Carried, Registered, memory, history
<1>7. KeptIsAlive'
    BY DEF IInv, KeptIsAlive, Running, Registered, memory, history
<1>8. RegistrationSound'
    BY DEF IInv, RegistrationSound, history
<1> QED
    BY <1>1, <1>2, <1>3, <1>4, <1>5, <1>6, <1>7, <1>8 DEF IInv

\* An address that C code has explains why a step executes freed memory.
LEMMA CallFreedIInv ==
    ASSUME IInv, NEW p \in Ptrs, CallFreed(p)
    PROVE  IInv'
<1>1. releasedInUse
    BY DEF IInv, CarriedIsRegistered, CallFreed
<1> QED
    BY <1>1, StopIInv DEF CallFreed, Undefined

\* The mark of the running callback explains why it returns into freed memory.
LEMMA ReturnDanglingIInv ==
    ASSUME IInv, NEW t \in Threads, ReturnDangling(t)
    PROVE  IInv'
<1>1. stack[t] \in Seq(Frame) /\ stack[t] # <<>>
    BY DEF IInv, TypeOK, ReturnDangling
<1>2. Len(stack[t]) \in DOMAIN stack[t] /\ Top(stack[t]) \in Frame
    BY <1>1 DEF Top
<1>3. Top(stack[t]).kind = "callback"
    BY DEF ReturnDangling
<1>4. releasedInUse
    BY <1>2, <1>3 DEF IInv, RunningCallbackBacked, ReturnDangling, Top
<1> QED
    BY <1>4, StopIInv DEF ReturnDangling, Undefined

\* Freeing bindings: what it may do to libraries is to empty some that no
\* running call has borrowed, and to functions, to let go of some that neither
\* a running callback nor a remaining binding keeps.
LEMMA FreeIInv ==
    ASSUME IInv, NEW ps \in SUBSET Ptrs, Free(ps),
           UNCHANGED <<process, kept>>,
           process = "running",
           heldLibs' \subseteq heldLibs,
           heldFns' \subseteq alive',
           orphans' \subseteq alive',
           alive' \subseteq alive,
           \A f \in Fns : Running(f) => f \in alive',
           \A p \in Ptrs \ ps : callbacks[p].holder => callbacks[p].fn \in alive',
           library' \in [Libs -> {"absent", "open", "closed", "dropped"}],
           functions' \in [Libs -> [Symbols -> Sigs \cup {None}]],
           \A l \in Libs : Borrowed(l) => /\ library'[l] = library[l]
                                          /\ functions'[l] = functions[l],
           overtaken \subseteq overtaken' /\ overtaken' \subseteq Libs,
           \A l \in Libs : library'[l] # "open" =>
               /\ functions'[l] = [s \in Symbols |-> None]
               /\ BindingsOf(l) \subseteq ps \/ (library'[l] = "closed" /\ l \in overtaken'),
           \A l \in Libs : Registering(l) /\ library'[l] # "open" =>
               library'[l] = "closed" /\ l \in overtaken'
    PROVE  IInv'
<1>1. TypeOK'
    BY FreeTypes DEF IInv, TypeOK
<1>2. RunningCallIntact'
    <2> SUFFICES ASSUME NEW t \in Threads, NEW i \in DOMAIN stack[t],
                        stack[t][i].kind = "invoke"
                 PROVE  /\ library'[stack[t][i].lib] = "open"
                        /\ functions'[stack[t][i].lib][stack[t][i].sym] = stack[t][i].sig
                        /\ LibThread[stack[t][i].lib] = t
        BY FreeStack DEF IInv, RunningCallIntact
    <2>1. stack[t][i].lib \in Libs
        <3>1. stack[t][i] \in Frame
            BY FreeStack DEF IInv
        <3> QED
            BY <3>1 DEF Frame, InvokeFrame, CallbackFrame, RegisterFrame
    <2>2. Borrowed(stack[t][i].lib)
        BY DEF Borrowed
    <2> QED
        BY <2>1, <2>2 DEF IInv, RunningCallIntact
<1>3. RunningCallbackBacked'
    <2> SUFFICES ASSUME NEW t \in Threads, NEW i \in DOMAIN stack[t],
                        stack[t][i].kind = "callback"
                 PROVE  /\ FnThread[stack'[t][i].fn] = t
                        /\ \/ stack'[t][i].dangling /\ releasedInUse'
                           \/ /\ ~stack'[t][i].dangling
                              /\ callbacks'[stack'[t][i].ptr].lib = stack'[t][i].lib
                              /\ callbacks'[stack'[t][i].ptr].fn = stack'[t][i].fn
                              /\ callbacks'[stack'[t][i].ptr].thread = t
        BY FreeStack DEF IInv, RunningCallbackBacked
    <2>1. CASE stack[t][i].ptr \in ps
        <3>1. Carried(stack[t][i].ptr)
            BY DEF Carried
        <3>2. stack'[t][i].dangling
            BY <2>1, FreeStack DEF IInv
        <3>4. releasedInUse'
            BY <2>1, <3>1 DEF Free
        <3>3. FnThread[stack'[t][i].fn] = t
            BY FreeStack DEF IInv, RunningCallbackBacked
        <3> QED
            BY <3>2, <3>3, <3>4
    <2>2. CASE stack[t][i].ptr \notin ps
        <3>1. stack'[t][i] = stack[t][i]
            BY <2>2, FreeStack DEF IInv
        <3>2. releasedInUse => releasedInUse'
            BY DEF Free
        <3>3. ASSUME ~stack[t][i].dangling
              PROVE  callbacks'[stack[t][i].ptr] = callbacks[stack[t][i].ptr]
            <4>1. callbacks[stack[t][i].ptr].lib = stack[t][i].lib
                BY <3>3 DEF IInv, RunningCallbackBacked
            <4>2. stack[t][i] \in Frame
                BY FreeStack DEF IInv
            <4>3. stack[t][i].ptr \in Ptrs
                BY <4>2 DEF Frame, InvokeFrame, CallbackFrame, RegisterFrame
            <4> QED
                BY <2>2, <4>3 DEF Free
        <3> QED
            BY <3>1, <3>2, <3>3 DEF IInv, RunningCallbackBacked
    <2> QED
        BY <2>1, <2>2
<1>4. UndefinedOnlyAfterRelease'
    BY DEF UndefinedOnlyAfterRelease
<1>5. ClosedIsEmpty'
    <2>1. \A p \in Ptrs : /\ p \in ps => ~Registered(p)'
                          /\ p \notin ps => callbacks'[p] = callbacks[p]
        BY DEF Registered, Free, NoBinding
    <2>2. ASSUME NEW l \in Libs, library'[l] # "open"
          PROVE  /\ functions'[l] = [s \in Symbols |-> None]
                 /\ BindingsOf(l)' # {} => library'[l] = "closed" /\ l \in overtaken'
        <3>1. BindingsOf(l)' \subseteq BindingsOf(l) \ ps
            BY <2>1, NoneAssumption DEF BindingsOf, Registered
        <3> QED
            BY <2>2, <3>1
    <2>3. ASSUME NEW p \in Ptrs, Registered(p)'
          PROVE  /\ callbacks'[p].thread = LibThread[callbacks'[p].lib]
                 /\ callbacks'[p].fn \in FnsOf(callbacks'[p].thread)
        BY <2>1, <2>3 DEF IInv, ClosedIsEmpty, Registered
    <2> QED
        BY <2>2, <2>3 DEF ClosedIsEmpty
<1>6. CarriedIsRegistered'
    <2> SUFFICES ASSUME NEW p \in Ptrs, Carried(p)'
                 PROVE  Registered(p)' \/ releasedInUse'
        BY DEF CarriedIsRegistered
    <2>1. Carried(p)
        BY FreeStack DEF IInv, Carried
    <2>2. p \in ps => releasedInUse'
        BY <2>1 DEF Free
    <2>3. p \notin ps => Registered(p)' \/ releasedInUse'
        BY <2>1 DEF IInv, CarriedIsRegistered, Registered, Free
    <2> QED
        BY <2>2, <2>3
<1>7. KeptIsAlive'
    <2>1. \A f \in Fns : Running(f)' => Running(f)
        BY FreeStack DEF IInv, Running
    <2> QED
        BY <2>1 DEF IInv, KeptIsAlive, Registered, Free, NoBinding
<1>8. RegistrationSound'
    <2> SUFFICES ASSUME NEW t \in Threads, NEW i \in DOMAIN stack[t],
                        stack[t][i].kind = "register"
                 PROVE  /\ LibThread[stack[t][i].lib] = t /\ FnThread[stack[t][i].fn] = t
                        /\ library'[stack[t][i].lib] # "open" =>
                               library'[stack[t][i].lib] = "closed" /\ stack[t][i].lib \in overtaken'
        BY FreeStack DEF IInv, RegistrationSound
    <2>1. stack[t][i] \in Frame
        BY FreeStack DEF IInv
    <2>2. stack[t][i].lib \in Libs /\ Registering(stack[t][i].lib)
        BY <2>1 DEF Registering, Frame, InvokeFrame, CallbackFrame, RegisterFrame
    <2> QED
        BY <2>2 DEF IInv, RegistrationSound
<1> QED
    BY <1>1, <1>2, <1>3, <1>4, <1>5, <1>6, <1>7, <1>8 DEF IInv

\* A new activation on top of the stack of t, intact or backed when it starts.
LEMMA PushIInv ==
    ASSUME IInv, NEW t \in Threads, NEW fr \in Frame,
           stack' = [stack EXCEPT ![t] = Append(@, fr)],
           UNCHANGED <<library, functions, callbacks, process, memory, history>>,
           process = "running",
           fr.kind = "invoke" => /\ library[fr.lib] = "open"
                                 /\ functions[fr.lib][fr.sym] = fr.sig
                                 /\ LibThread[fr.lib] = t,
           fr.kind = "callback" => /\ FnThread[fr.fn] = t
                                   /\ ~fr.dangling
                                   /\ callbacks[fr.ptr].lib = fr.lib
                                   /\ callbacks[fr.ptr].fn = fr.fn
                                   /\ callbacks[fr.ptr].thread = t,
           fr.kind = "register" => /\ LibThread[fr.lib] = t /\ FnThread[fr.fn] = t
                                   /\ library[fr.lib] = "open",
           fr.ptr # None => Registered(fr.ptr),
           fr.fn # None => fr.fn \in alive
    PROVE  IInv'
<1>1. \A u \in Threads : stack[u] \in Seq(Frame)
    BY DEF IInv, TypeOK
<1>2. \A u \in Threads : u # t => stack'[u] = stack[u]
    BY DEF IInv, TypeOK
<1>3. stack'[t] = Append(stack[t], fr)
    BY DEF IInv, TypeOK
<1>4. stack' \in [Threads -> Seq(Frame)]
    BY <1>1, PushProperties DEF IInv, TypeOK
<1>5. ASSUME NEW u \in Threads, NEW i \in DOMAIN stack'[u]
      PROVE  (u = t /\ stack'[u][i] = fr)
                \/ (i \in DOMAIN stack[u] /\ stack'[u][i] = stack[u][i])
    BY <1>1, <1>2, <1>3, <1>5
<1>6. TypeOK'
    BY <1>4 DEF IInv, TypeOK, memory, history
<1>7. RunningCallIntact'
    BY <1>5 DEF IInv, RunningCallIntact
<1>8. RunningCallbackBacked'
    BY <1>5 DEF IInv, RunningCallbackBacked, history
<1>9. UndefinedOnlyAfterRelease'
    BY DEF UndefinedOnlyAfterRelease, history
<1>10. ClosedIsEmpty'
    BY DEF IInv, ClosedIsEmpty, BindingsOf, Registered, history
<1>11. CarriedIsRegistered'
    BY <1>5, NoneAssumption DEF IInv, CarriedIsRegistered, Carried, Registered, memory, history
<1>12. KeptIsAlive'
    <2>1. \A f \in Fns : Running(f)' => Running(f) \/ fr.fn = f
        BY <1>5 DEF Running
    <2> QED
        BY <2>1, NoneAssumption DEF IInv, KeptIsAlive, Registered, memory, history
<1>13. RegistrationSound'
    BY <1>5 DEF IInv, RegistrationSound, history
<1> QED
    BY <1>6, <1>7, <1>8, <1>9, <1>10, <1>11, <1>12, <1>13 DEF IInv

\* The top activation of the stack of t ends.
LEMMA PopIInv ==
    ASSUME IInv, NEW t \in Threads, stack[t] # <<>>,
           stack' = [stack EXCEPT ![t] = Pop(@)],
           UNCHANGED <<library, functions, callbacks, process, memory, history>>
    PROVE  IInv'
<1>1. \A u \in Threads : stack[u] \in Seq(Frame)
    BY DEF IInv, TypeOK
<1>2. \A u \in Threads : u # t => stack'[u] = stack[u]
    BY DEF IInv, TypeOK
<1>3. stack'[t] = Pop(stack[t])
    BY DEF IInv, TypeOK
<1>4. stack' \in [Threads -> Seq(Frame)]
    BY <1>1, PopProperties DEF IInv, TypeOK
<1>5. ASSUME NEW u \in Threads, NEW i \in DOMAIN stack'[u]
      PROVE  i \in DOMAIN stack[u] /\ stack'[u][i] = stack[u][i]
    BY <1>1, <1>2, <1>3, <1>5, PopProperties
<1>6. TypeOK'
    BY <1>4 DEF IInv, TypeOK, memory, history
<1>7. RunningCallIntact'
    BY <1>5 DEF IInv, RunningCallIntact
<1>8. RunningCallbackBacked'
    BY <1>5 DEF IInv, RunningCallbackBacked, history
<1>9. UndefinedOnlyAfterRelease'
    BY DEF IInv, UndefinedOnlyAfterRelease, history
<1>10. ClosedIsEmpty'
    BY DEF IInv, ClosedIsEmpty, BindingsOf, Registered, history
<1>11. CarriedIsRegistered'
    BY <1>5 DEF IInv, CarriedIsRegistered, Carried, Registered, memory, history
<1>12. KeptIsAlive'
    <2>1. \A f \in Fns : Running(f)' => Running(f)
        BY <1>5 DEF Running
    <2> QED
        BY <2>1 DEF IInv, KeptIsAlive, Registered, memory, history
<1>13. RegistrationSound'
    BY <1>5 DEF IInv, RegistrationSound, history
<1> QED
    BY <1>6, <1>7, <1>8, <1>9, <1>10, <1>11, <1>12, <1>13 DEF IInv

\* A binding changes state: what it is of stays, and it does not come to rely
\* on a holder that is gone.
LEMMA StateIInv ==
    ASSUME IInv, NEW p \in Ptrs, Registered(p), NEW b \in Binding,
           callbacks' = [callbacks EXCEPT ![p] = b],
           UNCHANGED <<library, functions, stack, process, memory, history>>,
           b.lib = callbacks[p].lib,
           b.thread = callbacks[p].thread,
           b.fn = callbacks[p].fn,
           b.holder => callbacks[p].holder,
           b.state = "strong" => b.holder
    PROVE  IInv'
<1>1. /\ callbacks' \in [Ptrs -> Binding]
      /\ \A q \in Ptrs : /\ callbacks'[q].lib = callbacks[q].lib
                         /\ callbacks'[q].thread = callbacks[q].thread
                         /\ callbacks'[q].fn = callbacks[q].fn
                         /\ callbacks'[q].holder => callbacks[q].holder
                         /\ callbacks'[q].state = "strong" => callbacks'[q].holder
    BY DEF IInv, TypeOK, KeptIsAlive
<1>2. ASSUME NEW t \in Threads, NEW i \in DOMAIN stack[t]
      PROVE  /\ stack[t][i] \in Frame
             /\ stack[t][i].ptr \in Ptrs \cup {None}
             /\ stack[t][i].kind = "callback" => stack[t][i].ptr \in Ptrs
    <2>1. stack[t] \in Seq(Frame)
        BY DEF IInv, TypeOK
    <2>2. stack[t][i] \in Frame
        BY <2>1
    <2> QED
        BY <2>2 DEF Frame, InvokeFrame, CallbackFrame, RegisterFrame
<1>3. TypeOK'
    BY <1>1 DEF IInv, TypeOK, memory, history
<1>4. RunningCallIntact'
    BY DEF IInv, RunningCallIntact
<1>5. RunningCallbackBacked'
    BY <1>1, <1>2 DEF IInv, RunningCallbackBacked, history
<1>6. UndefinedOnlyAfterRelease'
    BY DEF IInv, UndefinedOnlyAfterRelease, history
<1>7. ClosedIsEmpty'
    BY <1>1 DEF IInv, ClosedIsEmpty, BindingsOf, Registered, history
<1>8. CarriedIsRegistered'
    BY <1>1 DEF IInv, CarriedIsRegistered, Carried, Registered, memory, history
<1>9. KeptIsAlive'
    BY <1>1 DEF IInv, KeptIsAlive, Running, Registered, memory, history
<1>10. RegistrationSound'
    BY DEF IInv, RegistrationSound, history
<1> QED
    BY <1>3, <1>4, <1>5, <1>6, <1>7, <1>8, <1>9, <1>10 DEF IInv

-----------------------------------------------------------------------------
(* The inductive invariant: the remaining steps, one lemma each.           *)

\* Starting a registration pushes an activation of an open library.
LEMMA StartRegisterIInv ==
    ASSUME IInv, NEW t \in Threads, NEW l \in Libs, NEW f \in Fns, StartRegister(t, l, f)
    PROVE  IInv'
<1> DEFINE fr == [kind |-> "register", lib |-> l, sym |-> None, sig |-> None,
                  ptr |-> None, fn |-> f, dangling |-> FALSE]
<1>1. fr \in Frame
    BY DEF Frame, RegisterFrame
<1>2. stack' = [stack EXCEPT ![t] = Append(@, fr)]
    BY DEF StartRegister
<1>3. fr.kind = "register" /\ fr.lib = l /\ fr.fn = f /\ fr.ptr = None
    OBVIOUS
<1>4. /\ f \in alive /\ library[l] = "open" /\ LibThread[l] = t /\ FnThread[f] = t
      /\ process = "running"
      /\ UNCHANGED <<library, functions, callbacks, process, memory, history>>
    BY DEF IInv, KeptIsAlive, StartRegister, Calls, InJs
<1> HIDE DEF fr
<1> QED
    BY <1>1, <1>2, <1>3, <1>4, PushIInv

\* What the top registration of t makes a binding of.
LEMMA RegisterProperties ==
    ASSUME IInv, NEW t \in Threads, NEW p \in Ptrs, RegisterCallback(t, p)
    PROVE  LET fr == Top(stack[t]) IN
           /\ stack[t] \in Seq(Frame) /\ stack[t] # <<>>
           /\ fr.lib \in Libs /\ fr.fn \in Fns /\ fr.fn \in alive
           /\ LibThread[fr.lib] = t /\ FnThread[fr.fn] = t
           /\ library[fr.lib] # "open" => library[fr.lib] = "closed" /\ fr.lib \in overtaken
<1>1. stack[t] \in Seq(Frame) /\ stack[t] # <<>> /\ Top(stack[t]).kind = "register"
    BY DEF IInv, TypeOK, RegisterCallback
<1>2. Len(stack[t]) \in DOMAIN stack[t] /\ Top(stack[t]) = stack[t][Len(stack[t])]
    BY <1>1 DEF Top
<1>3. Top(stack[t]) \in Frame
    BY <1>1, <1>2
<1>4. Top(stack[t]).lib \in Libs /\ Top(stack[t]).fn \in Fns
    BY <1>1, <1>3 DEF Frame, InvokeFrame, CallbackFrame, RegisterFrame
<1>5. Running(Top(stack[t]).fn)
    BY <1>2 DEF Running
<1>6. Top(stack[t]).fn \in alive
    BY <1>4, <1>5 DEF IInv, KeptIsAlive
<1>7. /\ LibThread[Top(stack[t]).lib] = t /\ FnThread[Top(stack[t]).fn] = t
      /\ library[Top(stack[t]).lib] # "open" =>
             library[Top(stack[t]).lib] = "closed" /\ Top(stack[t]).lib \in overtaken
    BY <1>1, <1>2 DEF IInv, RegistrationSound
<1> QED
    BY <1>1, <1>4, <1>6, <1>7

\* Registering a callback at a free address makes a binding on the thread of
\* its library and of its function, which the registration kept alive; code
\* that ran meanwhile may have closed the library.
LEMMA RegisterIInv ==
    ASSUME IInv, NEW t \in Threads, NEW p \in Ptrs, RegisterCallback(t, p)
    PROVE  IInv'
<1> DEFINE l == Top(stack[t]).lib
           f == Top(stack[t]).fn
           b == [lib |-> l, thread |-> t, fn |-> f, state |-> "strong",
                 holder |-> TRUE, refd |-> f \in heldFns]
<1>1. /\ l \in Libs /\ f \in Fns /\ f \in alive
      /\ LibThread[l] = t /\ FnThread[f] = t
      /\ library[l] # "open" => library[l] = "closed" /\ l \in overtaken
      /\ stack[t] \in Seq(Frame) /\ stack[t] # <<>>
    BY RegisterProperties
<1>2. callbacks' = [callbacks EXCEPT ![p] = b]
    BY DEF RegisterCallback
<1>3. /\ UNCHANGED <<library, functions, process, memory, history>>
      /\ process = "running"
      /\ ~Registered(p)
      /\ stack' = [stack EXCEPT ![t] = Pop(@)]
    BY DEF RegisterCallback, InJs
<1> HIDE DEF l, f
<1>4. b \in Binding
    BY <1>1 DEF Binding
<1>5. /\ callbacks' \in [Ptrs -> Binding]
      /\ callbacks'[p] = b
      /\ \A q \in Ptrs : q # p => callbacks'[q] = callbacks[q]
    BY <1>2, <1>4 DEF IInv, TypeOK
<1>6. b.lib = l /\ b.thread = t /\ b.fn = f /\ b.state = "strong" /\ b.holder /\ l # None
    BY <1>1, NoneAssumption
<1> HIDE DEF b
<1>7. ASSUME NEW u \in Threads, NEW i \in DOMAIN stack'[u]
      PROVE  /\ i \in DOMAIN stack[u] /\ stack'[u][i] = stack[u][i]
             /\ stack[u][i].kind = "callback" => stack[u][i].ptr \in Ptrs
             /\ stack[u][i].lib # None
    <2>1. i \in DOMAIN stack[u] /\ stack'[u][i] = stack[u][i]
        BY <1>1, <1>3, PopProperties DEF IInv, TypeOK
    <2>2. stack[u][i] \in Frame
        BY <2>1 DEF IInv, TypeOK
    <2> QED
        BY <2>1, <2>2, NoneAssumption DEF Frame, InvokeFrame, CallbackFrame, RegisterFrame
<1>8. TypeOK'
    <2>1. stack' \in [Threads -> Seq(Frame)]
        BY <1>1, <1>3, PopProperties DEF IInv, TypeOK
    <2> QED
        BY <1>3, <1>5, <2>1 DEF IInv, TypeOK, memory, history
<1>9. RunningCallIntact'
    BY <1>3, <1>7 DEF IInv, RunningCallIntact
<1>10. RunningCallbackBacked'
    BY <1>3, <1>5, <1>7 DEF IInv, RunningCallbackBacked, Registered, history
<1>11. UndefinedOnlyAfterRelease'
    BY <1>3 DEF IInv, UndefinedOnlyAfterRelease, history
<1>12. ClosedIsEmpty'
    BY <1>1, <1>3, <1>5, <1>6
    DEF IInv, ClosedIsEmpty, BindingsOf, Registered, FnsOf, history
<1>13. CarriedIsRegistered'
    <2>1. \A q \in Ptrs : Carried(q)' => Carried(q)
        BY <1>3, <1>7 DEF Carried, memory
    <2> QED
        BY <1>3, <1>5, <1>6, <2>1 DEF IInv, CarriedIsRegistered, Registered, history
<1>14. KeptIsAlive'
    <2>1. \A g \in Fns : Running(g)' => Running(g)
        BY <1>7 DEF Running
    <2> QED
        BY <1>1, <1>3, <1>5, <1>6, <2>1 DEF IInv, KeptIsAlive, Registered, memory
<1>15. RegistrationSound'
    BY <1>3, <1>7 DEF IInv, RegistrationSound, history
<1> QED
    BY <1>8, <1>9, <1>10, <1>11, <1>12, <1>13, <1>14, <1>15 DEF IInv

\* Creating a library and compiling a function touch no running call: the one
\* had no library yet, the other is not borrowed.
LEMMA LibraryIInv ==
    ASSUME IInv, NEW t \in Threads, NEW l \in Libs,
           New(t, l) \/ \E s \in Symbols, g \in Sigs : GetFunction(t, l, s, g)
    PROVE  IInv'
<1>1. /\ library' \in [Libs -> {"absent", "open", "closed", "dropped"}]
      /\ functions' \in [Libs -> [Symbols -> Sigs \cup {None}]]
      /\ heldLibs' \subseteq Libs
    <2>1. CASE New(t, l)
        BY <2>1 DEF IInv, TypeOK, New
    <2>2. ASSUME NEW s \in Symbols, NEW g \in Sigs, GetFunction(t, l, s, g)
          PROVE  functions' \in [Libs -> [Symbols -> Sigs \cup {None}]]
        <3>1. /\ functions' = [functions EXCEPT ![l] = [functions[l] EXCEPT ![s] = g]]
              /\ [functions[l] EXCEPT ![s] = g] \in [Symbols -> Sigs \cup {None}]
            BY <2>2 DEF IInv, TypeOK, GetFunction
        <3> QED
            BY <3>1 DEF IInv, TypeOK
    <2> QED
        BY <2>1, <2>2 DEF IInv, TypeOK, GetFunction, memory, history
<1>2. /\ UNCHANGED <<callbacks, stack, process, heldFns, alive, orphans, kept, releasedInUse,
                     overtaken>>
      /\ process = "running"
    BY DEF New, GetFunction, Calls, InJs, memory, history
<1>3. /\ library'[l] = "open"
      /\ \A m \in Libs : m # l => library'[m] = library[m] /\ functions'[m] = functions[m]
    BY DEF IInv, TypeOK, New, GetFunction
<1>4. ~Borrowed(l)
    <2>1. CASE New(t, l)
        <3>1. \A u \in Threads : \A i \in DOMAIN stack[u] :
                  stack[u][i].kind = "invoke" => stack[u][i].lib # l
            BY <2>1 DEF IInv, RunningCallIntact, New
        <3> QED
            BY <3>1 DEF Borrowed
    <2>2. CASE \E s \in Symbols, g \in Sigs : GetFunction(t, l, s, g)
        BY <2>2 DEF GetFunction
    <2> QED
        BY <2>1, <2>2
<1>5. TypeOK'
    BY <1>1, <1>2 DEF IInv, TypeOK
<1>6. RunningCallIntact'
    <2> SUFFICES ASSUME NEW u \in Threads, NEW i \in DOMAIN stack[u],
                        stack[u][i].kind = "invoke"
                 PROVE  /\ library'[stack[u][i].lib] = "open"
                        /\ functions'[stack[u][i].lib][stack[u][i].sym] = stack[u][i].sig
                        /\ LibThread[stack[u][i].lib] = u
        BY <1>2 DEF RunningCallIntact
    <2>1. stack[u][i] \in Frame
        BY DEF IInv, TypeOK
    <2>2. stack[u][i].lib \in Libs /\ stack[u][i].lib # l
        BY <1>4, <2>1 DEF Borrowed, Frame, InvokeFrame, CallbackFrame, RegisterFrame
    <2> QED
        BY <1>3, <2>2 DEF IInv, RunningCallIntact
<1>7. RunningCallbackBacked'
    BY <1>2 DEF IInv, RunningCallbackBacked
<1>8. UndefinedOnlyAfterRelease'
    BY <1>2 DEF UndefinedOnlyAfterRelease
<1>9. ClosedIsEmpty'
    BY <1>2, <1>3 DEF IInv, ClosedIsEmpty, BindingsOf, Registered
<1>10. CarriedIsRegistered'
    BY <1>2 DEF IInv, CarriedIsRegistered, Carried, Registered
<1>11. KeptIsAlive'
    BY <1>2 DEF IInv, KeptIsAlive, Running, Registered
<1>12. RegistrationSound'
    <2> SUFFICES ASSUME NEW u \in Threads, NEW i \in DOMAIN stack[u],
                        stack[u][i].kind = "register"
                 PROVE  /\ LibThread[stack[u][i].lib] = u /\ FnThread[stack[u][i].fn] = u
                        /\ library'[stack[u][i].lib] # "open" =>
                               library'[stack[u][i].lib] = "closed" /\ stack[u][i].lib \in overtaken
        BY <1>2 DEF RegistrationSound
    <2>1. stack[u][i] \in Frame
        BY DEF IInv, TypeOK
    <2>2. stack[u][i].lib \in Libs
        BY <2>1 DEF Frame, InvokeFrame, CallbackFrame, RegisterFrame
    <2> QED
        BY <1>3, <2>2 DEF IInv, RegistrationSound
<1> QED
    BY <1>5, <1>6, <1>7, <1>8, <1>9, <1>10, <1>11, <1>12 DEF IInv

\* The program and the collector only let go; a function is freed when
\* nothing keeps it.
LEMMA MemoryIInv ==
    ASSUME IInv,
           \/ \E f \in Fns : DropFn(f) \/ CollectOrphan(f) \/ CollectFn(f)
           \/ \E l \in Libs : DropLib(l)
    PROVE  IInv'
<1>1. /\ UNCHANGED <<library, functions, callbacks, stack, process, kept, history>>
      /\ process = "running"
      /\ heldLibs' \subseteq heldLibs
      /\ heldFns' \subseteq heldFns
      /\ orphans' \subseteq orphans
      /\ alive' \subseteq alive
    BY DEF DropFn, CollectOrphan, CollectFn, DropLib
<1>2. /\ heldFns' \subseteq alive'
      /\ orphans' \subseteq alive'
      /\ \A f \in Fns : Running(f) => f \in alive'
      /\ \A p \in Ptrs : callbacks[p].holder => callbacks[p].fn \in alive'
    BY DEF IInv, KeptIsAlive, DropFn, CollectOrphan, CollectFn, DropLib
<1>3. TypeOK'
    BY <1>1 DEF IInv, TypeOK, history
<1>4. RunningCallIntact' /\ RunningCallbackBacked'
    BY <1>1 DEF IInv, RunningCallIntact, RunningCallbackBacked, history
<1>5. UndefinedOnlyAfterRelease'
    BY <1>1 DEF UndefinedOnlyAfterRelease, history
<1>6. ClosedIsEmpty'
    BY <1>1 DEF IInv, ClosedIsEmpty, BindingsOf, Registered, history
<1>7. CarriedIsRegistered'
    BY <1>1 DEF IInv, CarriedIsRegistered, Carried, Registered, history
<1>8. KeptIsAlive'
    BY <1>1, <1>2 DEF IInv, KeptIsAlive, Running, Registered
<1>9. RegistrationSound'
    BY <1>1 DEF IInv, RegistrationSound, history
<1> QED
    BY <1>3, <1>4, <1>5, <1>6, <1>7, <1>8, <1>9 DEF IInv

\* C code keeps an address only while a call in progress was given it, and
\* history covers it from then on.
LEMMA AddressIInv ==
    ASSUME IInv, NEW t \in Threads, NEW p \in Ptrs, KeepAddress(t, p) \/ ForgetAddress(t, p)
    PROVE  IInv'
<1>1. /\ UNCHANGED <<library, functions, callbacks, stack, process, heldLibs, heldFns, alive,
                     orphans, history>>
      /\ process = "running"
      /\ kept' \subseteq Ptrs
    BY DEF KeepAddress, ForgetAddress, InNative, IInv, TypeOK
<1>2. \A q \in Ptrs : Carried(q)' => Carried(q)
    <2>1. CASE KeepAddress(t, p)
        <3>1. stack[t] \in Seq(Frame) /\ stack[t] # <<>>
            BY <2>1 DEF IInv, TypeOK, KeepAddress, InNative, InC
        <3>2. Len(stack[t]) \in DOMAIN stack[t]
            BY <3>1
        <3>3. Carried(p)
            BY <2>1, <3>2 DEF KeepAddress, Carried, Top
        <3> QED
            BY <2>1, <3>3 DEF KeepAddress, Carried
    <2>2. CASE ForgetAddress(t, p)
        BY <2>2 DEF ForgetAddress, Carried
    <2> QED
        BY <2>1, <2>2
<1>3. TypeOK'
    BY <1>1 DEF IInv, TypeOK, history
<1>4. RunningCallIntact' /\ RunningCallbackBacked'
    BY <1>1 DEF IInv, RunningCallIntact, RunningCallbackBacked, history
<1>5. UndefinedOnlyAfterRelease'
    BY <1>1 DEF UndefinedOnlyAfterRelease, history
<1>6. ClosedIsEmpty'
    BY <1>1 DEF IInv, ClosedIsEmpty, BindingsOf, Registered, history
<1>7. CarriedIsRegistered'
    BY <1>1, <1>2 DEF IInv, CarriedIsRegistered, Registered, history
<1>8. KeptIsAlive'
    BY <1>1 DEF IInv, KeptIsAlive, Running, Registered
<1>9. RegistrationSound'
    BY <1>1 DEF IInv, RegistrationSound, history
<1> QED
    BY <1>3, <1>4, <1>5, <1>6, <1>7, <1>8, <1>9 DEF IInv

\* The end of an environment empties its libraries, which no call has borrowed,
\* and frees its functions: those that callbacks of other environments call
\* and run live in other heaps.
LEMMA ExitIInv ==
    ASSUME IInv, NEW t \in Threads, Exit(t)
    PROVE  IInv'
<1> DEFINE ps == {p \in Ptrs : callbacks[p].lib \in LibsOf(t)}
<1>1. Free(ps) /\ UNCHANGED <<process, kept, overtaken>> /\ process = "running"
    BY DEF Exit, InJs
<1>2. /\ library' \in [Libs -> {"absent", "open", "closed", "dropped"}]
      /\ functions' \in [Libs -> [Symbols -> Sigs \cup {None}]]
    BY DEF IInv, TypeOK, Exit
<1>3. \A l \in Libs : Borrowed(l) => l \notin LibsOf(t)
    <2> SUFFICES ASSUME NEW l \in Libs, NEW u \in Threads, NEW i \in DOMAIN stack[u],
                        stack[u][i].kind = "invoke", stack[u][i].lib = l
                 PROVE  LibThread[l] # t
        BY DEF Borrowed, LibsOf
    <2>1. LibThread[l] = u
        BY DEF IInv, RunningCallIntact
    <2>2. u # t
        BY DEF Exit
    <2> QED
        BY <2>1, <2>2
<1>4. \A l \in Libs : Borrowed(l) => library'[l] = library[l] /\ functions'[l] = functions[l]
    BY <1>3 DEF Exit
<1>5. \A l \in Libs : library'[l] # "open" =>
          /\ functions'[l] = [s \in Symbols |-> None]
          /\ BindingsOf(l) \subseteq ps \/ (library'[l] = "closed" /\ l \in overtaken')
    <2> SUFFICES ASSUME NEW l \in Libs, library'[l] # "open"
                 PROVE  /\ functions'[l] = [s \in Symbols |-> None]
                        /\ BindingsOf(l) \subseteq ps \/ (library'[l] = "closed" /\ l \in overtaken')
        OBVIOUS
    <2>1. CASE l \in LibsOf(t)
        BY <2>1 DEF Exit, BindingsOf
    <2>2. CASE l \notin LibsOf(t)
        BY <2>2 DEF Exit, IInv, ClosedIsEmpty
    <2> QED
        BY <2>1, <2>2
<1>6. \A f \in Fns : Running(f) => f \in alive'
    <2> SUFFICES ASSUME NEW f \in Fns, NEW u \in Threads, NEW i \in DOMAIN stack[u],
                        stack[u][i].fn = f
                 PROVE  f \in alive'
        BY DEF Running
    <2>1. stack[u][i] \in Frame
        BY DEF IInv, TypeOK
    <2>2. stack[u][i].kind \in {"callback", "register"}
        BY <2>1, NoneAssumption DEF Frame, InvokeFrame, CallbackFrame, RegisterFrame
    <2>3. FnThread[f] = u /\ u # t
        BY <2>2 DEF IInv, RunningCallbackBacked, RegistrationSound, Exit
    <2>4. f \in alive
        BY DEF IInv, KeptIsAlive, Running
    <2> QED
        BY <2>3, <2>4 DEF Exit, FnsOf
<1>7. \A p \in Ptrs \ ps : callbacks[p].holder => callbacks[p].fn \in alive'
    <2> SUFFICES ASSUME NEW p \in Ptrs, callbacks[p].lib \notin LibsOf(t), callbacks[p].holder
                 PROVE  callbacks[p].fn \in alive'
        OBVIOUS
    <2>1. Registered(p) /\ callbacks[p].fn \in alive
        BY DEF IInv, KeptIsAlive, NoBinding
    <2>2. callbacks[p].lib \in Libs
        BY <2>1 DEF IInv, TypeOK, Binding, Registered
    <2>3. FnThread[callbacks[p].fn] = LibThread[callbacks[p].lib]
        BY <2>1 DEF IInv, ClosedIsEmpty, FnsOf
    <2> QED
        BY <2>1, <2>2, <2>3 DEF Exit, FnsOf, LibsOf
<1>8. /\ heldLibs' \subseteq heldLibs
      /\ heldFns' \subseteq alive'
      /\ orphans' \subseteq alive'
      /\ alive' \subseteq alive
    BY DEF IInv, KeptIsAlive, Exit
<1>9. ps \in SUBSET Ptrs
    OBVIOUS
<1>10. \A l \in Libs : Registering(l) /\ library'[l] # "open" =>
           library'[l] = "closed" /\ l \in overtaken'
    <2> SUFFICES ASSUME NEW l \in Libs, NEW u \in Threads, NEW i \in DOMAIN stack[u],
                        stack[u][i].kind = "register", stack[u][i].lib = l,
                        library'[l] # "open"
                 PROVE  library'[l] = "closed" /\ l \in overtaken'
        BY DEF Registering
    <2>1. LibThread[l] = u /\ (library[l] # "open" => library[l] = "closed" /\ l \in overtaken)
        BY DEF IInv, RegistrationSound
    <2>2. u # t
        BY DEF Exit
    <2> QED
        BY <2>1, <2>2 DEF Exit, LibsOf
<1>11. overtaken \subseteq overtaken' /\ overtaken' \subseteq Libs
    BY <1>1 DEF IInv, TypeOK
<1> HIDE DEF ps
<1> QED
    BY <1>1, <1>2, <1>4, <1>5, <1>6, <1>7, <1>8, <1>9, <1>10, <1>11, FreeIInv

-----------------------------------------------------------------------------
(* The inductive invariant: every step.                                    *)

\* Every method called from JavaScript keeps the invariant: those that free
\* bindings by FreeIInv, those that start a call by PushIInv, the others by
\* the lemma of the state they change.
LEMMA MethodIInv ==
    ASSUME IInv, NEW t \in Threads, Method(t)
    PROVE  IInv'
<1>1. ASSUME NEW l \in Libs, CloseBorrowed(t, l) \/ GetFunctionBorrowed(t, l)
      PROVE  IInv'
    BY <1>1, StopIInv DEF CloseBorrowed, GetFunctionBorrowed, Abort
<1>2. ASSUME NEW l \in Libs, Close(t, l)
      PROVE  IInv'
    <2>1. BindingsOf(l) \in SUBSET Ptrs
        BY DEF BindingsOf
    <2>2. /\ library' \in [Libs -> {"absent", "open", "closed", "dropped"}]
          /\ functions' \in [Libs -> [Symbols -> Sigs \cup {None}]]
          /\ library'[l] = "closed" /\ functions'[l] = [s \in Symbols |-> None]
          /\ \A m \in Libs : m # l => library'[m] = library[m] /\ functions'[m] = functions[m]
          /\ overtaken \subseteq overtaken' /\ overtaken' \subseteq Libs
          /\ Registering(l) => l \in overtaken'
        BY <1>2 DEF IInv, TypeOK, Close
    <2>3. \A m \in Libs : library'[m] # "open" =>
              /\ functions'[m] = [s \in Symbols |-> None]
              /\ BindingsOf(m) \subseteq BindingsOf(l)
                    \/ (library'[m] = "closed" /\ m \in overtaken')
        BY <2>2 DEF IInv, ClosedIsEmpty
    <2>4. \A m \in Libs : Registering(m) /\ library'[m] # "open" =>
              library'[m] = "closed" /\ m \in overtaken'
        BY <2>2 DEF IInv, RegistrationSound, Registering
    <2> QED
        BY <1>2, <2>1, <2>2, <2>3, <2>4, FreeIInv, OrphanAlive DEF Close, Calls, InJs, IInv
<1>3. ASSUME NEW l \in Libs,
             New(t, l) \/ \E s \in Symbols, g \in Sigs : GetFunction(t, l, s, g)
      PROVE  IInv'
    BY <1>3, LibraryIInv
<1>4. CASE \/ \E l \in Libs, f \in Fns : StartRegister(t, l, f)
           \/ \E p \in Ptrs : RegisterCallback(t, p)
           \/ RegisterFails(t)
    BY <1>4, StartRegisterIInv, RegisterIInv, PopIInv DEF RegisterFails
<1>5. ASSUME NEW l \in Libs, NEW p \in Ptrs, UnregisterCallback(t, l, p)
      PROVE  IInv'
    <2>1. \A m \in Libs : library'[m] # "open" =>
              /\ functions'[m] = [s \in Symbols |-> None]
              /\ BindingsOf(m) \subseteq {p} \/ (library'[m] = "closed" /\ m \in overtaken')
        BY <1>5 DEF IInv, ClosedIsEmpty, UnregisterCallback
    <2>2. \A m \in Libs : Registering(m) /\ library'[m] # "open" =>
              library'[m] = "closed" /\ m \in overtaken'
        BY <1>5 DEF IInv, RegistrationSound, Registering, UnregisterCallback
    <2> QED
        BY <1>5, <2>1, <2>2, FreeIInv, OrphanAlive
        DEF UnregisterCallback, Finds, Calls, InJs, IInv, TypeOK
<1>6. ASSUME NEW l \in Libs, NEW p \in Ptrs, RefCallback(t, l, p) \/ UnrefCallback(t, l, p)
      PROVE  IInv'
    <2>1. Registered(p) /\ callbacks[p] \in Binding
        BY <1>6, NoneAssumption
        DEF RefCallback, UnrefCallback, Finds, Registered, IInv, TypeOK
    <2>2. callbacks[p].state = "strong" => callbacks[p].holder
        BY DEF IInv, KeptIsAlive
    <2> DEFINE Was == callbacks[p]
               Set(st, r) == [Was EXCEPT !.state = st, !.refd = r]
               Fail == [Was EXCEPT !.state = "collected"]
    <2>3. ASSUME NEW b \in Binding,
                 callbacks' = [callbacks EXCEPT ![p] = b],
                 b.lib = Was.lib, b.thread = Was.thread, b.fn = Was.fn, b.holder = Was.holder,
                 b.state = "strong" => Was.holder
          PROVE  IInv'
        BY <1>6, <2>1, <2>3, StateIInv DEF RefCallback, UnrefCallback
    <2>4. ASSUME NEW st \in {"strong", "weak", "collected"}, NEW r \in BOOLEAN,
                 st = "strong" => Was.holder,
                 callbacks' = [callbacks EXCEPT ![p] = Set(st, r)]
          PROVE  IInv'
        <3>1. /\ Set(st, r) \in Binding
              /\ Set(st, r).lib = Was.lib /\ Set(st, r).thread = Was.thread
              /\ Set(st, r).fn = Was.fn /\ Set(st, r).holder = Was.holder
              /\ Set(st, r).state = st
            BY <2>1 DEF Binding
        <3> HIDE DEF Set
        <3> QED
            BY <2>3, <2>4, <3>1
    <2>5. ASSUME callbacks' = [callbacks EXCEPT ![p] = Fail]
          PROVE  IInv'
        <3>1. /\ Fail \in Binding
              /\ Fail.lib = Was.lib /\ Fail.thread = Was.thread
              /\ Fail.fn = Was.fn /\ Fail.holder = Was.holder
              /\ Fail.state = "collected"
            BY <2>1 DEF Binding
        <3> HIDE DEF Fail
        <3> QED
            BY <2>3, <2>5, <3>1
    <2>6. Was.state \in {"strong", "weak", "collected"} /\ (Was.fn \in heldFns) \in BOOLEAN
        BY <2>1 DEF Binding
    <2> HIDE DEF Set, Fail
    <2>7. CASE RefCallback(t, l, p)
        <3>1. CASE Was.state = "weak" /\ Was.holder
                   /\ callbacks' = [callbacks EXCEPT ![p] = Set("strong", Was.fn \in heldFns)]
            BY <2>4, <2>6, <3>1, Zenon
        <3>2. CASE /\ ~(Was.state = "weak" /\ Was.holder)
                   /\ callbacks' = [callbacks EXCEPT ![p] =
                         Set(IF Was.state = "weak" THEN "collected" ELSE Was.state,
                             Was.fn \in heldFns)]
            BY <2>2, <2>4, <2>6, <3>2, Zenon
        <3>3. CASE callbacks' = [callbacks EXCEPT ![p] = Fail]
            BY <2>5, <3>3
        <3> QED
            BY <2>7, <3>1, <3>2, <3>3 DEF RefCallback, Set, Fail
    <2>8. CASE UnrefCallback(t, l, p)
        <3>1. callbacks' = [callbacks EXCEPT ![p] =
                  Set(IF Was.state = "strong" THEN "weak" ELSE Was.state, FALSE)]
            BY <2>8 DEF UnrefCallback, Set
        <3> QED
            BY <2>2, <2>4, <2>6, <3>1
    <2> QED
        BY <1>6, <2>7, <2>8
<1>7. ASSUME NEW l \in Libs, NEW s \in Symbols, NEW p \in Ptrs \cup {None}, Invoke(t, l, s, p)
      PROVE  IInv'
    <2> DEFINE fr == [kind |-> "invoke", lib |-> l, sym |-> s, sig |-> functions[l][s],
                      ptr |-> p, fn |-> None, dangling |-> FALSE]
    <2>1. fr \in Frame
        BY <1>7 DEF IInv, TypeOK, Invoke, Frame, InvokeFrame
    <2>2. library[l] = "open"
        BY <1>7 DEF IInv, ClosedIsEmpty, Invoke
    <2>3. stack' = [stack EXCEPT ![t] = Append(@, fr)]
        BY <1>7 DEF Invoke
    <2>4. /\ fr.kind = "invoke" /\ fr.fn = None /\ fr.ptr = p /\ fr.lib = l
          /\ fr.sym = s /\ fr.sig = functions[l][s]
        OBVIOUS
    <2> HIDE DEF fr
    <2> QED
        BY <1>7, <2>1, <2>2, <2>3, <2>4, PushIInv DEF Invoke, Calls, InJs
<1> QED
    BY <1>1, <1>2, <1>3, <1>4, <1>5, <1>6, <1>7 DEF Method

\* What a closure that runs on its own thread was registered with.
LEMMA OwnProperties ==
    ASSUME IInv, NEW t \in Threads, NEW p \in Ptrs, Own(t, p)
    PROVE  /\ callbacks[p] \in Binding
           /\ callbacks[p].lib \in Libs
           /\ FnThread[callbacks[p].fn] = t
           /\ process = "running"
BY DEF IInv, TypeOK, ClosedIsEmpty, FnsOf, Own, Has, InNative, Registered, Binding

\* A closure that enters its function pushes an activation its binding backs.
LEMMA EnterIInv ==
    ASSUME IInv, NEW t \in Threads, NEW p \in Ptrs, EnterCallback(t, p)
    PROVE  IInv'
<1> DEFINE b == callbacks[p]
           fr == [kind |-> "callback", lib |-> b.lib, sym |-> None, sig |-> None,
                  ptr |-> p, fn |-> b.fn, dangling |-> FALSE]
<1>1. Own(t, p) /\ Callable(b)
    BY DEF EnterCallback
<1>2. b.holder
    BY <1>1 DEF IInv, KeptIsAlive, Callable
<1>3. b.fn \in alive /\ b.fn \in Fns
    BY <1>2 DEF IInv, TypeOK, KeptIsAlive
<1>4. fr \in Frame
    BY <1>1, <1>3, OwnProperties DEF Frame, CallbackFrame
<1>5. stack' = [stack EXCEPT ![t] = Append(@, fr)]
    BY DEF EnterCallback
<1>6. /\ fr.kind = "callback" /\ fr.fn = b.fn /\ fr.ptr = p /\ fr.lib = b.lib
      /\ ~fr.dangling
    OBVIOUS
<1>7. /\ FnThread[b.fn] = t /\ b.thread = t
      /\ process = "running"
      /\ Registered(p)
    BY <1>1, OwnProperties DEF Own
<1>8. UNCHANGED <<library, functions, callbacks, process, memory, history>>
    BY DEF EnterCallback
<1> HIDE DEF fr
<1> QED
    BY <1>3, <1>4, <1>5, <1>6, <1>7, <1>8, PushIInv

\* A closure without a function forgets its reference.
LEMMA CollectedIInv ==
    ASSUME IInv, NEW t \in Threads, NEW p \in Ptrs, CallCollected(t, p)
    PROVE  IInv'
<1> DEFINE b == [callbacks[p] EXCEPT !.state = "collected"]
<1>1. Own(t, p)
    BY DEF CallCollected
<1>2. /\ b \in Binding
      /\ b.lib = callbacks[p].lib
      /\ b.thread = callbacks[p].thread
      /\ b.fn = callbacks[p].fn
      /\ b.holder = callbacks[p].holder
      /\ b.state = "collected"
    BY <1>1, OwnProperties DEF Binding
<1>3. callbacks' = [callbacks EXCEPT ![p] = b]
    BY DEF CallCollected
<1> HIDE DEF b
<1> QED
    BY <1>1, <1>2, <1>3, StateIInv DEF CallCollected, Own

\* Every step of a C function and of a callback keeps the invariant: it keeps
\* or forgets an address, aborts, touches memory whose release releasedInUse
\* records, or pushes or pops one activation.
LEMMA NativeIInv ==
    ASSUME IInv, NEW t \in Threads, Native(t)
    PROVE  IInv'
<1>1. ASSUME NEW p \in Ptrs, KeepAddress(t, p) \/ ForgetAddress(t, p)
      PROVE  IInv'
    BY <1>1, AddressIInv
<1>2. ASSUME NEW p \in Ptrs, EnterCallback(t, p)
      PROVE  IInv'
    BY <1>2, EnterIInv
<1>3. ASSUME NEW p \in Ptrs, EnterCallbackFails(t, p)
      PROVE  IInv'
    BY <1>3, StopIInv DEF EnterCallbackFails, Abort
<1>4. ASSUME NEW p \in Ptrs, CallCollected(t, p)
      PROVE  IInv'
    BY <1>4, CollectedIInv
<1>5. CASE CallbackThrows(t)
    BY <1>5, StopIInv DEF CallbackThrows, Abort
<1>6. CASE ReturnDangling(t)
    BY <1>6, ReturnDanglingIInv
<1>7. CASE ReturnFromCallback(t) \/ ReturnFromNative(t)
    <2>1. stack[t] # <<>>
        BY <1>7 DEF ReturnFromCallback, ReturnFromNative, InNative, InC
    <2> QED
        BY <1>7, <2>1, PopIInv DEF ReturnFromCallback, ReturnFromNative
<1> QED
    BY <1>1, <1>2, <1>3, <1>4, <1>5, <1>6, <1>7 DEF Native

\* Every step of the garbage collector keeps the invariant: it collects only
\* what nothing keeps, and finalizes no library that a call has borrowed.
LEMMA CollectorIInv ==
    ASSUME IInv, Collector
    PROVE  IInv'
<1>1. ASSUME NEW p \in Ptrs, CollectHolder(p)
      PROVE  IInv'
    <2> DEFINE b == [callbacks[p] EXCEPT !.holder = FALSE]
    <2>1. callbacks[p] \in Binding
        BY DEF IInv, TypeOK
    <2>2. /\ b \in Binding
          /\ b.lib = callbacks[p].lib
          /\ b.thread = callbacks[p].thread
          /\ b.fn = callbacks[p].fn
          /\ ~b.holder
          /\ b.state = callbacks[p].state
        BY <2>1 DEF Binding
    <2>3. callbacks' = [callbacks EXCEPT ![p] = b]
        BY <1>1 DEF CollectHolder
    <2> HIDE DEF b
    <2> QED
        BY <1>1, <2>2, <2>3, StateIInv DEF CollectHolder
<1>2. ASSUME NEW l \in Libs, FinalizeLib(l)
      PROVE  IInv'
    <2>1. BindingsOf(l) \in SUBSET Ptrs
        BY DEF BindingsOf
    <2>2. /\ library' \in [Libs -> {"absent", "open", "closed", "dropped"}]
          /\ functions' \in [Libs -> [Symbols -> Sigs \cup {None}]]
          /\ library'[l] # "open" /\ functions'[l] = [s \in Symbols |-> None]
          /\ \A m \in Libs : m # l => library'[m] = library[m] /\ functions'[m] = functions[m]
        BY <1>2 DEF IInv, TypeOK, FinalizeLib
    <2>3. \A m \in Libs : library'[m] # "open" =>
              /\ functions'[m] = [s \in Symbols |-> None]
              /\ BindingsOf(m) \subseteq BindingsOf(l)
                    \/ (library'[m] = "closed" /\ m \in overtaken')
        BY <1>2, <2>2 DEF IInv, ClosedIsEmpty, FinalizeLib
    <2>4. \A m \in Libs : Registering(m) /\ library'[m] # "open" =>
              library'[m] = "closed" /\ m \in overtaken'
        BY <1>2, <2>2 DEF IInv, RegistrationSound, Registering, FinalizeLib
    <2> QED
        BY <1>2, <2>1, <2>2, <2>3, <2>4, FreeIInv, OrphanAlive DEF FinalizeLib, IInv, TypeOK
<1> QED
    BY <1>1, <1>2, MemoryIInv DEF Collector

\* The invariant is inductive: every step keeps it, whoever takes it.
LEMMA NextIInv == IInv /\ [Next]_vars => IInv'
<1> SUFFICES ASSUME IInv, [Next]_vars PROVE IInv'
    OBVIOUS
<1>1. CASE UNCHANGED vars
    BY <1>1 DEF vars, memory, history, IInv, TypeOK, RunningCallIntact, RunningCallbackBacked,
                UndefinedOnlyAfterRelease, ClosedIsEmpty, RegistrationSound,
                CarriedIsRegistered, KeptIsAlive,
                BindingsOf, Carried, Registered, Running
<1>2. ASSUME NEW p \in Ptrs, CallForeign(p)
      PROVE  IInv'
    BY <1>2, StopIInv DEF CallForeign, Abort
<1>3. CASE Next
    BY <1>2, <1>3, MethodIInv, NativeIInv, ExitIInv, CallFreedIInv, CollectorIInv, MemoryIInv
    DEF Next
<1> QED
    BY <1>1, <1>3

-----------------------------------------------------------------------------
(* Theorems.                                                               *)

\* The invariant holds in every reachable state, for any number of threads,
\* libraries, symbols, signatures, addresses and functions, and any nesting.
THEOREM Inductive == Spec => []IInv
BY InitIInv, NextIInv, PTL DEF Spec

\* Every variable has its type in every reachable state: in particular every
\* activation is a well formed call or callback.
THEOREM TypeCorrect == Spec => []TypeOK
<1>1. IInv => TypeOK
    BY DEF IInv
<1> QED
    BY <1>1, Inductive, PTL

\* A call never loses its library or its compiled function while it runs.
THEOREM RunningCallsStayIntact == Spec => []RunningCallIntact
<1>1. IInv => RunningCallIntact
    BY DEF IInv
<1> QED
    BY <1>1, Inductive, PTL

\* A running callback is backed by its binding, on its thread, until the
\* program releases it.
THEOREM RunningCallbacksAreBacked == Spec => []RunningCallbackBacked
<1>1. IInv => RunningCallbackBacked
    BY DEF IInv
<1> QED
    BY <1>1, Inductive, PTL

\* A program that releases no callback whose address C code has never reaches
\* undefined behaviour.
THEOREM DefinedUnlessReleased == Spec => []UndefinedOnlyAfterRelease
<1>1. IInv => UndefinedOnlyAfterRelease
    BY DEF IInv
<1> QED
    BY <1>1, Inductive, PTL

\* Closing and finalizing leave neither functions nor callbacks behind.
THEOREM ClosedLibrariesAreEmpty == Spec => []ClosedIsEmpty
<1>1. IInv => ClosedIsEmpty
    BY DEF IInv
<1> QED
    BY <1>1, Inductive, PTL

\* A function that a callback may still be called through, or that runs, has
\* not been collected.
THEOREM CallableFunctionsAreAlive == Spec => []CallableIsAlive
<1>1. IInv => CallableIsAlive
    BY DEF IInv, KeptIsAlive, CallableIsAlive, Callable
<1> QED
    BY <1>1, Inductive, PTL

-----------------------------------------------------------------------------
(* Where refCallback retains.                                              *)

\* What a step makes of the binding at p.
LEMMA BindingStep ==
    ASSUME IInv, [Next]_vars, NEW p \in Ptrs
    PROVE  /\ heldFns' \subseteq heldFns
           /\ \/ callbacks'[p] = callbacks[p]
              \/ callbacks'[p] = NoBinding
              \/ ~Registered(p) /\ callbacks'[p].state = "strong"
              \/ /\ callbacks'[p].fn = callbacks[p].fn
                 /\ Registered(p)
                 /\ callbacks'[p].refd =>
                       \/ callbacks'[p].state = "strong"
                       \/ callbacks[p].refd /\ callbacks[p].state # "strong"
                       \/ callbacks[p].fn \in heldFns /\ ~Callable(callbacks[p])
<1> DEFINE Goal ==
        /\ heldFns' \subseteq heldFns
        /\ \/ callbacks'[p] = callbacks[p]
           \/ callbacks'[p] = NoBinding
           \/ ~Registered(p) /\ callbacks'[p].state = "strong"
           \/ /\ callbacks'[p].fn = callbacks[p].fn
              /\ Registered(p)
              /\ callbacks'[p].refd =>
                    \/ callbacks'[p].state = "strong"
                    \/ callbacks[p].refd /\ callbacks[p].state # "strong"
                    \/ callbacks[p].fn \in heldFns /\ ~Callable(callbacks[p])
<1> SUFFICES Goal
    OBVIOUS
<1>1. callbacks \in [Ptrs -> Binding] /\ callbacks[p] \in Binding
    BY DEF IInv, TypeOK
<1>2. ASSUME UNCHANGED callbacks, heldFns' \subseteq heldFns PROVE Goal
    BY <1>2
<1>3. ASSUME NEW ps \in SUBSET Ptrs, Free(ps), heldFns' \subseteq heldFns PROVE Goal
    BY <1>3 DEF Free
<1>4. ASSUME NEW q \in Ptrs, NEW b \in Binding, Registered(q), UNCHANGED heldFns,
             callbacks' = [callbacks EXCEPT ![q] = b], b.fn = callbacks[q].fn,
             b.refd => \/ b.state = "strong"
                       \/ callbacks[q].refd /\ callbacks[q].state # "strong"
                       \/ callbacks[q].fn \in heldFns /\ ~Callable(callbacks[q])
      PROVE  Goal
    BY <1>1, <1>4
<1>5. ASSUME NEW t \in Threads, Method(t) PROVE Goal
    <2>1. ASSUME NEW l \in Libs, \/ New(t, l) \/ CloseBorrowed(t, l) \/ GetFunctionBorrowed(t, l)
                                 \/ \E s \in Symbols, g \in Sigs : GetFunction(t, l, s, g)
          PROVE  Goal
        BY <1>2, <2>1 DEF New, CloseBorrowed, GetFunctionBorrowed, GetFunction, Abort, memory
    <2>2. ASSUME NEW l \in Libs, Close(t, l) PROVE Goal
        BY <1>3, <2>2 DEF Close, BindingsOf
    <2>3. ASSUME NEW l \in Libs, NEW q \in Ptrs, UnregisterCallback(t, l, q) PROVE Goal
        <3>1. {q} \in SUBSET Ptrs
            OBVIOUS
        <3> QED
            BY <1>3, <2>3, <3>1 DEF UnregisterCallback
    <2>4. ASSUME NEW q \in Ptrs, RegisterCallback(t, q) PROVE Goal
        <3>1. callbacks'[q].state = "strong" /\ \A r \in Ptrs : r # q => callbacks'[r] = callbacks[r]
            BY <1>1, <2>4 DEF RegisterCallback
        <3> QED
            BY <2>4, <3>1 DEF RegisterCallback, memory
    <2>5. ASSUME NEW l \in Libs, NEW q \in Ptrs, UnrefCallback(t, l, q) PROVE Goal
        <3> DEFINE b == [callbacks[q] EXCEPT
                            !.state = IF callbacks[q].state = "strong" THEN "weak" ELSE callbacks[q].state,
                            !.refd = FALSE]
        <3>1. callbacks[q] \in Binding
            BY <1>1
        <3>2. b \in Binding /\ b.fn = callbacks[q].fn /\ ~b.refd
            BY <3>1 DEF Binding
        <3>3. /\ callbacks' = [callbacks EXCEPT ![q] = b]
              /\ Registered(q) /\ UNCHANGED heldFns
            BY <2>5, NoneAssumption DEF UnrefCallback, Finds, Registered, memory
        <3> HIDE DEF b
        <3> QED
            BY <1>4, <3>2, <3>3
    <2>6. ASSUME NEW l \in Libs, NEW q \in Ptrs, RefCallback(t, l, q) PROVE Goal
        <3> DEFINE c == callbacks[q]
                   Set(st, r) == [c EXCEPT !.state = st, !.refd = r]
                   Fail == [c EXCEPT !.state = "collected"]
        <3>1. c \in Binding /\ c = callbacks[q]
            BY <1>1
        <3>2. Registered(q) /\ UNCHANGED heldFns
            BY <2>6, NoneAssumption DEF RefCallback, Finds, Registered, memory
        <3>3. ASSUME NEW st \in {"strong", "weak", "collected"}, NEW r \in BOOLEAN,
                     r => st = "strong" \/ (c.fn \in heldFns /\ ~Callable(c)),
                     callbacks' = [callbacks EXCEPT ![q] = Set(st, r)]
              PROVE  Goal
            <4>1. /\ Set(st, r) \in Binding /\ Set(st, r).fn = c.fn
                  /\ Set(st, r).state = st /\ Set(st, r).refd = r
                BY <3>1 DEF Binding
            <4> HIDE DEF Set, c
            <4> QED
                BY <1>4, <3>1, <3>2, <3>3, <4>1
        <3>4. CASE callbacks' = [callbacks EXCEPT ![q] = Fail] /\ c.state = "weak"
            <4>1. Fail \in Binding /\ Fail.fn = c.fn /\ Fail.refd = c.refd
                BY <3>1 DEF Binding
            <4> HIDE DEF Fail, c
            <4> QED
                BY <1>4, <3>1, <3>2, <3>4, <4>1
        <3>5. /\ c.state \in {"strong", "weak", "collected"} /\ (c.fn \in heldFns) \in BOOLEAN
              /\ c.state = "strong" \/ (c.state = "weak" /\ c.holder) \/ ~Callable(c)
            BY <3>1 DEF Binding, Callable
        <3> HIDE DEF Set, Fail, c
        <3>6. CASE callbacks' = [callbacks EXCEPT ![q] = Set("strong", c.fn \in heldFns)]
            BY <3>3, <3>5, <3>6, Zenon
        <3>7. CASE /\ ~(c.state = "weak" /\ c.holder)
                   /\ callbacks' = [callbacks EXCEPT ![q] =
                         Set(IF c.state = "weak" THEN "collected" ELSE c.state,
                             c.fn \in heldFns)]
            <4>1. CASE c.state = "weak"
                BY <3>3, <3>5, <3>7, <4>1, Zenon
            <4>2. CASE c.state # "weak"
                BY <3>3, <3>5, <3>7, <4>2, Zenon
            <4> QED
                BY <4>1, <4>2
        <3> QED
            BY <2>6, <3>4, <3>6, <3>7 DEF RefCallback, Set, Fail, c
    <2>7. CASE \/ \E l \in Libs, f \in Fns : StartRegister(t, l, f)
               \/ RegisterFails(t)
               \/ \E l \in Libs, s \in Symbols, q \in Ptrs \cup {None} : Invoke(t, l, s, q)
        BY <1>2, <2>7 DEF StartRegister, RegisterFails, Invoke, memory
    <2> QED
        BY <1>5, <2>1, <2>2, <2>3, <2>4, <2>5, <2>6, <2>7 DEF Method
<1>6. ASSUME NEW t \in Threads, Native(t) PROVE Goal
    <2>1. ASSUME NEW q \in Ptrs, CallCollected(t, q) PROVE Goal
        <3> DEFINE b == [callbacks[q] EXCEPT !.state = "collected"]
        <3>1. callbacks[q] \in Binding
            BY <1>1
        <3>2. b \in Binding /\ b.fn = callbacks[q].fn /\ b.refd = callbacks[q].refd
            BY <3>1 DEF Binding
        <3>3. /\ callbacks' = [callbacks EXCEPT ![q] = b]
              /\ Registered(q) /\ UNCHANGED heldFns /\ callbacks[q].state # "strong"
            BY <2>1 DEF CallCollected, Own, Callable, memory
        <3> HIDE DEF b
        <3> QED
            BY <1>4, <3>2, <3>3
    <2>2. CASE \/ \E q \in Ptrs : \/ KeepAddress(t, q) \/ ForgetAddress(t, q)
                                  \/ EnterCallback(t, q) \/ EnterCallbackFails(t, q)
               \/ CallbackThrows(t) \/ ReturnFromCallback(t)
               \/ ReturnDangling(t) \/ ReturnFromNative(t)
        BY <1>2, <2>2 DEF KeepAddress, ForgetAddress, EnterCallback, EnterCallbackFails,
            CallbackThrows, ReturnFromCallback, ReturnDangling, ReturnFromNative, Abort,
            Undefined, memory
    <2> QED
        BY <1>6, <2>1, <2>2 DEF Native
<1>7. ASSUME NEW t \in Threads, Exit(t) PROVE Goal
    <2>1. {q \in Ptrs : callbacks[q].lib \in LibsOf(t)} \in SUBSET Ptrs
        OBVIOUS
    <2> QED
        BY <1>3, <1>7, <2>1 DEF Exit
<1>8. CASE Collector
    <2>1. ASSUME NEW q \in Ptrs, CollectHolder(q) PROVE Goal
        <3> DEFINE b == [callbacks[q] EXCEPT !.holder = FALSE]
        <3>1. callbacks[q] \in Binding
            BY <1>1
        <3>2. b \in Binding /\ b.fn = callbacks[q].fn /\ b.refd = callbacks[q].refd
            BY <3>1 DEF Binding
        <3>3. /\ callbacks' = [callbacks EXCEPT ![q] = b]
              /\ Registered(q) /\ UNCHANGED heldFns /\ callbacks[q].state # "strong"
            BY <2>1 DEF CollectHolder, memory
        <3> HIDE DEF b
        <3> QED
            BY <1>4, <3>2, <3>3
    <2>2. ASSUME NEW f \in Fns, CollectOrphan(f) \/ CollectFn(f) PROVE Goal
        BY <1>2, <2>2 DEF CollectOrphan, CollectFn
    <2>3. ASSUME NEW l \in Libs, FinalizeLib(l) PROVE Goal
        BY <1>3, <2>3 DEF FinalizeLib, BindingsOf
    <2> QED
        BY <1>8, <2>1, <2>2, <2>3 DEF Collector
<1>9. CASE \/ \E q \in Ptrs : CallFreed(q) \/ CallForeign(q)
           \/ \E f \in Fns : DropFn(f)
           \/ \E l \in Libs : DropLib(l)
           \/ UNCHANGED vars
    BY <1>2, <1>9 DEF CallFreed, CallForeign, DropFn, DropLib, Abort, Undefined, memory, vars
<1> HIDE DEF Goal
<1> QED
    BY <1>5, <1>6, <1>7, <1>8, <1>9 DEF Next

\* No step loses the callback of a function that the program still has: the
\* collector does not finalize its CallbackRef, and no upgrade fails.
HeldIsNotLost ==
    [][\A p \in Ptrs : /\ Registered(p) /\ Registered(p)'
                       /\ callbacks[p].fn \in heldFns
                       /\ Callable(callbacks[p])
                       => Callable(callbacks'[p])]_vars

\* Retention requested is retention granted, and what the program has it can
\* still retain.
RefdIsStrong ==
    \A p \in Ptrs :
        /\ callbacks[p].refd => callbacks[p].state = "strong"
        /\ Registered(p) /\ callbacks[p].fn \in heldFns => Callable(callbacks[p])

\* RefdIsRetained, which does not hold, fails for no other reason: as long as
\* no callback is lost while the program has its function, the function of a
\* successful refCallback is not collected.
THEOREM RefRetainsUnlessLost == Spec /\ HeldIsNotLost => []RefdIsRetained
<1>1. Init => RefdIsStrong
    BY DEF Init, RefdIsStrong, NoBinding, Registered
<1>2. ASSUME IInv, RefdIsStrong, [Next]_vars,
             [\A p \in Ptrs : /\ Registered(p) /\ Registered(p)'
                              /\ callbacks[p].fn \in heldFns
                              /\ Callable(callbacks[p])
                              => Callable(callbacks'[p])]_vars
      PROVE  RefdIsStrong'
    <2> SUFFICES ASSUME NEW p \in Ptrs
                 PROVE  /\ callbacks'[p].refd => callbacks'[p].state = "strong"
                        /\ Registered(p)' /\ callbacks'[p].fn \in heldFns' => Callable(callbacks'[p])
        BY DEF RefdIsStrong
    <2>1. callbacks'[p].refd => callbacks'[p].state = "strong"
        BY <1>2, BindingStep DEF RefdIsStrong, NoBinding
    <2>2. ASSUME Registered(p)', callbacks'[p].fn \in heldFns' PROVE Callable(callbacks'[p])
        <3>1. CASE Registered(p) /\ callbacks'[p].fn = callbacks[p].fn
            <4>1. callbacks[p].fn \in heldFns
                BY <1>2, <2>2, <3>1, BindingStep
            <4>2. Callable(callbacks[p])
                BY <1>2, <3>1, <4>1 DEF RefdIsStrong
            <4>3. CASE UNCHANGED vars
                BY <4>2, <4>3 DEF vars
            <4> QED
                BY <1>2, <2>2, <3>1, <4>1, <4>2, <4>3
        <3>2. CASE ~Registered(p) /\ callbacks'[p].state = "strong"
            BY <3>2 DEF Callable
        <3>3. callbacks'[p] # NoBinding /\ (callbacks'[p] = callbacks[p] => Registered(p))
            BY <2>2 DEF Registered, NoBinding
        <3> QED
            BY <1>2, <3>1, <3>2, <3>3, BindingStep
    <2> QED
        BY <2>1, <2>2
<1>3. IInv /\ RefdIsStrong => RefdIsRetained
    BY DEF IInv, KeptIsAlive, RefdIsStrong, RefdIsRetained
<1> QED
    BY <1>1, <1>2, <1>3, Inductive, PTL DEF Spec, HeldIsNotLost
=============================================================================
