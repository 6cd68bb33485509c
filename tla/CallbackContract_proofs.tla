----------------------- MODULE CallbackContract_proofs -----------------------
(***************************************************************************)
(* DynamicLibrary implements CallbackContract: its initial states and its  *)
(* steps are, seen through the refinement mapping, those of the contract.  *)
(***************************************************************************)
EXTENDS DynamicLibrary_proofs

-----------------------------------------------------------------------------
(* The mapping of stacks.                                                  *)

\* What the contract sees of an activation.
Roles == [kind: {"invoke", "callback", "register"}, fn: Fns \cup {None}]

\* The activity of a thread is a sequence as long as its stack, of the kinds
\* and functions of its activations.
LEMMA ActivityProperties ==
    ASSUME TypeOK, NEW t \in Threads
    PROVE  /\ stack[t] \in Seq(Frame)
           /\ Activity[t] \in Seq(Roles)
           /\ Len(Activity[t]) = Len(stack[t])
           /\ DOMAIN Activity[t] = 1 .. Len(stack[t])
           /\ \A i \in 1 .. Len(stack[t]) : /\ stack[t][i] \in Frame
                                            /\ Activity[t][i] = Role(stack[t][i])
<1>1. stack[t] \in Seq(Frame)
    BY DEF TypeOK
<1>2. DOMAIN stack[t] = 1 .. Len(stack[t]) /\ Len(stack[t]) \in Nat
    BY <1>1
<1>3. \A i \in 1 .. Len(stack[t]) : stack[t][i] \in Frame
    BY <1>1
<1>4. Activity[t] = [i \in 1 .. Len(stack[t]) |-> Role(stack[t][i])]
    BY <1>2 DEF Activity
<1>5. \A fr \in Frame : Role(fr) \in Roles
    BY DEF Role, Roles, Frame, InvokeFrame, CallbackFrame, RegisterFrame
<1>6. Activity[t] \in Seq(Roles)
    BY <1>2, <1>3, <1>4, <1>5
<1>7. Len(Activity[t]) = Len(stack[t])
    BY <1>2, <1>4
<1> QED
    BY <1>1, <1>2, <1>3, <1>4, <1>6, <1>7

\* What runs on a thread is the same in both views, and so is what is in use.
LEMMA SameActivity ==
    ASSUME TypeOK
    PROVE  /\ \A t \in Threads : stack[t] = <<>> <=> Activity[t] = <<>>
           /\ \A t \in Threads : stack[t] # <<>> =>
                  /\ Contract!Innermost(t).kind = Top(stack[t]).kind
                  /\ Contract!Innermost(t).fn = Top(stack[t]).fn
           /\ \A t \in Threads : InC(t) <=> Contract!Within(t, "invoke")
           /\ \A f \in Fns : Running(f) <=> Contract!InUse(f)
<1>1. ASSUME NEW t \in Threads
      PROVE  stack[t] = <<>> <=> Activity[t] = <<>>
    BY ActivityProperties
<1>2. ASSUME NEW t \in Threads, stack[t] # <<>>
      PROVE  /\ Contract!Innermost(t).kind = Top(stack[t]).kind
             /\ Contract!Innermost(t).fn = Top(stack[t]).fn
    <2>1. Len(stack[t]) \in 1 .. Len(stack[t])
        BY <1>2, ActivityProperties
    <2>2. Contract!Innermost(t) = Role(Top(stack[t]))
        BY <2>1, ActivityProperties DEF Top, Contract!Innermost
    <2> QED
        BY <2>2 DEF Role
<1>3. ASSUME NEW t \in Threads
      PROVE  InC(t) <=> Contract!Within(t, "invoke")
    BY <1>1, <1>2 DEF InC, Contract!Within
<1>4. ASSUME NEW f \in Fns
      PROVE  Running(f) <=> Contract!InUse(f)
    <2>1. \A t \in Threads : DOMAIN Activity[t] = DOMAIN stack[t]
        BY DEF Activity
    <2>2. \A t \in Threads : \A i \in DOMAIN stack[t] : Activity[t][i].fn = stack[t][i].fn
        BY DEF Activity, Role
    <2> QED
        BY <2>1, <2>2 DEF Running, Contract!InUse
<1> QED
    BY <1>1, <1>2, <1>3, <1>4

\* Pushing and popping an activation pushes and pops what it runs.
LEMMA StackActivity ==
    ASSUME TypeOK, NEW t \in Threads
    PROVE  /\ \A fr \in Frame : stack' = [stack EXCEPT ![t] = Append(@, fr)] =>
                  Activity' = [Activity EXCEPT ![t] = Append(@, Role(fr))]
           /\ stack[t] # <<>> /\ stack' = [stack EXCEPT ![t] = Pop(@)] =>
                  Activity' = [Activity EXCEPT ![t] = SubSeq(@, 1, Len(@) - 1)]
<1>1. DOMAIN Activity = Threads
    BY DEF Activity
<1>2. ASSUME NEW fr \in Frame, stack' = [stack EXCEPT ![t] = Append(@, fr)]
      PROVE  Activity' = [Activity EXCEPT ![t] = Append(@, Role(fr))]
    <2>1. /\ stack'[t] = Append(stack[t], fr)
          /\ \A u \in Threads : u # t => stack'[u] = stack[u]
        BY <1>2 DEF TypeOK
    <2>2. Role(fr) \in Roles
        BY DEF Role, Roles, Frame, InvokeFrame, CallbackFrame, RegisterFrame
    <2>3. DOMAIN stack'[t] = 1 .. (Len(stack[t]) + 1)
        BY <2>1, ActivityProperties
    <2>4. Activity'[t] = [i \in 1 .. (Len(stack[t]) + 1) |-> Role(stack'[t][i])]
        BY <2>3 DEF Activity
    <2>5. DOMAIN Append(Activity[t], Role(fr)) = 1 .. (Len(stack[t]) + 1)
        BY <2>2, ActivityProperties
    <2>6. ASSUME NEW i \in 1 .. (Len(stack[t]) + 1)
          PROVE  Role(stack'[t][i]) = Append(Activity[t], Role(fr))[i]
        BY <2>1, <2>2, ActivityProperties
    <2>7. Append(Activity[t], Role(fr)) =
              [i \in 1 .. (Len(stack[t]) + 1) |-> Append(Activity[t], Role(fr))[i]]
        BY <2>2, <2>5, ActivityProperties
    <2>8. Activity'[t] = Append(Activity[t], Role(fr))
        BY <2>4, <2>6, <2>7
    <2>9. \A u \in Threads : u # t => Activity'[u] = Activity[u]
        BY <2>1 DEF Activity
    <2>10. Activity' = [u \in Threads |-> Activity'[u]]
        BY DEF Activity
    <2> QED
        BY <1>1, <2>8, <2>9, <2>10
<1>3. ASSUME stack[t] # <<>>, stack' = [stack EXCEPT ![t] = Pop(@)]
      PROVE  Activity' = [Activity EXCEPT ![t] = SubSeq(@, 1, Len(@) - 1)]
    <2> DEFINE n == Len(stack[t])
    <2>1. /\ stack'[t] = Pop(stack[t])
          /\ \A u \in Threads : u # t => stack'[u] = stack[u]
        BY <1>3 DEF TypeOK
    <2>2. n \in Nat \ {0} /\ Len(Activity[t]) = n
        BY <1>3, ActivityProperties
    <2>3. DOMAIN stack'[t] = 1 .. (n - 1)
        BY <1>3, <2>1, ActivityProperties, PopProperties
    <2>4. Activity'[t] = [i \in 1 .. (n - 1) |-> Role(stack'[t][i])]
        BY <2>3 DEF Activity
    <2>5. SubSeq(Activity[t], 1, n - 1) = [i \in 1 .. (n - 1) |-> Activity[t][i]]
        BY <2>2, ActivityProperties
    <2>6. ASSUME NEW i \in 1 .. (n - 1)
          PROVE  Role(stack'[t][i]) = Activity[t][i]
        BY <1>3, <2>1, <2>2, ActivityProperties, PopProperties
    <2>7. Activity'[t] = SubSeq(Activity[t], 1, n - 1)
        BY <2>4, <2>5, <2>6
    <2>8. \A u \in Threads : u # t => Activity'[u] = Activity[u]
        BY <2>1 DEF Activity
    <2>9. Activity' = [u \in Threads |-> Activity'[u]]
        BY DEF Activity
    <2> QED
        BY <1>1, <2>2, <2>7, <2>8, <2>9
<1> QED
    BY <1>2, <1>3

-----------------------------------------------------------------------------
(* Steps, grouped by what they are in the contract.                        *)

\* The initial states are initial states of the contract.
LEMMA InitContract == Init => Contract!Init
<1> SUFFICES ASSUME Init PROVE Contract!Init
    OBVIOUS
<1>1. Owner = [p \in Ptrs |-> None] /\ Retained = {} /\ Lost = {} /\ Gone = {}
    BY DEF Init, Owner, Retained, Lost, Gone, Registered, NoBinding
<1>2. Activity = [t \in Threads |-> <<>>]
    BY DEF Init, Activity
<1> QED
    BY <1>1, <1>2 DEF Init, Contract!Init

\* Steps that touch no binding, stack or heap are none of the contract's.
LEMMA SameContract ==
    ASSUME UNCHANGED <<callbacks, stack, process, alive, releasedInUse>>
    PROVE  UNCHANGED Contract!cvars
<1>1. UNCHANGED <<Owner, Retained, Lost, Activity, Gone>>
    BY DEF Owner, Retained, Lost, Activity, Gone, Registered, Callable
<1> QED
    BY <1>1 DEF Contract!cvars

\* Steps after which the process does not run stop the contract too.
LEMMA StopContract ==
    ASSUME process = "running",
           process' = "aborted" \/ (process' = "undefined" /\ releasedInUse),
           UNCHANGED <<library, functions, callbacks, stack, memory, history>>
    PROVE  Contract!Next
<1>1. UNCHANGED <<Owner, Retained, Lost, Activity, Gone>>
    BY DEF Owner, Retained, Lost, Activity, Gone, Registered, Callable, memory
<1> QED
    BY <1>1 DEF Contract!Next, Contract!Stop, history

\* Freeing bindings forgets their addresses and leaves the activity as it is.
LEMMA FreeContract ==
    ASSUME IInv, NEW ps \in SUBSET Ptrs, Free(ps)
    PROVE  Contract!Forget(ps) /\ Activity' = Activity
<1>1. Owner' = [p \in Ptrs |-> IF p \in ps THEN None ELSE Owner[p]]
    BY DEF Free, Owner, NoBinding
<1>2. Retained' = Retained \ ps
    BY DEF Free, Retained, NoBinding
<1>3. Lost' = Lost \ ps
    BY DEF Free, Lost, Registered, Callable, NoBinding
<1>4. Activity' = Activity
    <2>1. \A t \in Threads : DOMAIN stack'[t] = DOMAIN stack[t]
        BY FreeStack DEF IInv
    <2>2. \A t \in Threads : \A i \in DOMAIN stack[t] :
              Role(stack'[t][i]) = Role(stack[t][i])
        BY FreeStack DEF IInv, Role
    <2> QED
        BY <2>1, <2>2 DEF Activity
<1>5. releasedInUse' \in {releasedInUse, TRUE}
    BY DEF Free, IInv, TypeOK
<1> QED
    BY <1>1, <1>2, <1>3, <1>4, <1>5 DEF Contract!Forget

\* A binding that changes state becomes or stays strong only if its function
\* was callable, and loses its function only if it was not strong.
LEMMA StateContract ==
    ASSUME IInv, NEW p \in Ptrs, Registered(p), NEW b \in Binding,
           callbacks' = [callbacks EXCEPT ![p] = b],
           UNCHANGED <<library, functions, stack, process, memory, history>>,
           process = "running",
           b.lib = callbacks[p].lib,
           b.fn = callbacks[p].fn,
           b.state = "strong" => Callable(callbacks[p]),
           Callable(b) => Callable(callbacks[p]),
           ~Callable(b) => callbacks[p].state # "strong"
    PROVE  Contract!Next
<1>1. /\ callbacks'[p] = b
      /\ \A q \in Ptrs : q # p => callbacks'[q] = callbacks[q]
    BY DEF IInv, TypeOK
<1>2. /\ UNCHANGED <<Activity, Gone, releasedInUse, process>>
      /\ Owner' = Owner
    BY <1>1 DEF Activity, Gone, Owner, memory, history
<1>3. Owner[p] # None
    <2>1. callbacks[p] \in Binding /\ callbacks[p].lib # None
        BY DEF IInv, TypeOK, Registered
    <2>2. callbacks[p].fn # None
        BY <2>1, NoneAssumption DEF IInv, ClosedIsEmpty, FnsOf, Registered
    <2> QED
        BY <2>2 DEF Owner
<1>4. CASE b.state = "strong"
    <2>1. Retained' = Retained \cup {p} /\ Lost' = Lost /\ p \notin Lost
        BY <1>1, <1>4 DEF Retained, Lost, Registered, Callable
    <2> QED
        BY <1>2, <1>3, <2>1 DEF Contract!Next, Contract!Run, Contract!Retain
<1>5. CASE b.state # "strong" /\ Callable(b)
    <2>1. Retained' = Retained \ {p} /\ Lost' = Lost
        BY <1>1, <1>5 DEF Retained, Lost, Registered
    <2> QED
        BY <1>2, <2>1 DEF Contract!Next, Contract!Run, Contract!Unretain
<1>6. CASE b.state # "strong" /\ ~Callable(b)
    <2>1. Retained' = Retained /\ p \notin Retained /\ Lost' = Lost \cup {p}
        BY <1>1, <1>6 DEF Retained, Lost, Registered
    <2> QED
        BY <1>2, <1>3, <2>1 DEF Contract!Next, Contract!Run, Contract!Lose
<1> QED
    BY <1>4, <1>5, <1>6 DEF Callable

\* Losing bindings releases their addresses.
LEMMA ReleaseContract ==
    ASSUME IInv, NEW ps \in SUBSET Ptrs, Free(ps), UNCHANGED <<process, alive>>,
           process = "running"
    PROVE  Contract!Next
<1>1. Contract!Release(ps)
    BY FreeContract DEF Contract!Release, Gone
<1> QED
    BY <1>1 DEF Contract!Next, Contract!Run

\* The end of an environment is the end of a heap: the bindings it frees are
\* those of the functions of that heap.
LEMMA ExitContract ==
    ASSUME IInv, NEW t \in Threads, Exit(t)
    PROVE  Contract!Next
<1> DEFINE ps == {p \in Ptrs : callbacks[p].lib \in LibsOf(t)}
<1>1. ps = {p \in Ptrs : Owner[p] # None /\ FnThread[Owner[p]] = t}
    <2> SUFFICES ASSUME NEW p \in Ptrs
                 PROVE  callbacks[p].lib \in LibsOf(t)
                            <=> callbacks[p].fn # None /\ FnThread[callbacks[p].fn] = t
        BY DEF Owner
    <2>1. callbacks[p] \in Binding
        BY DEF IInv, TypeOK
    <2>2. CASE Registered(p)
        BY <2>1, <2>2, NoneAssumption
        DEF IInv, ClosedIsEmpty, Registered, FnsOf, LibsOf, Binding
    <2>3. CASE ~Registered(p)
        <3>1. callbacks[p].fn = None
            BY <2>3 DEF IInv, KeptIsAlive, NoBinding
        <3> QED
            BY <2>3, <3>1, NoneAssumption DEF Registered, LibsOf
    <2> QED
        BY <2>2, <2>3
<1>2. Contract!Forget(ps) /\ Activity' = Activity
    BY FreeContract DEF Exit
<1>3. Activity[t] = <<>>
    BY SameActivity DEF IInv, Exit
<1>4. Gone' = Gone \cup {f \in Fns : FnThread[f] = t}
    BY DEF Gone, Exit, FnsOf
<1> HIDE DEF ps
<1>5. Contract!Exit(t)
    BY <1>1, <1>2, <1>3, <1>4 DEF Contract!Exit
<1> QED
    BY <1>5 DEF Contract!Next, Contract!Run, Exit, InJs

-----------------------------------------------------------------------------
(* Every step.                                                             *)

\* Each state change of the two retention methods is one the contract has.
LEMMA RefContract ==
    ASSUME IInv, NEW t \in Threads, NEW l \in Libs, NEW p \in Ptrs,
           RefCallback(t, l, p) \/ UnrefCallback(t, l, p)
    PROVE  Contract!Next
<1> DEFINE Was == callbacks[p]
           Set(st, r) == [Was EXCEPT !.state = st, !.refd = r]
<1>1. /\ Registered(p) /\ Was \in Binding
      /\ process = "running"
      /\ UNCHANGED <<library, functions, stack, process, memory, history>>
    BY NoneAssumption
    DEF RefCallback, UnrefCallback, Finds, Calls, InJs, Registered, IInv, TypeOK
<1>2. Was.state = "strong" => Was.holder
    BY DEF IInv, KeptIsAlive
<1>3. ASSUME NEW st \in {"strong", "weak", "collected"}, NEW r \in BOOLEAN
      PROVE  /\ Set(st, r) \in Binding
             /\ Set(st, r).lib = Was.lib /\ Set(st, r).fn = Was.fn
             /\ Set(st, r).holder = Was.holder /\ Set(st, r).state = st
    BY <1>1 DEF Binding
<1>4. [Was EXCEPT !.state = "collected"] = Set("collected", Was.refd) /\ Was.refd \in BOOLEAN
    BY <1>1 DEF Binding
<1>5. Was.state \in {"strong", "weak", "collected"} /\ (Was.fn \in heldFns) \in BOOLEAN
    BY <1>1 DEF Binding
<1> HIDE DEF Set
<1>6. ASSUME NEW st \in {"strong", "weak", "collected"}, NEW r \in BOOLEAN,
             callbacks' = [callbacks EXCEPT ![p] = Set(st, r)],
             st = "strong" => Callable(Was),
             st = "weak" /\ Was.holder => Callable(Was),
             st = "weak" /\ ~Was.holder => Was.state # "strong",
             st = "collected" => Was.state # "strong"
      PROVE  Contract!Next
    <2>1. Callable(Set(st, r)) => Callable(Was)
        BY <1>3, <1>6 DEF Callable
    <2>2. ~Callable(Set(st, r)) => Was.state # "strong"
        BY <1>3, <1>6 DEF Callable
    <2> QED
        BY <1>1, <1>3, <1>6, <2>1, <2>2, StateContract
<1>7. ASSUME NEW r \in BOOLEAN, Was.state # "strong",
             callbacks' = [callbacks EXCEPT ![p] = Set("collected", r)]
      PROVE  Contract!Next
    BY <1>6, <1>7
<1>8. CASE RefCallback(t, l, p)
    <2>1. CASE /\ Was.state = "weak" /\ Was.holder
               /\ callbacks' = [callbacks EXCEPT ![p] = Set("strong", Was.fn \in heldFns)]
        BY <1>5, <1>6, <2>1 DEF Callable
    <2>2. CASE /\ ~(Was.state = "weak" /\ Was.holder)
               /\ callbacks' = [callbacks EXCEPT ![p] =
                     Set(IF Was.state = "weak" THEN "collected" ELSE Was.state,
                         Was.fn \in heldFns)]
        <3>1. CASE Was.state = "strong"
            BY <1>5, <1>6, <2>2, <3>1 DEF Callable
        <3>2. CASE Was.state # "strong"
            BY <1>5, <1>7, <2>2, <3>2
        <3> QED
            BY <3>1, <3>2
    <2>3. CASE /\ Was.state = "weak"
               /\ callbacks' = [callbacks EXCEPT ![p] = Set("collected", Was.refd)]
        BY <1>4, <1>7, <2>3
    <2> QED
        BY <1>4, <1>8, <2>1, <2>2, <2>3 DEF RefCallback, Set
<1>9. CASE UnrefCallback(t, l, p)
    <2>1. callbacks' = [callbacks EXCEPT ![p] =
              Set(IF Was.state = "strong" THEN "weak" ELSE Was.state, FALSE)]
        BY <1>9 DEF UnrefCallback, Set
    <2>2. CASE Was.state \in {"strong", "weak"}
        BY <1>2, <1>6, <2>1, <2>2 DEF Callable
    <2>3. CASE Was.state = "collected"
        BY <1>7, <2>1, <2>3
    <2> QED
        BY <1>5, <2>2, <2>3
<1> QED
    BY <1>8, <1>9

\* Offering and registering a function, calling one of a library, entering a
\* callback and leaving any of these are the contract's steps.
LEMMA StackContract ==
    ASSUME IInv, NEW t \in Threads,
           \/ \E l \in Libs, f \in Fns : StartRegister(t, l, f)
           \/ \E p \in Ptrs : RegisterCallback(t, p)
           \/ RegisterFails(t)
           \/ \E l \in Libs, s \in Symbols, p \in Ptrs \cup {None} : Invoke(t, l, s, p)
           \/ \E p \in Ptrs : EnterCallback(t, p)
           \/ ReturnFromCallback(t)
           \/ ReturnFromNative(t)
    PROVE  Contract!Next
<1>1. ASSUME NEW p \in Ptrs, RegisterCallback(t, p)
      PROVE  Contract!Next
    <2> DEFINE f == Top(stack[t]).fn
               b == [lib |-> Top(stack[t]).lib, thread |-> t, fn |-> f, state |-> "strong",
                     holder |-> TRUE, refd |-> f \in heldFns]
    <2>1. Top(stack[t]).lib \in Libs /\ f \in Fns /\ stack[t] # <<>>
        BY <1>1, RegisterProperties
    <2>2. b.fn = f /\ b.state = "strong" /\ b.lib # None
        BY <2>1, NoneAssumption
    <2>3. b \in Binding
        BY <2>1 DEF Binding
    <2>4. /\ callbacks' = [callbacks EXCEPT ![p] = b]
          /\ stack' = [stack EXCEPT ![t] = Pop(@)]
          /\ Top(stack[t]).kind = "register"
          /\ process = "running" /\ ~Registered(p)
          /\ UNCHANGED <<process, alive, releasedInUse>>
        BY <1>1 DEF RegisterCallback, InJs, memory, history
    <2> HIDE DEF b
    <2>5. /\ callbacks'[p] = b
          /\ \A q \in Ptrs : q # p => callbacks'[q] = callbacks[q]
        BY <2>4 DEF IInv, TypeOK
    <2>6. Owner' = [Owner EXCEPT ![p] = f]
        BY <2>2, <2>5 DEF Owner
    <2>7. Retained' = Retained \cup {p} /\ Lost' = Lost
        BY <2>2, <2>4, <2>5 DEF Retained, Lost, Registered, Callable
    <2>8. Owner[p] = None
        BY <2>4 DEF IInv, KeptIsAlive, NoBinding, Owner
    <2>9. Contract!Within(t, "register") /\ Contract!Innermost(t).fn = f
        BY <2>1, <2>4, SameActivity DEF IInv, Contract!Within
    <2>10. Contract!End(t)
        BY <2>1, <2>4, StackActivity DEF IInv, Contract!End
    <2>11. Gone' = Gone
        BY <2>4 DEF Gone
    <2> HIDE DEF f
    <2>12. Contract!Register(t, p)
        BY <2>4, <2>6, <2>7, <2>8, <2>9, <2>10, <2>11 DEF Contract!Register
    <2> QED
        BY <2>4, <2>12 DEF Contract!Next, Contract!Run
<1>2. ASSUME NEW fr \in Frame, stack' = [stack EXCEPT ![t] = Append(@, fr)]
      PROVE  Contract!Enclose(t, fr.kind, fr.fn)
    BY <1>2, StackActivity DEF IInv, Role, Contract!Enclose
<1>3. ASSUME UNCHANGED <<library, functions, callbacks, process, memory, history>>
      PROVE  UNCHANGED <<Owner, Retained, Lost, Gone, releasedInUse, process>>
    BY <1>3 DEF Owner, Retained, Lost, Gone, Registered, Callable, memory, history
<1>4. ASSUME NEW l \in Libs, NEW f \in Fns, StartRegister(t, l, f)
      PROVE  Contract!Next
    <2> DEFINE fr == [kind |-> "register", lib |-> l, sym |-> None, sig |-> None,
                      ptr |-> None, fn |-> f, dangling |-> FALSE]
    <2>1. fr \in Frame /\ fr.kind = "register" /\ fr.fn = f
        BY DEF Frame, RegisterFrame
    <2>2. stack' = [stack EXCEPT ![t] = Append(@, fr)]
        BY <1>4 DEF StartRegister
    <2> HIDE DEF fr
    <2>3. Contract!Enclose(t, "register", f)
        BY <1>2, <2>1, <2>2
    <2>4. ~Contract!Within(t, "invoke") /\ process = "running" /\ f \notin Gone
        BY <1>4, SameActivity DEF IInv, KeptIsAlive, StartRegister, Calls, InJs, Gone
    <2>5. UNCHANGED <<Owner, Retained, Lost, Gone, releasedInUse, process>>
        BY <1>3, <1>4 DEF StartRegister
    <2> QED
        BY <2>3, <2>4, <2>5 DEF Contract!Next, Contract!Run, Contract!Offer
<1>5. ASSUME NEW l \in Libs, NEW s \in Symbols, NEW p \in Ptrs \cup {None}, Invoke(t, l, s, p)
      PROVE  Contract!Next
    <2> DEFINE fr == [kind |-> "invoke", lib |-> l, sym |-> s, sig |-> functions[l][s],
                      ptr |-> p, fn |-> None, dangling |-> FALSE]
    <2>1. fr \in Frame /\ fr.kind = "invoke" /\ fr.fn = None
        BY <1>5 DEF IInv, TypeOK, Invoke, Frame, InvokeFrame
    <2>2. stack' = [stack EXCEPT ![t] = Append(@, fr)]
        BY <1>5 DEF Invoke
    <2> HIDE DEF fr
    <2>3. Contract!Enclose(t, "invoke", None)
        BY <1>2, <2>1, <2>2
    <2>4. ~Contract!Within(t, "invoke") /\ process = "running"
        BY <1>5, SameActivity DEF IInv, Invoke, Calls, InJs
    <2>5. UNCHANGED <<Owner, Retained, Lost, Gone, releasedInUse, process>>
        BY <1>3, <1>5 DEF Invoke
    <2> QED
        BY <2>3, <2>4, <2>5 DEF Contract!Next, Contract!Run, Contract!Call
<1>6. ASSUME NEW p \in Ptrs, EnterCallback(t, p)
      PROVE  Contract!Next
    <2> DEFINE b == callbacks[p]
               fr == [kind |-> "callback", lib |-> b.lib, sym |-> None, sig |-> None,
                      ptr |-> p, fn |-> b.fn, dangling |-> FALSE]
    <2>1. Own(t, p) /\ Callable(b) /\ process = "running"
        BY <1>6, OwnProperties DEF EnterCallback
    <2>2. b.fn \in Fns /\ b.lib \in Libs /\ FnThread[b.fn] = t
        BY <2>1, OwnProperties DEF IInv, ClosedIsEmpty, FnsOf, Own
    <2>3. fr \in Frame /\ fr.kind = "callback" /\ fr.fn = b.fn
        BY <2>2 DEF Frame, CallbackFrame
    <2>4. stack' = [stack EXCEPT ![t] = Append(@, fr)]
        BY <1>6 DEF EnterCallback
    <2> HIDE DEF fr
    <2>5. Contract!Enclose(t, "callback", Owner[p])
        BY <1>2, <2>3, <2>4 DEF Owner
    <2>6. Contract!Within(t, "invoke")
        BY <2>1, SameActivity DEF IInv, Own, Has, InNative
    <2>7. Owner[p] # None /\ p \notin Lost /\ FnThread[Owner[p]] = t
        BY <2>1, <2>2, NoneAssumption DEF Owner, Lost
    <2>8. UNCHANGED <<Owner, Retained, Lost, Gone, releasedInUse, process>>
        BY <1>3, <1>6 DEF EnterCallback
    <2> QED
        BY <2>1, <2>5, <2>6, <2>7, <2>8 DEF Contract!Next, Contract!Run, Contract!Enter
<1>7. CASE ReturnFromCallback(t) \/ ReturnFromNative(t) \/ RegisterFails(t)
    <2>1. /\ stack[t] # <<>>
          /\ process = "running"
          /\ stack' = [stack EXCEPT ![t] = Pop(@)]
        BY <1>7 DEF ReturnFromCallback, ReturnFromNative, RegisterFails, InJs, InNative, InC
    <2>2. Contract!End(t) /\ Activity[t] # <<>>
        BY <2>1, StackActivity, SameActivity DEF IInv, Contract!End
    <2>3. UNCHANGED <<Owner, Retained, Lost, Gone, releasedInUse, process>>
        BY <1>3, <1>7 DEF ReturnFromCallback, ReturnFromNative, RegisterFails
    <2> QED
        BY <2>1, <2>2, <2>3 DEF Contract!Next, Contract!Run, Contract!Leave
<1> QED
    BY <1>1, <1>4, <1>5, <1>6, <1>7

\* Every method called from JavaScript is a step of the contract, or none.
LEMMA MethodContract ==
    ASSUME IInv, NEW t \in Threads, Method(t)
    PROVE  Contract!Next \/ UNCHANGED Contract!cvars
<1>1. ASSUME NEW l \in Libs, CloseBorrowed(t, l) \/ GetFunctionBorrowed(t, l)
      PROVE  Contract!Next
    BY <1>1, StopContract DEF CloseBorrowed, GetFunctionBorrowed, Abort, Calls, InJs
<1>2. ASSUME NEW l \in Libs, Close(t, l)
      PROVE  Contract!Next
    <2>1. BindingsOf(l) \in SUBSET Ptrs
        BY DEF BindingsOf
    <2> QED
        BY <1>2, <2>1, ReleaseContract DEF Close, Calls, InJs
<1>3. ASSUME NEW l \in Libs,
             New(t, l) \/ \E s \in Symbols, g \in Sigs : GetFunction(t, l, s, g)
      PROVE  UNCHANGED Contract!cvars
    BY <1>3, SameContract DEF New, GetFunction, memory, history
<1>4. ASSUME NEW l \in Libs, NEW p \in Ptrs, UnregisterCallback(t, l, p)
      PROVE  Contract!Next
    BY <1>4, ReleaseContract DEF UnregisterCallback, Finds, Calls, InJs
<1>5. ASSUME NEW l \in Libs, NEW p \in Ptrs, RefCallback(t, l, p) \/ UnrefCallback(t, l, p)
      PROVE  Contract!Next
    BY <1>5, RefContract
<1>6. CASE \/ \E l \in Libs, f \in Fns : StartRegister(t, l, f)
           \/ \E p \in Ptrs : RegisterCallback(t, p)
           \/ RegisterFails(t)
           \/ \E l \in Libs, s \in Symbols, p \in Ptrs \cup {None} : Invoke(t, l, s, p)
    BY <1>6, StackContract
<1> QED
    BY <1>1, <1>2, <1>3, <1>4, <1>5, <1>6 DEF Method

\* Every step of C code and of a callback is a step of the contract, or none.
LEMMA NativeContract ==
    ASSUME IInv, NEW t \in Threads, Native(t)
    PROVE  Contract!Next \/ UNCHANGED Contract!cvars
<1>1. ASSUME NEW p \in Ptrs, KeepAddress(t, p) \/ ForgetAddress(t, p)
      PROVE  UNCHANGED Contract!cvars
    BY <1>1, SameContract DEF KeepAddress, ForgetAddress, history
<1>2. ASSUME NEW p \in Ptrs, EnterCallbackFails(t, p)
      PROVE  Contract!Next
    BY <1>2, StopContract, OwnProperties DEF EnterCallbackFails, Abort
<1>3. ASSUME NEW p \in Ptrs, CallCollected(t, p)
      PROVE  Contract!Next
    <2> DEFINE b == [callbacks[p] EXCEPT !.state = "collected"]
    <2>1. Own(t, p) /\ ~Callable(callbacks[p]) /\ process = "running"
        BY <1>3, OwnProperties DEF CallCollected
    <2>2. /\ b \in Binding
          /\ b.lib = callbacks[p].lib /\ b.fn = callbacks[p].fn
          /\ b.state = "collected"
        BY <2>1, OwnProperties DEF Binding
    <2>3. callbacks' = [callbacks EXCEPT ![p] = b]
        BY <1>3 DEF CallCollected
    <2> HIDE DEF b
    <2>4. ~Callable(b) /\ callbacks[p].state # "strong"
        BY <2>1, <2>2 DEF Callable
    <2> QED
        BY <1>3, <2>1, <2>2, <2>3, <2>4, StateContract DEF CallCollected, Own
<1>4. CASE CallbackThrows(t)
    BY <1>4, StopContract DEF CallbackThrows, Abort, InJs
<1>5. CASE ReturnDangling(t)
    <2>1. releasedInUse
        BY <1>5, ReturnDanglingIInv
        DEF IInv, UndefinedOnlyAfterRelease, ReturnDangling, Undefined, history
    <2> QED
        BY <1>5, <2>1, StopContract DEF ReturnDangling, Undefined, InJs
<1>6. CASE \/ \E p \in Ptrs : EnterCallback(t, p)
           \/ ReturnFromCallback(t)
           \/ ReturnFromNative(t)
    BY <1>6, StackContract
<1> QED
    BY <1>1, <1>2, <1>3, <1>4, <1>5, <1>6 DEF Native

\* Every step of the collector is a step of the contract, or none.
LEMMA CollectorContract ==
    ASSUME IInv, Collector
    PROVE  Contract!Next \/ UNCHANGED Contract!cvars
<1>1. ASSUME NEW p \in Ptrs, CollectHolder(p)
      PROVE  Contract!Next
    <2> DEFINE b == [callbacks[p] EXCEPT !.holder = FALSE]
    <2>1. callbacks[p] \in Binding
        BY DEF IInv, TypeOK
    <2>2. /\ b \in Binding
          /\ b.lib = callbacks[p].lib /\ b.fn = callbacks[p].fn
          /\ b.state = callbacks[p].state /\ ~b.holder
        BY <2>1 DEF Binding
    <2>3. callbacks' = [callbacks EXCEPT ![p] = b]
        BY <1>1 DEF CollectHolder
    <2>4. callbacks[p].state # "strong"
        BY <1>1 DEF CollectHolder
    <2> HIDE DEF b
    <2>5. ~Callable(b)
        BY <2>2, <2>4 DEF Callable
    <2> QED
        BY <1>1, <2>2, <2>3, <2>4, <2>5, StateContract DEF CollectHolder
<1>2. ASSUME NEW f \in Fns, CollectOrphan(f)
      PROVE  UNCHANGED Contract!cvars
    BY <1>2, SameContract DEF CollectOrphan, history
<1>3. ASSUME NEW f \in Fns, CollectFn(f)
      PROVE  Contract!Next
    <2>1. ~Contract!InUse(f)
        BY <1>3, SameActivity DEF IInv, CollectFn
    <2>2. \A p \in Ptrs : Owner[p] = f => p \in Lost
        <3> SUFFICES ASSUME NEW p \in Ptrs, callbacks[p].fn = f
                     PROVE  Registered(p) /\ ~Callable(callbacks[p])
            BY DEF Owner, Lost
        <3>1. Registered(p)
            BY NoneAssumption DEF IInv, KeptIsAlive, NoBinding
        <3>2. ~callbacks[p].holder
            BY <1>3 DEF CollectFn
        <3> QED
            BY <3>1, <3>2 DEF IInv, KeptIsAlive, Callable
    <2>3. Gone' = Gone \cup {f}
        BY <1>3 DEF CollectFn, Gone
    <2>4. UNCHANGED <<Owner, Retained, Lost, Activity>>
        BY <1>3 DEF CollectFn, Owner, Retained, Lost, Activity, Registered, Callable
    <2> QED
        BY <1>3, <2>1, <2>2, <2>3, <2>4
        DEF CollectFn, history, Contract!Next, Contract!Run, Contract!Collect
<1>4. ASSUME NEW l \in Libs, FinalizeLib(l)
      PROVE  Contract!Next
    <2>1. BindingsOf(l) \in SUBSET Ptrs
        BY DEF BindingsOf
    <2> QED
        BY <1>4, <2>1, ReleaseContract DEF FinalizeLib
<1> QED
    BY <1>1, <1>2, <1>3, <1>4 DEF Collector

\* Every step of the native core is a step of the contract or leaves all it
\* speaks of unchanged.
LEMMA NextContract == IInv /\ [Next]_vars => [Contract!Next]_Contract!cvars
<1> SUFFICES ASSUME IInv, [Next]_vars
             PROVE  Contract!Next \/ UNCHANGED Contract!cvars
    OBVIOUS
<1>1. CASE UNCHANGED vars
    BY <1>1, SameContract DEF vars, memory, history
<1>2. ASSUME NEW p \in Ptrs, CallForeign(p)
      PROVE  Contract!Next
    BY <1>2, StopContract DEF CallForeign, Abort
<1>3. ASSUME NEW p \in Ptrs, CallFreed(p)
      PROVE  Contract!Next
    <2>1. releasedInUse
        BY <1>3 DEF IInv, CarriedIsRegistered, CallFreed
    <2> QED
        BY <1>3, <2>1, StopContract DEF CallFreed, Undefined
<1>4. ASSUME NEW f \in Fns, DropFn(f)
      PROVE  UNCHANGED Contract!cvars
    BY <1>4, SameContract DEF DropFn, history
<1>5. ASSUME NEW l \in Libs, DropLib(l)
      PROVE  UNCHANGED Contract!cvars
    BY <1>5, SameContract DEF DropLib, history
<1>6. CASE Next
    BY <1>2, <1>3, <1>4, <1>5, <1>6, MethodContract, NativeContract, ExitContract,
       CollectorContract
    DEF Next
<1> QED
    BY <1>1, <1>6

-----------------------------------------------------------------------------
(* Theorem.                                                                *)

\* The native core keeps the contract of its callbacks, for any number of
\* threads, libraries, addresses and functions and any nesting of calls.
THEOREM ContractImplemented == Spec => ImplementsContract
BY InitContract, NextContract, Inductive, PTL DEF Spec, ImplementsContract, Contract!Spec
=============================================================================
