-------------------------- MODULE CallbackContract --------------------------
(***************************************************************************)
(* What registered callbacks promise to a program and to the C code it     *)
(* calls, with no word of libraries, bindings, references or closures.     *)
(*                                                                         *)
(* An address belongs to one function until the program releases it, and   *)
(* calling it on the function's thread runs that function.  A function     *)
(* that is not retained may be lost, and is then never called again; a     *)
(* retained one cannot be.  Only what no address can call any more and no  *)
(* activity uses is collected. Behaviour is defined unless an address was  *)
(* released while C code had it.                                           *)
(***************************************************************************)
EXTENDS Integers, Sequences

CONSTANTS Threads, Ptrs, Fns, FnThread, None

VARIABLES
    owner,     \* per address: the function it calls, or None
    retained,  \* addresses that keep their function
    lost,      \* addresses that belong to a function they no longer reach
    activity,  \* per thread: calls, callbacks and registrations, innermost last
    gone,      \* functions that no longer exist
    process,   \* running, aborted or undefined
    misused    \* an address was released while C code had it

cvars == <<owner, retained, lost, activity, gone, process, misused>>

Innermost(t) == activity[t][Len(activity[t])]
Within(t, kind) == activity[t] # <<>> /\ Innermost(t).kind = kind
InUse(f) == \E t \in Threads : \E i \in DOMAIN activity[t] : activity[t][i].fn = f

Enclose(t, kind, f) == activity' = [activity EXCEPT ![t] = Append(@, [kind |-> kind, fn |-> f])]
End(t) == activity' = [activity EXCEPT ![t] = SubSeq(@, 1, Len(@) - 1)]

Init ==
    /\ owner = [p \in Ptrs |-> None]
    /\ retained = {}
    /\ lost = {}
    /\ activity = [t \in Threads |-> <<>>]
    /\ gone = {}
    /\ process = "running"
    /\ misused = FALSE

Offer(t, f) ==
    /\ ~Within(t, "invoke")
    /\ f \notin gone
    /\ Enclose(t, "register", f)
    /\ UNCHANGED <<owner, retained, lost, gone, misused>>

\* What runs while a function is registered may do anything, but not have
\* that function collected.
Register(t, p) ==
    /\ Within(t, "register")
    /\ owner[p] = None
    /\ owner' = [owner EXCEPT ![p] = Innermost(t).fn]
    /\ retained' = retained \cup {p}
    /\ End(t)
    /\ UNCHANGED <<lost, gone, misused>>

\* Several addresses are released at once when their library goes.
Forget(ps) ==
    /\ owner' = [p \in Ptrs |-> IF p \in ps THEN None ELSE owner[p]]
    /\ retained' = retained \ ps
    /\ lost' = lost \ ps
    /\ misused' \in {misused, TRUE}

Release(ps) ==
    /\ Forget(ps)
    /\ UNCHANGED <<activity, gone>>

Retain(p) ==
    /\ owner[p] # None
    /\ p \notin lost
    /\ retained' = retained \cup {p}
    /\ UNCHANGED <<owner, lost, activity, gone, misused>>

Unretain(p) ==
    /\ retained' = retained \ {p}
    /\ UNCHANGED <<owner, lost, activity, gone, misused>>

Lose(p) ==
    /\ owner[p] # None
    /\ p \notin retained
    /\ lost' = lost \cup {p}
    /\ UNCHANGED <<owner, retained, activity, gone, misused>>

Call(t) ==
    /\ ~Within(t, "invoke")
    /\ Enclose(t, "invoke", None)
    /\ UNCHANGED <<owner, retained, lost, gone, misused>>

Enter(t, p) ==
    /\ Within(t, "invoke")
    /\ owner[p] # None
    /\ p \notin lost
    /\ FnThread[owner[p]] = t
    /\ Enclose(t, "callback", owner[p])
    /\ UNCHANGED <<owner, retained, lost, gone, misused>>

Leave(t) ==
    /\ activity[t] # <<>>
    /\ End(t)
    /\ UNCHANGED <<owner, retained, lost, gone, misused>>

Collect(f) ==
    /\ ~InUse(f)
    /\ \A p \in Ptrs : owner[p] = f => p \in lost
    /\ gone' = gone \cup {f}
    /\ UNCHANGED <<owner, retained, lost, activity, misused>>

\* The heap of t ends with its functions and their addresses.
Exit(t) ==
    /\ activity[t] = <<>>
    /\ Forget({p \in Ptrs : owner[p] # None /\ FnThread[owner[p]] = t})
    /\ gone' = gone \cup {f \in Fns : FnThread[f] = t}
    /\ UNCHANGED activity

Run ==
    /\ process' = process
    /\ \/ \E t \in Threads, f \in Fns : Offer(t, f)
       \/ \E ps \in SUBSET Ptrs : Release(ps)
       \/ \E p \in Ptrs : Retain(p) \/ Unretain(p) \/ Lose(p)
       \/ \E t \in Threads : Call(t) \/ Leave(t) \/ Exit(t)
       \/ \E t \in Threads, p \in Ptrs : Register(t, p) \/ Enter(t, p)
       \/ \E f \in Fns : Collect(f)

Stop ==
    /\ process' = "aborted" \/ (process' = "undefined" /\ misused)
    /\ UNCHANGED <<owner, retained, lost, activity, gone, misused>>

Next == process = "running" /\ (Run \/ Stop)

Spec == Init /\ [][Next]_cvars
=============================================================================
