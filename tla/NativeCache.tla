----------------------------- MODULE NativeCache -----------------------------
(***************************************************************************)
(* The table of compiled functions of one native library object, as far as *)
(* calls depend on it: a name gets a signature while the library is open   *)
(* and no call of it is in progress, keeps it until the library is closed, *)
(* and a call runs and ends with the signature it began with.              *)
(*                                                                         *)
(* Both DynamicLibrary, which has it among threads, callbacks and the      *)
(* collector, and FunctionCache, which has the wrappers of the JavaScript  *)
(* class, implement it: it is what the two models have in common.          *)
(***************************************************************************)
EXTENDS Naturals

CONSTANTS Names, Sigs, None

VARIABLES
    status,   \* whether the library was created, is open, or was closed
    meaning,  \* the signature compiled for each name, or None
    calls,    \* what is being called, by the depth of the call
    aborted   \* the process has ended

nvars == <<status, meaning, calls, aborted>>

Init ==
    /\ status = "none"
    /\ meaning = [n \in Names |-> None]
    /\ DOMAIN calls = {}
    /\ aborted = FALSE

Open ==
    /\ status = "none"
    /\ status' = "open"
    /\ UNCHANGED <<meaning, calls>>

Define(n, s) ==
    /\ status = "open"
    /\ DOMAIN calls = {}
    /\ meaning[n] = None
    /\ meaning' = [meaning EXCEPT ![n] = s]
    /\ UNCHANGED <<status, calls>>

Call(n, s) ==
    /\ status = "open"
    /\ meaning[n] = s
    /\ \E d \in DOMAIN calls' :
          /\ \A c \in DOMAIN calls : c < d
          /\ calls' = [c \in DOMAIN calls \cup {d} |->
                          IF c = d THEN [name |-> n, spec |-> s] ELSE calls[c]]
    /\ UNCHANGED <<status, meaning>>

Return ==
    /\ status = "open"
    /\ \E d \in DOMAIN calls :
          /\ \A c \in DOMAIN calls : c <= d
          /\ meaning[calls[d].name] = calls[d].spec
          /\ calls' = [c \in DOMAIN calls \ {d} |-> calls[c]]
    /\ UNCHANGED <<status, meaning>>

Close ==
    /\ DOMAIN calls = {}
    /\ status' = "closed"
    /\ meaning' = [n \in Names |-> None]
    /\ UNCHANGED calls

Abort ==
    /\ aborted' = TRUE
    /\ UNCHANGED <<status, meaning, calls>>

Step ==
    \/ Open
    \/ \E n \in Names, s \in Sigs : Define(n, s) \/ Call(n, s)
    \/ Return
    \/ Close

Next == ~aborted /\ ((Step /\ UNCHANGED aborted) \/ Abort)

Spec == Init /\ [][Next]_nvars
=============================================================================
