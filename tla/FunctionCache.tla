--------------------------- MODULE FunctionCache ---------------------------
(***************************************************************************)
(* What a library object promises of its functions, with one table instead *)
(* of two caches and no steps in between: while it is open a name gets one *)
(* meaning and keeps it, every wrapper given out for a name has the same   *)
(* signature, a call runs with the meaning its wrapper was given for, and  *)
(* the library is not closed under a call.                                 *)
(***************************************************************************)
EXTENDS Naturals

CONSTANTS Names, Sigs, None

VARIABLES
    status,   \* whether the library was created, is open, or was closed
    meaning,  \* the signature of each name, or None
    given,    \* wrappers given out: a name and a signature
    calls,    \* wrappers being called, by the depth of their call
    aborted

fvars == <<status, meaning, given, calls, aborted>>

Init ==
    /\ status = "none"
    /\ meaning = [n \in Names |-> None]
    /\ given = {}
    /\ DOMAIN calls = {}
    /\ aborted = FALSE

Open ==
    /\ status = "none"
    /\ status' = "open"
    /\ UNCHANGED <<meaning, given, calls>>

Define(n, s) ==
    /\ status = "open"
    /\ DOMAIN calls = {}
    /\ meaning[n] = None
    /\ meaning' = [meaning EXCEPT ![n] = s]
    /\ UNCHANGED <<status, given, calls>>

\* A wrapper given out after the library was closed is of no use, but still
\* agrees with those given out before.
Give(w) ==
    /\ status = "open" => meaning[w.name] = w.spec
    /\ \A v \in given : v.name = w.name => v.spec = w.spec
    /\ given' = given \cup {w}
    /\ UNCHANGED <<status, meaning, calls>>

Call(w) ==
    /\ status = "open"
    /\ w \in given
    /\ meaning[w.name] = w.spec
    /\ \E d \in DOMAIN calls' :
          /\ \A c \in DOMAIN calls : c < d
          /\ calls' = [c \in DOMAIN calls \cup {d} |-> IF c = d THEN w ELSE calls[c]]
    /\ UNCHANGED <<status, meaning, given>>

Return ==
    /\ status = "open"
    /\ \E d \in DOMAIN calls :
          /\ \A c \in DOMAIN calls : c <= d
          /\ meaning[calls[d].name] = calls[d].spec
          /\ calls' = [c \in DOMAIN calls \ {d} |-> calls[c]]
    /\ UNCHANGED <<status, meaning, given>>

Close ==
    /\ DOMAIN calls = {}
    /\ status' = "closed"
    /\ meaning' = [n \in Names |-> None]
    /\ UNCHANGED <<given, calls>>

Abort ==
    /\ aborted' = TRUE
    /\ UNCHANGED <<status, meaning, given, calls>>

Step ==
    \/ Open
    \/ \E n \in Names, s \in Sigs : Define(n, s)
    \/ \E w \in [name : Names, spec : Sigs] : Give(w) \/ Call(w)
    \/ Return
    \/ Close

Next == ~aborted /\ ((Step /\ UNCHANGED aborted) \/ Abort)

Spec == Init /\ [][Next]_fvars

-----------------------------------------------------------------------------
(* The table without the wrappers.                                         *)

Native == INSTANCE NativeCache

\* Giving out wrappers changes nothing of the native table, and calling one is
\* a call of its name with the signature it was given for.
ImplementsNativeCache == Native!Spec
=============================================================================
