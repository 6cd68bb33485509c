---------------------------- MODULE MCInvocation ----------------------------
(* Instances of Invocation for TLC. *)
EXTENDS Invocation, TLC

CONSTANTS b1, b2, b3, b4, b5, b6, o1

\* A function that returns what it was lent, with one and with two arguments.
Both ==
    {[params |-> <<"string">>, ret |-> "pointer"],
     [params |-> <<"pointer", "string">>, ret |-> "string"]}

\* The allocator prefers no address.
Interchangeable == Permutations(Blocks)
=============================================================================
