------------------------------ MODULE MCMemory ------------------------------
(* Small instances of Memory for TLC.                                      *)
EXTENDS Memory

\* usize is u64 on one platform and u32 on the other, where no buffer is as
\* long as its address space.
Scaled == {[usize |-> U64Range, maxLength |-> 10], [usize |-> U32Range, maxLength |-> 3]}
=============================================================================
