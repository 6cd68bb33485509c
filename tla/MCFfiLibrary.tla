---------------------------- MODULE MCFfiLibrary ----------------------------
(* Small instances of FfiLibrary for TLC.                                  *)
EXTENDS FfiLibrary, TLC

CONSTANTS add, mul, charSig, int8Sig, int32Sig, int8, int32

\* 'char' and 'int8' are different signatures to JavaScript and compile to
\* the same one where char is signed.
Compiled == [k \in Keys |-> IF k = int32Sig THEN int32 ELSE int8]
=============================================================================
