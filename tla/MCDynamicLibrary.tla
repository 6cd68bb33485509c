-------------------------- MODULE MCDynamicLibrary --------------------------
(* Small instances of DynamicLibrary for TLC.                              *)
EXTENDS DynamicLibrary, TLC

CONSTANTS t1, t2, lib1, lib2, s1, g1, g2, p1, p2, f1, f2

\* One environment: every library and function belongs to its thread.
OneThreadLibs == [l \in Libs |-> t1]
OneThreadFns == [f \in Fns |-> t1]

\* A main thread and a worker, with a library and a function each.
TwoThreadLibs == [l \in Libs |-> IF l = lib1 THEN t1 ELSE t2]
TwoThreadFns == [f \in Fns |-> IF f = f1 THEN t1 ELSE t2]
=============================================================================
