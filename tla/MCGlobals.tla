----------------------------- MODULE MCGlobals -----------------------------
(* Globals on small instances; the threads are interchangeable.            *)
EXTENDS Globals, TLC

Symmetry == Permutations(Threads)
============================================================================
