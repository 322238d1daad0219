---------------------------- MODULE MCAccessors ----------------------------
(* Accessors on small instances; the application's variables are alike.    *)
EXTENDS Accessors, TLC

Symmetry == Permutations(Users)
============================================================================
