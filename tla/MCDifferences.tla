--------------------------- MODULE MCDifferences ---------------------------
(* Differences on small instances.                                         *)
EXTENDS Differences
============================================================================
