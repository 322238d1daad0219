---------------------------- MODULE MCGatherers ----------------------------
(* Gatherers on small instances; TLC evaluates the assumptions about the   *)
(* paths through the graphs as well.                                       *)
EXTENDS GathererItems
=============================================================================
