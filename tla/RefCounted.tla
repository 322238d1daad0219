----------------------------- MODULE RefCounted -----------------------------
(***************************************************************************)
(* What sg_init() and sg_shutdown() promise (docs/libstatgrab/sg_init.xml  *)
(* and sg_intro.xml), without threads, mutexes or tables: a library that   *)
(* is built by the first reference, is torn down by the return of the last *)
(* one and of no other, is complete while it is referenced, and is rebuilt *)
(* only from nothing.                                                      *)
(***************************************************************************)
EXTENDS Naturals

CONSTANTS Parts,      \* the parts that make the library usable
          Optional    \* parts the library may have to do without

VARIABLES phase,      \* "down", "building", "up", "tearing" or "stuck"
          count,      \* references counted
          built       \* parts that exist now

rvars == <<phase, count, built>>

RInit == phase = "down" /\ count = 0 /\ built = {}

\* The first reference: everything is built before anybody else gets one.
FirstRef ==
    /\ phase = "down" /\ built = {}
    /\ phase' = "building" /\ count' = 1
    /\ UNCHANGED built

BuildParts ==
    /\ phase = "building"
    /\ \E ps \in SUBSET Parts : built' = built \cup ps
    /\ UNCHANGED <<phase, count>>

BuildDone ==
    /\ phase = "building" /\ Parts \ Optional \subseteq built
    /\ phase' = "up"
    /\ UNCHANGED <<count, built>>

\* Building gave up: the library is neither up nor down from then on.
BuildFails ==
    /\ phase = "building"
    /\ phase' = "stuck"
    /\ \E ps \in SUBSET Parts : built' = built \cup ps
    /\ UNCHANGED count

AddRef ==
    /\ phase = "up"
    /\ count' = count + 1
    /\ UNCHANGED <<phase, built>>

DropRef ==
    /\ phase = "up"
    /\ count' = count - 1
    /\ phase' = IF count = 1 THEN "tearing" ELSE "up"
    /\ UNCHANGED built

DestroyParts ==
    /\ phase = "tearing"
    /\ \E ps \in SUBSET Parts : built' = built \ ps
    /\ UNCHANGED <<phase, count>>

TearDone ==
    /\ phase = "tearing" /\ built = {}
    /\ phase' = "down"
    /\ UNCHANGED <<count, built>>

RNext == FirstRef \/ BuildParts \/ BuildDone \/ BuildFails \/ AddRef \/ DropRef
         \/ DestroyParts \/ TearDone

RSpec == RInit /\ [][RNext]_rvars
=============================================================================
