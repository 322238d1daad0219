--------------------------- MODULE GathererPaths ---------------------------
(***************************************************************************)
(* The paths through the graphs of the gatherers, without the items: what  *)
(* may be held, in the record, in the vector pointer and in the thread's   *)
(* error at each label.  There are finitely many such views, however many  *)
(* items a system has, and they do not depend on MaxItems: TLC evaluates   *)
(* the assumptions about them below, which have no parameter, and          *)
(* GatherersProofs shows that every step of Gatherers stays inside them.   *)
(***************************************************************************)
EXTENDS Gatherers

Ends == {"ok", "failed"}

\* The part of the state that does not count items.
View ==
    [g |-> g, at |-> at, held |-> held, dead |-> dead, record |-> record, error |-> error,
     ptr |-> IF live THEN "vector" ELSE "null"]

\* What an edge may do to each field of it.
Targets(v, e) ==
    IF e.op = "quit" THEN {IF v.error = "none" THEN "ok" ELSE "failed"} ELSE {e.to}
Acquired(v, e) ==
    IF e.op # "handover" THEN e.gets ELSE IF v.ptr = "vector" THEN {"tmp"} ELSE {}
Contents(v, e) ==
    IF e.op = "part" THEN {IF v.record = "old" THEN "mixed" ELSE "part"}
    ELSE IF e.op = "fill" THEN {"whole"}
    ELSE IF e.op \in {"zero", "junk"} THEN {e.op}
    ELSE {v.record}
Errors(v, e) ==
    IF e.op = "resize" THEN {v.error, "none"}
    ELSE IF e.op \in {"lost", "lost_none", "error"} THEN {"set"}
    ELSE IF e.op = "clear" THEN {"none"}
    ELSE {v.error}
Pointers(v, e) ==
    IF e.op = "resize" THEN {"vector", "null"}
    ELSE IF e.op \in {"lost", "lost_none", "local"} THEN {"null"}
    ELSE IF e.op = "handover" THEN {"vector"}
    ELSE {v.ptr}

After(v, e) ==
    LET R == Acquired(v, e)
    IN  [g : {v.g}, at : Targets(v, e), held : {(v.held \ e.puts) \cup R},
         dead : {(v.dead \cup (v.held \cap e.puts)) \ R}, record : Contents(v, e),
         error : Errors(v, e), ptr : Pointers(v, e)]

\* The edges that leave a view and whose behaviour is defined.
Ways(v) ==
    IF v.at \in Ends THEN {}
    ELSE {e \in Graph[v.g][v.at] : e.op \notin Crashes}

\* A gatherer x that is called while sg_get_error() is y.
StartOf(x, y) ==
    [g |-> x, at |-> "start", held |-> {}, dead |-> {}, record |-> "old", error |-> y,
     ptr |-> "vector"]
Starts == {StartOf(x, y) : x \in DOMAIN Graph, y \in {"none", "stale"}}

\* The views at most k edges from a start, and those of them no fewer edges lead to; after
\* Longest edges there are no new ones.
Within[k \in Nat] ==
    IF k = 0 THEN [all |-> Starts, new |-> Starts]
    ELSE LET W == Within[k - 1]
             N == UNION {{a : a \in UNION {After(v, e) : e \in Ways(v)}} : v \in W.new}
         IN  [all |-> W.all \cup N, new |-> N \ W.all]
Longest == 40
Views == Within[Longest].all

----------------------------------------------------------------------------
(* What the views show at the returns.                                     *)

LeavesNothing(v) ==
    v.at \in Ends =>
        v.held \subseteq Static \cup (IF v.at = "failed" THEN Allowed(Forgotten, v.g) ELSE {})
SaysWhy(v) == v.at = "failed" /\ v.g \notin Speechless => v.error = "set"
Fills(v) ==
    v.at = "ok" /\ v.g \in DOMAIN Records => v.record \in {"whole"} \cup Allowed(Incomplete, v.g)

\* ... and on the way: nothing is released whose variable is stale.
ReleasesHeld(v) ==
    "free" \notin Allowed(Hazardous, v.g) /\ v.at \notin Ends =>
        \A e \in Graph[v.g][v.at] : e.puts \cap v.dead = {} /\ e.op # "free"

\* Every edge of every graph is one.
ASSUME EdgesAssumption ==
    \A x \in DOMAIN Graph : \A l \in DOMAIN Graph[x] : \A e \in Graph[x][l] :
        e = [to |-> e.to, gets |-> e.gets, puts |-> e.puts, op |-> e.op, by |-> e.by]

\* The views start at the starts and are closed under the edges.
ASSUME ViewsAssumption ==
    /\ \A x \in DOMAIN Graph : \A y \in {"none", "stale"} : StartOf(x, y) \in Views
    /\ \A v \in Views : v.g \in DOMAIN Graph /\ (v.at \in Ends \/ v.at \in DOMAIN Graph[v.g])
    /\ \A v \in Views : \A e \in Ways(v) : After(v, e) \subseteq Views

\* None of them is a bad one.
ASSUME PathsAssumption ==
    \A v \in Views : LeavesNothing(v) /\ SaysWhy(v) /\ Fills(v) /\ ReleasesHeld(v)
=============================================================================
