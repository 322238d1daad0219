--------------------------- MODULE GathererItems ---------------------------
(***************************************************************************)
(* The paths through the graphs of the gatherers again, now with the       *)
(* items: which facts about the counts, the vector and what was written to *)
(* it are sure at each label.  The facts are relations such as used > n,   *)
(* so that there are finitely many combinations however many items a       *)
(* system has, and what an edge does to them does not depend on MaxItems.  *)
(* TLC evaluates the assumptions below, which have no parameter;           *)
(* GathererItemsProofs shows that the facts are true in every run.         *)
(***************************************************************************)
EXTENDS GathererPaths

\* The first c slots were written whole, each from an item of its own among the first s, in
\* order; and the item at hand, number s - 1, is not among them.
Good(c, s, N, R) ==
    /\ \A i \in 0 .. c - 1 : N[i] = R[i] /\ N[i] < s
    /\ \A i, j \in 0 .. c - 1 : i < j => N[i] < N[j]
Fresh(c, s, N) == \A i \in 0 .. c - 1 : N[i] + 1 < s

\* What the facts F say: of l items left, k known, s seen and c counted, of a vector of size u
\* with the names N and the other fields R, of its pointer and of the error.
Counts(F, l, k, s, c) ==
    /\ "n_below_seen" \in F => c < s
    /\ "n_is_seen" \in F => c = s
    /\ "n1_is_seen" \in F => c + 1 = s
    /\ "no_known" \in F => k = 0
    /\ "no_left" \in F => l = 0
    /\ "no_n" \in F => c = 0
Size(F, k, s, c, u) ==
    /\ "used_is_n" \in F => u = c
    /\ "used_is_n1" \in F => u = c + 1
    /\ "used_is_nk" \in F => u = c + k
    /\ "used_is_n1k" \in F => u = c + 1 + k
    /\ "above_n" \in F => u > c
    /\ "covers_nk" \in F => u >= c + k
    /\ "above_nk" \in F => u > c + k
    /\ "covers_sk" \in F => u >= s + k
Written(F, s, c, N, R) ==
    /\ "good" \in F => Good(c, s, N, R)
    /\ "fresh" \in F => Fresh(c, s, N)
    /\ "named" \in F => N[c] = s - 1
    /\ "filled" \in F => R[c] = s - 1
Pointer(F) == ("vector" \in F => live) /\ ("null" \in F => ~live)
Reason(F) == ("set" \in F => error = "set") /\ ("unset" \in F => error # "set")
Fit(F) ==
    /\ Counts(F, left, known, seen, n) /\ Size(F, known, seen, n, used)
    /\ Written(F, seen, n, name, rest) /\ Pointer(F) /\ Reason(F)

\* A fact if a condition holds.
Fact(f, c) == IF c THEN {f} ELSE {}

\* The facts that follow from F by arithmetic.
Implied(F) ==
    LET G == F \cup Fact("used_is_n", {"used_is_nk", "no_known"} \subseteq F)
               \cup Fact("covers_nk", "used_is_nk" \in F)
               \cup Fact("above_nk", "used_is_n1k" \in F)
    IN  G \cup Fact("above_n", "used_is_n1" \in G \/ "above_nk" \in G)
          \cup Fact("covers_nk", "above_nk" \in G)

OnVector == {"used_is_n", "used_is_n1", "used_is_nk", "used_is_n1k", "above_n",
             "covers_nk", "above_nk", "covers_sk"}
OnKnown == {"no_known", "used_is_nk", "used_is_n1k", "covers_nk",
            "above_nk", "covers_sk"}
OnSlots == {"good", "fresh", "named", "filled"}
OnError == {"set", "unset"}
OnPointer == {"vector", "null"}

\* The next item: known has lost one and seen has gained it.
Turned(F) ==
    (F \ (OnKnown \cup {"n_is_seen", "n1_is_seen", "fresh", "named", "filled"}))
    \cup {"n_below_seen"} \cup Fact("n1_is_seen", "n_is_seen" \in F)
    \cup Fact("used_is_n1k", "used_is_nk" \in F)
    \cup Fact("above_nk", "covers_nk" \in F)
    \cup Fact("covers_sk", "covers_sk" \in F)
    \cup Fact("fresh", "good" \in F)

\* One more item counted, the slot of which is written if w.
Counted(F, w) ==
    (F \cap (OnError \cup OnPointer \cup {"no_known", "no_left", "covers_sk"}))
    \cup Fact("n_is_seen", "n1_is_seen" \in F)
    \cup Fact("used_is_n", "used_is_n1" \in F)
    \cup Fact("used_is_nk", "used_is_n1k" \in F)
    \cup Fact("covers_nk", "above_nk" \in F)
    \cup Fact("good", w /\ {"good", "fresh"} \subseteq F)

\* The vector has the size b; or that is 0 and the vector is freed.
Grown(F, b) ==
    (F \ (OnVector \cup OnPointer \cup {"named", "filled"})) \cup {"vector"}
    \cup Fact("used_is_n", b = "n") \cup Fact("used_is_n1", b = "n+1")
    \cup Fact("used_is_nk", b = "n+known")
    \cup Fact("covers_sk", b = "n+known" /\ "n_is_seen" \in F)
Freed(F, b) ==
    (F \ (OnVector \cup OnPointer \cup OnError \cup {"named", "filled"}))
    \cup {"no_n", "used_is_n", "null", "unset", "good"} \cup Fact("no_known", b = "n+known")
Sized(F, e) ==
    IF e.by = "n-1" THEN {F \ (OnVector \cup OnPointer \cup OnSlots \cup OnError)}
    ELSE {Grown(F, e.by)} \cup (IF e.by = "n+1" \/ "null" \in F THEN {} ELSE {Freed(F, e.by)})

\* What the facts may become along the edge.
Outcomes(F, e) ==
    CASE e.op = "end" -> {F \cup {"no_known"}}
      [] e.op = "dry" -> {F \cup {"no_known", "no_left"}}
      [] e.op = "none_found" -> {F \cup {"no_n"}}
      [] e.op = "exact" -> {F \cup {"null"}, F \cup {"used_is_n"}}
      [] e.op = "loose" -> {F \cup {"vector"}}
      [] e.op = "all" -> {(F \ OnKnown) \cup {"no_left"}}
      [] e.op \in {"batch", "more"} -> {F \ (OnKnown \cup {"no_left"})}
      [] e.op = "next" -> IF "no_known" \in F THEN {} ELSE {Turned(F)}
      [] e.op = "resize" -> Sized(F, e)
      [] e.op \in {"lost", "lost_none"} ->
           {(F \ (OnVector \cup OnPointer \cup OnError \cup OnSlots)) \cup {"null", "set"}}
      [] e.op = "store" -> {F \cup {"vector", "named", "filled"}}
      [] e.op = "add" -> {Counted(F, TRUE) \cup {"vector"}}
      [] e.op = "name" -> {F \cup {"vector", "named"}}
      [] e.op \in {"name_i", "name_n", "same_name"} -> {(F \ {"named"}) \cup {"vector"}}
      [] e.op = "same_rest" -> {(F \ {"filled"}) \cup {"vector"}}
      [] e.op = "rest" -> {F \cup {"vector", "filled"}}
      [] e.op \in {"count", "sum"} -> {Counted(F, {"named", "filled"} \subseteq F)}
      [] e.op = "last" -> {F \cap (OnError \cup OnPointer \cup {"no_known", "no_left"})}
      [] e.op = "local" -> {(F \ OnPointer) \cup {"null"}}
      [] e.op = "handover" ->
           {(F \cap (OnError \cup {"no_left"}))
              \cup {"n_is_seen", "no_n", "used_is_n", "vector", "good"}}
      [] e.op = "copy" -> {(F \ {"fresh", "named", "filled"}) \cup {"good"}}
      [] e.op = "copy_last" -> {F \ OnSlots}
      [] e.op = "error" -> {(F \ OnError) \cup {"set"}}
      [] e.op = "clear" -> {(F \ OnError) \cup {"unset"}}
      [] OTHER -> {F}

\* The labels with the facts there: from the start along the edges.
FirstFacts(x) ==
    {"n_is_seen", "no_n", "no_known", "vector", "unset", "good"}
    \cup Fact("used_is_n", x \notin DOMAIN Records)
StartItems(x) == [g |-> x, at |-> "start", facts |-> FirstFacts(x)]
Onto(e) == IF e.op = "quit" THEN Ends ELSE {e.to}
AfterItems(v, e) ==
    [g : {v.g}, at : Onto(e), facts : {Implied(F) : F \in Outcomes(v.facts, e)}]

ItemsWithin[k \in Nat] ==
    IF k = 0 THEN LET S == {StartItems(x) : x \in DOMAIN Graph} IN [all |-> S, new |-> S]
    ELSE LET W == ItemsWithin[k - 1]
             N == UNION {{a : a \in UNION {AfterItems(v, e) : e \in Ways(v)}} : v \in W.new}
         IN  [all |-> W.all \cup N, new |-> N \ W.all]
ItemViews == ItemsWithin[Longest].all

----------------------------------------------------------------------------
(* What the facts show.                                                    *)

Writes == {"store", "add", "name", "name_i", "name_n", "rest"}
Repeats == {"same_name", "same_rest"}

\* Every item is counted once at most, and written from one that was looked at.
CountsSeen(v) ==
    v.at \notin Ends => \A e \in Graph[v.g][v.at] :
        /\ e.op \in Writes \cup Repeats \cup {"count", "sum", "last"} => "n_below_seen" \in v.facts
        /\ e.op = "resize" /\ e.by = "n+1" => "n_below_seen" \in v.facts \/ "no_n" \in v.facts

\* What is written is inside the vector, or goes through the NULL of a failed allocation.
WritesInside(v) ==
    v.at \notin Ends => \A e \in Graph[v.g][v.at] :
        /\ e.op \in Crashes => e.op \in Allowed(Hazardous, v.g)
        /\ e.op = "resize" /\ e.by = "n-1" => "bounds" \in Allowed(Hazardous, v.g)
        /\ e.op \in Writes \cup Repeats =>
             /\ "vector" \in v.facts \/ "set" \in v.facts
             /\ \/ "null" \in v.facts \/ "bounds" \in Allowed(Hazardous, v.g)
                \/ "above_n" \in v.facts /\ e.op # "name_i"
                \/ "covers_sk" \in v.facts /\ e.op = "name_i"

\* A list that is returned is as long as what was written, and good.
ReturnsGood(v) ==
    v.at = "ok" /\ v.g \in DOMAIN Lists \ Patchy =>
        "null" \in v.facts \/ "set" \in v.facts \/ {"used_is_n", "good"} \subseteq v.facts

\* At the return of a sum every device has been added.
SumsAll(v) ==
    v.at = "ok" /\ v.g \in {"swap_hpux", "swap_xswdev"} =>
        {"n_is_seen", "no_known", "no_left"} \subseteq v.facts

\* Every edge leads to a label or a return, and every size is one of the four.
ASSUME TargetsAssumption ==
    \A x \in DOMAIN Graph : \A l \in DOMAIN Graph[x] : \A e \in Graph[x][l] :
        /\ e.to \in DOMAIN Graph[x] \cup Ends
        /\ e.op \in {"resize", "lost", "lost_none"} => e.by \in {"n", "n+1", "n+known", "n-1"}

\* The facts start at the starts and are closed under the edges.
ASSUME ItemViewsAssumption ==
    /\ \A x \in DOMAIN Graph : StartItems(x) \in ItemViews
    /\ \A v \in ItemViews : \A e \in Ways(v) : AfterItems(v, e) \subseteq ItemViews

\* None of the views is a bad one.
ASSUME ItemsAssumption ==
    \A v \in ItemViews : CountsSeen(v) /\ WritesInside(v) /\ ReturnsGood(v) /\ SumsAll(v)
=============================================================================
