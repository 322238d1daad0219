------------------------ MODULE GathererItemsProofs ------------------------
(***************************************************************************)
(* Proofs about the items of Gatherers, for every number of them: what is  *)
(* counted was looked at, what is written is inside the vector, and what   *)
(* is returned was written whole.  A run is followed through the finite    *)
(* set ItemViews of GathererItems: each action of Gatherers makes the      *)
(* facts of one of Outcomes(F, e) true, F being those true before and e    *)
(* the edge it takes.                                                      *)
(***************************************************************************)
EXTENDS GathererItems, GatherersProofs

\* The counts and the vector; what is counted has been looked at.
Numbers ==
    /\ left \in Nat /\ known \in Nat /\ seen \in Nat /\ n \in Nat /\ used \in Nat
    /\ left + known + seen <= MaxItems /\ n <= seen /\ used <= MaxItems
Arrays == name \in [Slots -> 0..Blank] /\ rest \in [Slots -> 0..Blank]

\* The facts of some view of the label are true.
Located == ub = "none" => \E v \in ItemViews : v.g = g /\ v.at = at /\ Fit(v.facts)

Itemized == Numbers /\ Arrays /\ Located /\ DefinedBehaviour

\* The bound on the items.
LEMMA Bound == MaxItems \in Nat /\ MaxItems > 0 /\ Blank = MaxItems /\ Slots = 0..MaxItems
BY GatherersAssumption DEF Blank, Slots

----------------------------------------------------------------------------
(* From facts to views.                                                    *)

\* What follows by arithmetic is true as well.
LEMMA ImpliedSize ==
    ASSUME NEW F, NEW l, NEW k \in Nat, NEW s \in Nat, NEW c \in Nat, NEW u \in Nat,
           Counts(F, l, k, s, c), Size(F, k, s, c, u)
    PROVE  Size(Implied(F), k, s, c, u)
<1>1. /\ "used_is_n" \in Implied(F) =>
           "used_is_n" \in F \/ ("used_is_nk" \in F /\ "no_known" \in F)
      /\ "used_is_n1" \in Implied(F) => "used_is_n1" \in F
      /\ "used_is_nk" \in Implied(F) => "used_is_nk" \in F
      /\ "used_is_n1k" \in Implied(F) => "used_is_n1k" \in F
      /\ "covers_sk" \in Implied(F) => "covers_sk" \in F
  BY DEF Implied, Fact
<1>2. /\ "above_nk" \in Implied(F) => "above_nk" \in F \/ "used_is_n1k" \in F
      /\ "covers_nk" \in Implied(F) =>
           \/ "covers_nk" \in F \/ "used_is_nk" \in F
           \/ "above_nk" \in F \/ "used_is_n1k" \in F
      /\ "above_n" \in Implied(F) =>
           \/ "above_n" \in F \/ "used_is_n1" \in F
           \/ "above_nk" \in F \/ "used_is_n1k" \in F
  BY DEF Implied, Fact
<1> HIDE DEF Implied
<1> QED BY <1>1, <1>2 DEF Counts, Size

LEMMA ImpliedFits ==
    ASSUME NEW F, Numbers', Fit(F)' PROVE Fit(Implied(F))'
<1>1. Counts(Implied(F), left', known', seen', n')
  BY DEF Implied, Fact, Fit, Counts
<1>2. Size(Implied(F), known', seen', n', used')
  BY ImpliedSize DEF Fit, Numbers
<1>3. Pointer(Implied(F))'
  BY DEF Implied, Fact, Fit, Pointer
<1>4. Reason(Implied(F))'
  BY DEF Implied, Fact, Fit, Reason
<1>5. Written(Implied(F), seen', n', name', rest')
  <2>1. \A f \in {"good", "fresh", "named", "filled"} : f \in Implied(F) => f \in F
    BY DEF Implied, Fact
  <2> HIDE DEF Implied
  <2> QED BY <2>1 DEF Fit, Written
<1> QED BY <1>1, <1>2, <1>3, <1>4, <1>5 DEF Fit

\* Where a step is: at a view whose facts are true, with what is known of the edge it takes.
LEMMA Here ==
    ASSUME Itemized, NEW O, NEW e \in Edges(O)
    PROVE  \E v \in ItemViews :
             /\ v.g = g /\ v.at = at /\ Fit(v.facts)
             /\ CountsSeen(v) /\ WritesInside(v) /\ e \in Graph[v.g][v.at] /\ v.at \notin Ends
<1>1. ub = "none" /\ at \notin Ends /\ e \in Graph[g][at]
  BY EdgeTaken
<1>2. PICK v \in ItemViews : v.g = g /\ v.at = at /\ Fit(v.facts)
  BY <1>1 DEF Itemized, Located
<1>3. CountsSeen(v) /\ WritesInside(v)
  BY ItemsAssumption
<1> QED BY <1>1, <1>2, <1>3

\* A step along an edge that makes the facts of one of its outcomes true.
LEMMA Landed ==
    ASSUME NEW v \in ItemViews, v.g = g, v.at = at, NEW O, NEW e \in Edges(O),
           e.op \notin Crashes, g' = g, at' \in Onto(e), Numbers',
           NEW F \in Outcomes(v.facts, e), Fit(F)'
    PROVE  Located'
<1> DEFINE w == [g |-> g', at |-> at', facts |-> Implied(F)]
<1>1. e \in Ways(v)
  BY EdgeTaken DEF Ways
<1>2. w \in AfterItems(v, e)
  BY DEF AfterItems
<1>3. w \in ItemViews
  BY <1>1, <1>2, ItemViewsAssumption
<1>4. Fit(Implied(F))'
  BY ImpliedFits
<1>5. w.g = g' /\ w.at = at' /\ w.facts = Implied(F)
  OBVIOUS
<1> HIDE DEF w
<1> QED BY <1>3, <1>4, <1>5 DEF Located

\* Undefined behaviour of a step that only its releases could cause.
LEMMA ReleasesDefined ==
    ASSUME NEW O, NEW e \in Edges(O), Releases(e), FreesHeld', g' = g
    PROVE  DefinedBehaviour'
<1>1. ub = "none"
  BY EdgeTaken
<1> QED BY <1>1 DEF Releases, FreesHeld, DefinedBehaviour

\* What the facts say is not changed by a step that leaves these alone.
LEMMA FitStays ==
    ASSUME UNCHANGED <<items, vector, error>>, NEW F, Fit(F) PROVE Fit(F)'
BY DEF Fit, Pointer, Reason, items, vector

\* Steps that change none of it: the facts remain, and a test adds some.
LEMMA QuietItems ==
    ASSUME Itemized, FreesHeld', NEW O, NEW e \in Edges(O), e.op \notin Crashes,
           UNCHANGED <<items, vector, error>>, Releases(e), g' = g, at' \in Onto(e),
           NEW G, \A F : Fit(F) => Fit(F \cup G),
           \A F : F \cup G \in Outcomes(F, e)
    PROVE  Itemized'
<1>1. PICK v \in ItemViews : v.g = g /\ v.at = at /\ Fit(v.facts)
  BY Here
<1>2. Numbers' /\ Arrays'
  BY DEF Itemized, Numbers, Arrays, items, vector
<1>3. Fit(v.facts \cup G)'
  <2>1. Fit(v.facts \cup G)
    BY <1>1
  <2> QED BY <2>1, FitStays
<1>4. Located'
  BY <1>1, <1>2, <1>3, Landed
<1> QED BY <1>2, <1>4, ReleasesDefined DEF Itemized

----------------------------------------------------------------------------
(* The arithmetic of the items.                                            *)

\* The next item: the slots written so far are of items before it.
LEMMA TurnedCounts ==
    ASSUME NEW F, NEW l, NEW k \in Nat, NEW s \in Nat, NEW c \in Nat, c <= s,
           Counts(F, l, k, s, c)
    PROVE  Counts(Turned(F), l, k - 1, s + 1, c)
<1>1. /\ "n_is_seen" \notin Turned(F) /\ "no_known" \notin Turned(F)
      /\ "n1_is_seen" \in Turned(F) => "n_is_seen" \in F
      /\ "no_left" \in Turned(F) => "no_left" \in F
      /\ "no_n" \in Turned(F) => "no_n" \in F
  BY DEF Turned, Fact, OnKnown
<1> HIDE DEF Turned
<1> QED BY <1>1 DEF Counts

LEMMA TurnedSize ==
    ASSUME NEW F, NEW k \in Nat, NEW s \in Nat, NEW c \in Nat, NEW u \in Nat,
           Size(F, k, s, c, u)
    PROVE  Size(Turned(F), k - 1, s + 1, c, u)
<1>1. /\ "used_is_n" \in Turned(F) => "used_is_n" \in F
      /\ "used_is_n1" \in Turned(F) => "used_is_n1" \in F
      /\ "above_n" \in Turned(F) => "above_n" \in F
      /\ "used_is_nk" \notin Turned(F) /\ "covers_nk" \notin Turned(F)
  BY DEF Turned, Fact, OnKnown
<1>2. /\ "used_is_n1k" \in Turned(F) => "used_is_nk" \in F
      /\ "above_nk" \in Turned(F) => "covers_nk" \in F
      /\ "covers_sk" \in Turned(F) => "covers_sk" \in F
  BY DEF Turned, Fact, OnKnown
<1> HIDE DEF Turned
<1> QED BY <1>1, <1>2 DEF Size

LEMMA TurnedWritten ==
    ASSUME NEW F, NEW m \in Nat, NEW s \in Nat, NEW c \in Nat, c <= s, s <= m, NEW R,
           NEW N \in [0..m -> 0..m], Written(F, s, c, N, R)
    PROVE  Written(Turned(F), s + 1, c, N, R)
<1>1. /\ "good" \in Turned(F) => "good" \in F
      /\ "fresh" \in Turned(F) => "good" \in F
      /\ "named" \notin Turned(F) /\ "filled" \notin Turned(F)
  BY DEF Turned, Fact, OnKnown
<1>2. \A i \in 0 .. c - 1 : i \in 0..m
  OBVIOUS
<1>3. ASSUME NEW i \in 0 .. c - 1, N[i] < s PROVE N[i] < s + 1 /\ N[i] + 1 < s + 1
  <2>1. N[i] \in 0..m
    BY <1>2
  <2>2. \A x \in 0..m : x < s => x < s + 1 /\ x + 1 < s + 1
    OBVIOUS
  <2> QED BY <1>3, <2>1, <2>2, Zenon
<1>4. Good(c, s, N, R) => Good(c, s + 1, N, R) /\ Fresh(c, s + 1, N)
  BY <1>3 DEF Good, Fresh
<1> HIDE DEF Turned
<1> QED BY <1>1, <1>4 DEF Written

\* One more item counted.
LEMMA CountedCounts ==
    ASSUME NEW F, NEW w, NEW l, NEW k \in Nat, NEW s \in Nat, NEW c \in Nat,
           Counts(F, l, k, s, c)
    PROVE  Counts(Counted(F, w), l, k, s, c + 1)
<1>1. /\ "n_below_seen" \notin Counted(F, w) /\ "n1_is_seen" \notin Counted(F, w)
      /\ "no_n" \notin Counted(F, w)
      /\ "n_is_seen" \in Counted(F, w) => "n1_is_seen" \in F
      /\ "no_known" \in Counted(F, w) => "no_known" \in F
      /\ "no_left" \in Counted(F, w) => "no_left" \in F
  BY DEF Counted, Fact, OnError, OnPointer
<1> HIDE DEF Counted
<1> QED BY <1>1 DEF Counts

LEMMA CountedSize ==
    ASSUME NEW F, NEW w, NEW k \in Nat, NEW s \in Nat, NEW c \in Nat, NEW u \in Nat,
           Size(F, k, s, c, u)
    PROVE  Size(Counted(F, w), k, s, c + 1, u)
<1>1. /\ "used_is_n1" \notin Counted(F, w) /\ "used_is_n1k" \notin Counted(F, w)
      /\ "above_n" \notin Counted(F, w) /\ "above_nk" \notin Counted(F, w)
      /\ "used_is_n" \in Counted(F, w) => "used_is_n1" \in F
      /\ "used_is_nk" \in Counted(F, w) => "used_is_n1k" \in F
      /\ "covers_nk" \in Counted(F, w) => "above_nk" \in F
      /\ "covers_sk" \in Counted(F, w) => "covers_sk" \in F
  BY DEF Counted, Fact, OnError, OnPointer
<1> HIDE DEF Counted
<1> QED BY <1>1 DEF Size

LEMMA CountedWritten ==
    ASSUME NEW F, NEW w, NEW m \in Nat, NEW s \in Nat, NEW c \in Nat, c < s, s <= m,
           NEW N \in [0..m -> 0..m], NEW R \in [0..m -> 0..m], Written(F, s, c, N, R),
           w => N[c] = s - 1 /\ R[c] = s - 1
    PROVE  Written(Counted(F, w), s, c + 1, N, R)
<1>1. /\ "good" \in Counted(F, w) => w /\ "good" \in F /\ "fresh" \in F
      /\ "fresh" \notin Counted(F, w)
      /\ "named" \notin Counted(F, w) /\ "filled" \notin Counted(F, w)
  BY DEF Counted, Fact, OnError, OnPointer
<1>2. ASSUME Good(c, s, N, R), Fresh(c, s, N), N[c] = s - 1, R[c] = s - 1
      PROVE  Good(c + 1, s, N, R)
  <2>1. \A i \in 0 .. c : N[i] \in 0..m
    <3>1. \A i \in 0 .. c : i \in 0..m
      OBVIOUS
    <3> QED BY <3>1
  <2>2. \A i \in 0 .. c : i = c \/ i \in 0 .. c - 1
    OBVIOUS
  <2>3. \A i \in 0 .. c : N[i] = R[i] /\ N[i] < s
    <3>1. N[c] = R[c] /\ N[c] < s
      BY <1>2
    <3> QED BY <1>2, <2>2, <3>1 DEF Good
  <2>4. \A i, j \in 0 .. c : i < j => N[i] < N[j]
    <3> SUFFICES ASSUME NEW i \in 0 .. c, NEW j \in 0 .. c, i < j PROVE N[i] < N[j]
      OBVIOUS
    <3>1. i \in 0 .. c - 1
      OBVIOUS
    <3>2. CASE j = c
      BY <1>2, <2>1, <3>1, <3>2 DEF Fresh
    <3>3. CASE j \in 0 .. c - 1
      BY <1>2, <3>1, <3>3 DEF Good
    <3> QED BY <2>2, <3>2, <3>3
  <2>5. (c + 1) - 1 = c
    OBVIOUS
  <2> QED BY <2>3, <2>4, <2>5 DEF Good
<1> HIDE DEF Counted
<1> QED BY <1>1, <1>2 DEF Written

\* A vector of a new size: no slot that was counted is cut off.
LEMMA CutKeeps ==
    ASSUME NEW c \in Nat, NEW d \in Int, c <= d, c <= MaxItems, NEW N \in [Slots -> 0..Blank]
    PROVE  \A i \in 0 .. c - 1 : Cut(N, d)[i] = N[i]
BY Bound DEF Cut

LEMMA GrownCounts ==
    ASSUME NEW F, NEW b, NEW l, NEW k, NEW s, NEW c, Counts(F, l, k, s, c)
    PROVE  Counts(Grown(F, b), l, k, s, c)
BY DEF Counts, Grown, Fact, OnVector, OnPointer

LEMMA GrownSize ==
    ASSUME NEW F, NEW b, NEW l, NEW k \in Nat, NEW s \in Nat, NEW c \in Nat, NEW u \in Nat,
           Counts(F, l, k, s, c),
           b = "n" => u = c, b = "n+1" => u = c + 1, b = "n+known" => u = c + k
    PROVE  Size(Grown(F, b), k, s, c, u)
<1>1. /\ "used_is_n" \in Grown(F, b) => b = "n"
      /\ "used_is_n1" \in Grown(F, b) => b = "n+1"
      /\ "used_is_nk" \in Grown(F, b) => b = "n+known"
      /\ "used_is_n1k" \notin Grown(F, b)
  BY DEF Grown, Fact, OnVector
<1>2. /\ "above_n" \notin Grown(F, b) /\ "covers_nk" \notin Grown(F, b)
      /\ "above_nk" \notin Grown(F, b)
      /\ "covers_sk" \in Grown(F, b) => b = "n+known" /\ "n_is_seen" \in F
  BY DEF Grown, Fact, OnVector
<1> HIDE DEF Grown
<1> QED BY <1>1, <1>2 DEF Counts, Size

LEMMA GrownWritten ==
    ASSUME NEW F, NEW b, NEW s, NEW c, NEW N, NEW R, NEW M, NEW Q,
           \A i \in 0 .. c - 1 : M[i] = N[i] /\ Q[i] = R[i], Written(F, s, c, N, R)
    PROVE  Written(Grown(F, b), s, c, M, Q)
<1>1. /\ "good" \in Grown(F, b) => "good" \in F
      /\ "fresh" \in Grown(F, b) => "fresh" \in F
      /\ "named" \notin Grown(F, b) /\ "filled" \notin Grown(F, b)
  BY DEF Grown, Fact
<1> HIDE DEF Grown
<1> QED BY <1>1 DEF Written, Good, Fresh

\* No vector, because there is nothing to put in it.
LEMMA FreedFits ==
    ASSUME NEW F, NEW b, NEW l, NEW k \in Nat, NEW s \in Nat, NEW N, NEW R,
           Counts(F, l, k, s, 0), b = "n+known" => k = 0
    PROVE  /\ Counts(Freed(F, b), l, k, s, 0) /\ Size(Freed(F, b), k, s, 0, 0)
           /\ Written(Freed(F, b), s, 0, N, R)
<1>1. Counts(Freed(F, b), l, k, s, 0)
  BY DEF Counts, Freed, Fact, OnVector, OnPointer, OnError
<1>2. Size(Freed(F, b), k, s, 0, 0)
  <2>1. \A f \in OnVector : f \in Freed(F, b) => f = "used_is_n"
    BY DEF Freed, Fact, OnVector
  <2> HIDE DEF Freed
  <2> QED BY <2>1 DEF Size, OnVector
<1>3. Written(Freed(F, b), s, 0, N, R)
  <2>1. "named" \notin Freed(F, b) /\ "filled" \notin Freed(F, b)
    BY DEF Freed, Fact
  <2>2. Good(0, s, N, R) /\ Fresh(0, s, N)
    BY DEF Good, Fresh
  <2> HIDE DEF Freed
  <2> QED BY <2>1, <2>2 DEF Written
<1> QED BY <1>1, <1>2, <1>3

\* Fewer facts of a kind are true when more are.
OnCounts == {"n_below_seen", "n_is_seen", "n1_is_seen", "no_known", "no_left", "no_n"}
LEMMA FewerCounts ==
    ASSUME NEW F, NEW H, NEW l, NEW k, NEW s, NEW c, Counts(F, l, k, s, c),
           \A f \in OnCounts : f \in H => f \in F
    PROVE  Counts(H, l, k, s, c)
BY DEF Counts, OnCounts

LEMMA FewerSize ==
    ASSUME NEW F, NEW H, NEW k, NEW s, NEW c, NEW u, Size(F, k, s, c, u),
           \A f \in OnVector : f \in H => f \in F
    PROVE  Size(H, k, s, c, u)
BY DEF Size, OnVector

LEMMA FewerWritten ==
    ASSUME NEW F, NEW H, NEW s, NEW c, NEW N, NEW R, Written(F, s, c, N, R),
           \A f \in OnSlots : f \in H => f \in F
    PROVE  Written(H, s, c, N, R)
BY DEF Written, OnSlots

----------------------------------------------------------------------------
(* The actions.                                                            *)

\* Statements, retries and records.
LEMMA PlainItems ==
    ASSUME Itemized, FreesHeld', Move \/ Retry \/ WriteRecord PROVE Itemized'
<1> DEFINE P == {"none", "again", "zero", "part", "junk", "fill"}
<1>1. PICK O \in SUBSET P : \E e \in Edges(O) :
        Follow(e) /\ Releases(e) /\ UNCHANGED <<items, vector, error>>
  <2>1. CASE Move
    BY <2>1 DEF Move
  <2>2. CASE Retry
    BY <2>2 DEF Retry
  <2>3. CASE WriteRecord
    BY <2>3 DEF WriteRecord
  <2> QED BY <2>1, <2>2, <2>3
<1>2. PICK e \in Edges(O) :
        Follow(e) /\ Releases(e) /\ UNCHANGED <<items, vector, error>>
  BY <1>1
<1>3. e.op \in P
  BY <1>1, EdgeTaken
<1>4. g' = g /\ at' \in Onto(e) /\ e.op \notin Crashes
  BY <1>2, <1>3 DEF Follow, Onto, Crashes
<1>5. \A F : F \cup {} \in Outcomes(F, e)
  BY <1>3 DEF Outcomes
<1>6. \A F : Fit(F) => Fit(F \cup {})
  <2>1. \A F : F \cup {} = F
    OBVIOUS
  <2> QED BY <2>1
<1> HIDE DEF P
<1> QED BY <1>2, <1>4, <1>5, <1>6, QuietItems

\* RETURN_FROM_PREVIOUS_ERROR()
LEMMA ReturnPreviousItems ==
    ASSUME Itemized, Tracked, FreesHeld', ReturnPrevious PROVE Itemized'
<1> DEFINE l == IF error = "none" THEN "ok" ELSE "failed"
<1>1. PICK e \in Edges({"quit"}) :
        Follow([e EXCEPT !.to = l]) /\ Releases(e) /\ UNCHANGED <<items, vector, error>>
  BY DEF ReturnPrevious
<1>2. e.op = "quit"
  BY EdgeTaken
<1>3. e = [to |-> e.to, gets |-> e.gets, puts |-> e.puts, op |-> e.op, by |-> e.by]
  BY EdgeRecord DEF Tracked
<1>4. g' = g /\ at' \in Onto(e) /\ e.op \notin Crashes
  <2> DEFINE f == [e EXCEPT !.to = l]
  <2>1. f.to = l
    BY <1>3
  <2>2. Follow(f)
    BY <1>1
  <2> HIDE DEF f
  <2> QED BY <1>2, <2>1, <2>2 DEF Follow, Onto, Ends, Crashes
<1>5. \A F : F \cup {} \in Outcomes(F, e)
  BY <1>2 DEF Outcomes
<1>6. \A F : Fit(F) => Fit(F \cup {})
  <2>1. \A F : F \cup {} = F
    OBVIOUS
  <2> QED BY <2>1
<1> QED BY <1>1, <1>4, <1>5, <1>6, QuietItems

\* A test leaves its outcome among the facts.
LEMMA TestItems ==
    ASSUME Itemized, FreesHeld', Test PROVE Itemized'
<1> DEFINE O == {"end", "dry", "some", "found", "none_found", "exact", "loose"}
<1>1. PICK e \in Edges(O) :
        /\ e.op \in {"end", "dry"} => known = 0
        /\ e.op = "dry" => left = 0
        /\ e.op = "none_found" => n = 0
        /\ e.op = "exact" => ~live \/ used = n
        /\ e.op = "loose" => live
        /\ Follow(e) /\ Releases(e) /\ UNCHANGED <<items, vector, error>>
  BY DEF Test
<1>2. e.op \in O
  BY EdgeTaken
<1>3. g' = g /\ at' \in Onto(e) /\ e.op \notin Crashes
  BY <1>1, <1>2 DEF Follow, Onto, Crashes
<1>4. \E G : (\A F : Fit(F) => Fit(F \cup G)) /\ (\A F : F \cup G \in Outcomes(F, e))
  <2>1. CASE e.op = "end"
    <3>1. \A F : Fit(F) => Fit(F \cup {"no_known"})
      BY <1>1, <2>1 DEF Fit, Counts, Size, Written, Pointer, Reason
    <3>2. \A F : F \cup {"no_known"} \in Outcomes(F, e)
      BY <2>1 DEF Outcomes
    <3> QED BY <3>1, <3>2, Zenon
  <2>2. CASE e.op = "dry"
    <3>1. \A F : Fit(F) => Fit(F \cup {"no_known", "no_left"})
      BY <1>1, <2>2 DEF Fit, Counts, Size, Written, Pointer, Reason
    <3>2. \A F : F \cup {"no_known", "no_left"} \in Outcomes(F, e)
      BY <2>2 DEF Outcomes
    <3> QED BY <3>1, <3>2, Zenon
  <2>3. CASE e.op \in {"some", "found"}
    <3>1. \A F : F \cup {} = F
      OBVIOUS
    <3>2. \A F : F \cup {} \in Outcomes(F, e)
      BY <2>3 DEF Outcomes
    <3>3. \A F : Fit(F) => Fit(F \cup {})
      BY <3>1
    <3> QED BY <3>2, <3>3, Zenon
  <2>4. CASE e.op = "none_found"
    <3>1. \A F : Fit(F) => Fit(F \cup {"no_n"})
      BY <1>1, <2>4 DEF Fit, Counts, Size, Written, Pointer, Reason
    <3>2. \A F : F \cup {"no_n"} \in Outcomes(F, e)
      BY <2>4 DEF Outcomes
    <3> QED BY <3>1, <3>2, Zenon
  <2>5. CASE e.op = "exact" /\ ~live
    <3>1. \A F : Fit(F) => Fit(F \cup {"null"})
      BY <2>5 DEF Fit, Counts, Size, Written, Pointer, Reason
    <3>2. \A F : F \cup {"null"} \in Outcomes(F, e)
      BY <2>5 DEF Outcomes
    <3> QED BY <3>1, <3>2, Zenon
  <2>6. CASE e.op = "exact" /\ used = n
    <3>1. \A F : Fit(F) => Fit(F \cup {"used_is_n"})
      BY <2>6 DEF Fit, Counts, Size, Written, Pointer, Reason
    <3>2. \A F : F \cup {"used_is_n"} \in Outcomes(F, e)
      BY <2>6 DEF Outcomes
    <3> QED BY <3>1, <3>2, Zenon
  <2>7. CASE e.op = "loose"
    <3>1. \A F : Fit(F) => Fit(F \cup {"vector"})
      BY <1>1, <2>7 DEF Fit, Counts, Size, Written, Pointer, Reason
    <3>2. \A F : F \cup {"vector"} \in Outcomes(F, e)
      BY <2>7 DEF Outcomes
    <3> QED BY <3>1, <3>2, Zenon
  <2> QED BY <1>1, <1>2, <2>1, <2>2, <2>3, <2>4, <2>5, <2>6, <2>7
<1>5. PICK G : (\A F : Fit(F) => Fit(F \cup G)) /\ (\A F : F \cup G \in Outcomes(F, e))
  BY <1>4
<1> HIDE DEF O
<1> QED BY <1>1, <1>3, <1>5, QuietItems

\* A step with its releases, at whose end the facts of an outcome are true.
LEMMA StepItems ==
    ASSUME NEW v \in ItemViews, v.g = g, v.at = at, FreesHeld', NEW O, NEW e \in Edges(O),
           e.op \notin Crashes \cup {"quit"}, Follow(e), Releases(e), Numbers', Arrays',
           NEW F \in Outcomes(v.facts, e), Fit(F)'
    PROVE  Itemized'
<1>1. g' = g /\ at' \in Onto(e)
  BY DEF Follow, Onto, Crashes
<1>2. Located'
  BY <1>1, Landed
<1>3. DefinedBehaviour'
  BY <1>1, ReleasesDefined
<1> QED BY <1>2, <1>3 DEF Itemized

\* sg_set_error() and sg_clear_error().
LEMMA SetErrorItems ==
    ASSUME Itemized, FreesHeld', SetError PROVE Itemized'
<1>1. PICK e \in Edges({"error", "clear"}) :
        /\ Follow(e) /\ Releases(e) /\ UNCHANGED <<items, vector>>
        /\ error' = IF e.op = "error" THEN "set" ELSE "none"
  BY DEF SetError
<1>2. e.op \in {"error", "clear"}
  BY EdgeTaken
<1>3. PICK v \in ItemViews : v.g = g /\ v.at = at /\ Fit(v.facts)
  BY Here
<1> DEFINE H == (v.facts \ OnError) \cup {IF e.op = "error" THEN "set" ELSE "unset"}
<1>4. H \in Outcomes(v.facts, e)
  BY <1>2 DEF Outcomes
<1>5. /\ \A f \in OnCounts \cup OnVector \cup OnSlots \cup OnPointer : f \in H => f \in v.facts
      /\ "set" \in H => e.op = "error"
      /\ "unset" \in H => e.op = "clear"
  BY <1>2 DEF OnCounts, OnVector, OnSlots, OnPointer, OnError
<1> HIDE DEF H
<1>6. Fit(H)'
  <2>1. Counts(H, left, known, seen, n) /\ Size(H, known, seen, n, used)
        /\ Written(H, seen, n, name, rest)
    BY <1>3, <1>5, FewerCounts, FewerSize, FewerWritten, Zenon DEF Fit
  <2>2. Pointer(H)'
    BY <1>1, <1>3, <1>5 DEF Fit, Pointer, OnPointer, vector
  <2>3. Reason(H)'
    BY <1>1, <1>5 DEF Reason
  <2> QED BY <1>1, <2>1, <2>2, <2>3 DEF Fit, items, vector
<1>7. Numbers' /\ Arrays'
  BY <1>1 DEF Itemized, Numbers, Arrays, items, vector
<1> QED BY <1>1, <1>2, <1>3, <1>4, <1>6, <1>7, StepItems DEF Crashes

\* The list of sg_get_fs_stats_int() before it has a vector.
LEMMA SetAsideItems ==
    ASSUME Itemized, FreesHeld', SetAside PROVE Itemized'
<1>1. PICK e \in Edges({"local"}) :
        /\ Follow(e) /\ Releases(e) /\ live' = FALSE
        /\ UNCHANGED <<items, used, name, rest, error>>
  BY DEF SetAside
<1>2. e.op = "local"
  BY EdgeTaken
<1>3. PICK v \in ItemViews : v.g = g /\ v.at = at /\ Fit(v.facts)
  BY Here
<1> DEFINE H == (v.facts \ OnPointer) \cup {"null"}
<1>4. H \in Outcomes(v.facts, e)
  BY <1>2 DEF Outcomes
<1>5. /\ \A f \in OnCounts \cup OnVector \cup OnSlots \cup OnError : f \in H => f \in v.facts
      /\ "vector" \notin H
  BY DEF OnCounts, OnVector, OnSlots, OnPointer, OnError
<1> HIDE DEF H
<1>6. Fit(H)'
  <2>1. Counts(H, left, known, seen, n) /\ Size(H, known, seen, n, used)
        /\ Written(H, seen, n, name, rest)
    BY <1>3, <1>5, FewerCounts, FewerSize, FewerWritten, Zenon DEF Fit
  <2>2. Pointer(H)'
    BY <1>1, <1>5 DEF Pointer
  <2>3. Reason(H)'
    BY <1>1, <1>3, <1>5 DEF Fit, Reason, OnError
  <2> QED BY <1>1, <2>1, <2>2, <2>3 DEF Fit, items
<1>7. Numbers' /\ Arrays'
  BY <1>1 DEF Itemized, Numbers, Arrays, items
<1> QED BY <1>1, <1>2, <1>3, <1>4, <1>6, <1>7, StepItems DEF Crashes

\* The system announces items: of those known nothing was sure but that there were none.
LEMMA AnnounceItems ==
    ASSUME Itemized, FreesHeld', Announce PROVE Itemized'
<1>1. PICK e \in Edges({"all", "batch", "more"}) :
        /\ known = 0
        /\ known' \in IF e.op = "all" \/ left = 0 THEN {left} ELSE 1..left
        /\ left' = left - known'
        /\ Follow(e) /\ Releases(e) /\ UNCHANGED <<seen, n, vector, error>>
  BY DEF Announce
<1>2. e.op \in {"all", "batch", "more"}
  BY EdgeTaken
<1>3. PICK v \in ItemViews : v.g = g /\ v.at = at /\ Fit(v.facts)
  BY Here
<1>4. PICK k \in Nat : known' = k /\ left' = left - k /\ k <= left /\ (e.op = "all" => k = left)
  <2>1. \A x \in IF e.op = "all" \/ left = 0 THEN {left} ELSE 1..left :
          x \in Nat /\ x <= left /\ (e.op = "all" => x = left)
    BY DEF Itemized, Numbers
  <2> QED BY <1>1, <2>1, Zenon
<1> DEFINE H == IF e.op = "all" THEN (v.facts \ OnKnown) \cup {"no_left"}
                ELSE v.facts \ (OnKnown \cup {"no_left"})
<1>5. H \in Outcomes(v.facts, e)
  BY <1>2 DEF Outcomes
<1>6. /\ \A f \in {"n_below_seen", "n_is_seen", "n1_is_seen", "no_n", "used_is_n", "used_is_n1",
                    "above_n"} : f \in H => f \in v.facts
      /\ \A f \in OnSlots \cup OnPointer \cup OnError : f \in H => f \in v.facts
      /\ \A f \in OnKnown : f \notin H
      /\ "no_left" \in H => e.op = "all"
  BY DEF OnSlots, OnPointer, OnError, OnKnown
<1> HIDE DEF H
<1>7. Fit(H)'
  <2>1. Counts(H, left - k, k, seen, n)
    BY <1>3, <1>4, <1>6 DEF Fit, Counts, OnKnown, Itemized, Numbers
  <2>2. Size(H, k, seen, n, used)
    BY <1>3, <1>6 DEF Fit, Size, OnKnown
  <2>3. Written(H, seen, n, name, rest)
    BY <1>3, <1>6, FewerWritten, Zenon DEF Fit
  <2>4. Pointer(H)' /\ Reason(H)'
    BY <1>1, <1>3, <1>6 DEF Fit, Pointer, Reason, OnPointer, OnError, vector
  <2> QED BY <1>1, <1>4, <2>1, <2>2, <2>3, <2>4 DEF Fit, vector
<1>8. Numbers'
  <2>1. left - k \in Nat /\ (left - k) + k + seen <= MaxItems
    BY <1>1, <1>4, Bound DEF Itemized, Numbers
  <2> QED BY <1>1, <1>4, <2>1 DEF Itemized, Numbers, vector
<1>9. Arrays'
  BY <1>1 DEF Itemized, Arrays, vector
<1> QED BY <1>1, <1>2, <1>3, <1>5, <1>7, <1>8, <1>9, StepItems DEF Crashes

\* The next item.
LEMMA NextItems ==
    ASSUME Itemized, FreesHeld', Next_Item PROVE Itemized'
<1>1. PICK e \in Edges({"next"}) :
        /\ known > 0 /\ known' = known - 1 /\ seen' = seen + 1
        /\ Follow(e) /\ Releases(e) /\ UNCHANGED <<left, n, vector, error>>
  BY DEF Next_Item
<1>2. e.op = "next"
  BY EdgeTaken
<1>3. PICK v \in ItemViews : v.g = g /\ v.at = at /\ Fit(v.facts)
  BY Here
<1> DEFINE H == Turned(v.facts)
<1>4. H \in Outcomes(v.facts, e)
  <2>1. "no_known" \notin v.facts
    BY <1>1, <1>3 DEF Fit, Counts, Itemized, Numbers
  <2> QED BY <1>2, <2>1 DEF Outcomes
<1>5. Fit(H)'
  <2>1. Counts(H, left, known - 1, seen + 1, n)
    BY <1>3, TurnedCounts DEF Fit, Itemized, Numbers
  <2>2. Size(H, known - 1, seen + 1, n, used)
    BY <1>3, TurnedSize DEF Fit, Itemized, Numbers
  <2>3. seen <= MaxItems
    BY Bound DEF Itemized, Numbers
  <2>4. Written(H, seen + 1, n, name, rest)
    <3>1. name \in [0..MaxItems -> 0..MaxItems]
      BY Bound DEF Itemized, Arrays
    <3> QED BY <1>3, <2>3, <3>1, Bound, TurnedWritten DEF Fit, Itemized, Numbers
  <2>5. \A f \in OnPointer \cup OnError : f \in H => f \in v.facts
    BY DEF Turned, Fact, OnPointer, OnError, OnKnown
  <2> HIDE DEF H
  <2>6. Pointer(H)' /\ Reason(H)'
    BY <1>1, <1>3, <2>5 DEF Fit, Pointer, Reason, OnPointer, OnError, vector
  <2> QED BY <1>1, <2>1, <2>2, <2>4, <2>6 DEF Fit, vector
<1>6. Numbers'
  <2>1. /\ known - 1 \in Nat /\ seen + 1 \in Nat /\ n <= seen + 1
        /\ left + (known - 1) + (seen + 1) <= MaxItems
    BY <1>1, Bound DEF Itemized, Numbers
  <2> QED BY <1>1, <2>1 DEF Itemized, Numbers, vector
<1>7. Arrays'
  BY <1>1 DEF Itemized, Arrays, vector
<1> HIDE DEF H
<1> QED BY <1>1, <1>2, <1>3, <1>4, <1>5, <1>6, <1>7, StepItems DEF Crashes

\* The items are looked at before they are written or counted.
LEMMA LookedAt ==
    ASSUME Itemized, NEW O, O \subseteq Writes \cup Repeats \cup {"count", "sum", "last"}, NEW e \in Edges(O)
    PROVE  n < seen
<1>1. PICK v \in ItemViews :
        Fit(v.facts) /\ CountsSeen(v) /\ e \in Graph[v.g][v.at] /\ v.at \notin Ends
  BY Here
<1>2. e.op \in Writes \cup Repeats \cup {"count", "sum", "last"}
  BY EdgeTaken
<1> QED BY <1>1, <1>2 DEF CountsSeen, Fit, Counts

\* An item or a device is counted.
LEMMA CountItems ==
    ASSUME Itemized, FreesHeld', NEW O, O \subseteq {"count", "sum"}, NEW e \in Edges(O),
           n' = n + 1, Follow(e), Releases(e), UNCHANGED <<left, known, seen, vector, error>>
    PROVE  Itemized'
<1>1. e.op \in {"count", "sum"}
  BY EdgeTaken
<1>2. n < seen
  BY LookedAt
<1>3. PICK v \in ItemViews : v.g = g /\ v.at = at /\ Fit(v.facts)
  BY Here
<1> DEFINE w == {"named", "filled"} \subseteq v.facts
           H == Counted(v.facts, w)
<1>4. H \in Outcomes(v.facts, e)
  BY <1>1 DEF Outcomes
<1>5. Fit(H)'
  <2>1. Counts(H, left, known, seen, n + 1)
    BY <1>3, CountedCounts DEF Fit, Itemized, Numbers
  <2>2. Size(H, known, seen, n + 1, used)
    BY <1>3, CountedSize DEF Fit, Itemized, Numbers
  <2>3. seen <= MaxItems
    BY Bound DEF Itemized, Numbers
  <2>4. Written(H, seen, n + 1, name, rest)
    <3>1. name \in [0..MaxItems -> 0..MaxItems] /\ rest \in [0..MaxItems -> 0..MaxItems]
      BY Bound DEF Itemized, Arrays
    <3>2. w => name[n] = seen - 1 /\ rest[n] = seen - 1
      BY <1>3 DEF Fit, Written
    <3> HIDE DEF w
    <3> QED BY <1>2, <1>3, <2>3, <3>1, <3>2, Bound, CountedWritten DEF Fit, Itemized, Numbers
  <2>5. \A f \in OnPointer \cup OnError : f \in H => f \in v.facts
    BY DEF Counted, Fact, OnPointer, OnError
  <2> HIDE DEF H
  <2>6. Pointer(H)' /\ Reason(H)'
    BY <1>3, <2>5 DEF Fit, Pointer, Reason, OnPointer, OnError, vector
  <2> QED BY <2>1, <2>2, <2>4, <2>6 DEF Fit, vector
<1>6. Numbers'
  BY <1>2 DEF Itemized, Numbers, vector
<1>7. Arrays'
  BY DEF Itemized, Arrays, vector
<1>8. e.op \notin Crashes \cup {"quit"}
  BY <1>1 DEF Crashes
<1> HIDE DEF H
<1> QED BY <1>3, <1>4, <1>5, <1>6, <1>7, <1>8, StepItems DEF Crashes

LEMMA SumItems ==
    ASSUME Itemized, FreesHeld', Count \/ Sum_Device PROVE Itemized'
<1>1. CASE Count
  BY <1>1, CountItems DEF Count
<1>2. CASE Sum_Device
  <2>1. PICK e \in Edges({"sum", "last"}) :
          /\ n' = IF e.op = "sum" THEN n + 1 ELSE 1
          /\ Follow(e) /\ Releases(e) /\ UNCHANGED <<left, known, seen, vector, error>>
    BY <1>2 DEF Sum_Device
  <2>2. e.op \in {"sum", "last"}
    BY EdgeTaken
  <2>3. CASE e.op = "sum"
    <3>1. e \in Edges({"sum"})
      BY <2>3 DEF Edges
    <3> QED BY <2>1, <2>3, <3>1, CountItems
  <2>4. CASE e.op = "last"
    <3>1. n < seen
      BY LookedAt
    <3>2. PICK v \in ItemViews : v.g = g /\ v.at = at /\ Fit(v.facts)
      BY Here
    <3> DEFINE H == v.facts \cap (OnError \cup OnPointer \cup {"no_known", "no_left"})
    <3>3. H \in Outcomes(v.facts, e)
      BY <2>4 DEF Outcomes
    <3>4. /\ \A f \in H : f \in v.facts
          /\ \A f \in OnVector \cup OnSlots : f \notin H
          /\ \A f \in {"n_below_seen", "n_is_seen", "n1_is_seen", "no_n"} : f \notin H
      BY DEF OnVector, OnSlots, OnError, OnPointer
    <3> HIDE DEF H
    <3>5. Fit(H)'
      <4>1. Counts(H, left, known, seen, 1)
        BY <3>2, <3>4 DEF Fit, Counts
      <4>2. Size(H, known, seen, 1, used) /\ Written(H, seen, 1, name, rest)
        BY <3>4 DEF Size, Written, OnVector, OnSlots
      <4>3. Pointer(H)' /\ Reason(H)'
        BY <2>1, <3>2, <3>4 DEF Fit, Pointer, Reason, vector
      <4> QED BY <2>1, <2>4, <4>1, <4>2, <4>3 DEF Fit, vector
    <3>6. Numbers'
      <4>1. n' = 1 /\ 1 <= seen
        BY <2>1, <2>4, <3>1 DEF Itemized, Numbers
      <4> QED BY <2>1, <4>1 DEF Itemized, Numbers, vector
    <3>7. Arrays'
      BY <2>1 DEF Itemized, Arrays, vector
    <3> QED BY <2>1, <2>4, <3>2, <3>3, <3>5, <3>6, <3>7, StepItems DEF Crashes
  <2> QED BY <2>2, <2>3, <2>4
<1> QED BY <1>1, <1>2

\* A vector that is cut is one.
LEMMA CutTyped ==
    ASSUME NEW d \in Int, NEW N \in [Slots -> 0..Blank] PROVE Cut(N, d) \in [Slots -> 0..Blank]
<1>1. Blank \in 0..Blank
  BY Bound
<1> QED BY <1>1 DEF Cut

\* sg_get_fs_stats_int() turns to its caller's vector, with the items listed before it.
LEMMA HandOverItems ==
    ASSUME Itemized, Tracked, HandOver PROVE Itemized'
<1>1. PICK e \in Edges({"handover"}) :
        /\ Follow([e EXCEPT !.gets = IF live THEN {"tmp"} ELSE {}])
        /\ known' = n /\ n' = 0 /\ seen' = 0 /\ live' = TRUE /\ used' = 0
        /\ name' = Cut(name, 0) /\ rest' = Cut(rest, 0)
        /\ UNCHANGED <<left, error, ub>>
  BY DEF HandOver
<1>2. e.op = "handover" /\ ub = "none"
  BY EdgeTaken
<1>3. e = [to |-> e.to, gets |-> e.gets, puts |-> e.puts, op |-> e.op, by |-> e.by]
  BY EdgeRecord DEF Tracked
<1>4. g' = g /\ at' \in Onto(e)
  <2> DEFINE f == [e EXCEPT !.gets = IF live THEN {"tmp"} ELSE {}]
  <2>1. f.to = e.to
    BY <1>3
  <2>2. Follow(f)
    BY <1>1
  <2> HIDE DEF f
  <2> QED BY <1>2, <2>1, <2>2 DEF Follow, Onto, Crashes
<1>5. PICK v \in ItemViews : v.g = g /\ v.at = at /\ Fit(v.facts)
  BY Here
<1> DEFINE H == (v.facts \cap (OnError \cup {"no_left"}))
                  \cup {"n_is_seen", "no_n", "used_is_n", "vector", "good"}
<1>6. H \in Outcomes(v.facts, e)
  BY <1>2 DEF Outcomes
<1>7. /\ \A f \in OnError \cup {"no_left"} : f \in H => f \in v.facts
      /\ \A f \in OnVector : f \in H => f = "used_is_n"
      /\ \A f \in OnSlots : f \in H => f = "good"
      /\ "n_below_seen" \notin H /\ "n1_is_seen" \notin H /\ "no_known" \notin H /\ "null" \notin H
  BY DEF OnError, OnVector, OnSlots
<1> HIDE DEF H
<1>8. Fit(H)'
  <2>1. Counts(H, left, n, 0, 0)
    BY <1>5, <1>7 DEF Fit, Counts
  <2>2. Size(H, n, 0, 0, 0)
    BY <1>7 DEF Size, OnVector
  <2>3. Written(H, 0, 0, name', rest')
    <3>1. Good(0, 0, name', rest')
      BY DEF Good
    <3> QED BY <1>7, <3>1 DEF Written, OnSlots
  <2>4. Pointer(H)' /\ Reason(H)'
    BY <1>1, <1>5, <1>7 DEF Fit, Pointer, Reason, OnError
  <2> QED BY <1>1, <2>1, <2>2, <2>3, <2>4 DEF Fit
<1>9. Numbers'
  <2>1. left + n + 0 <= MaxItems /\ 0 <= MaxItems
    BY Bound DEF Itemized, Numbers
  <2> QED BY <1>1, <2>1 DEF Itemized, Numbers
<1>10. Arrays'
  BY <1>1, CutTyped DEF Itemized, Arrays
<1>11. Located'
  BY <1>2, <1>4, <1>5, <1>6, <1>8, <1>9, Landed DEF Crashes
<1>12. DefinedBehaviour'
  BY <1>1, <1>2 DEF DefinedBehaviour
<1> QED BY <1>9, <1>10, <1>11, <1>12 DEF Itemized

\* The items found are copied.
LEMMA CopyItems ==
    ASSUME Itemized, FreesHeld', Copy PROVE Itemized'
<1>1. PICK e \in Edges({"copy", "copy_last"}) :
        /\ name' = [s \in Slots |-> IF s < n THEN s ELSE name[s]]
        /\ rest' = [s \in Slots |-> IF s >= n THEN rest[s]
                                    ELSE IF e.op = "copy" THEN s ELSE Before(s)]
        /\ Follow(e) /\ Releases(e) /\ UNCHANGED <<items, live, used, error>>
  BY DEF Copy
<1>2. e.op \in {"copy", "copy_last"}
  BY EdgeTaken
<1>3. PICK v \in ItemViews : v.g = g /\ v.at = at /\ Fit(v.facts)
  BY Here
<1> DEFINE H == IF e.op = "copy" THEN (v.facts \ {"fresh", "named", "filled"}) \cup {"good"}
                ELSE v.facts \ OnSlots
<1>4. H \in Outcomes(v.facts, e)
  BY <1>2 DEF Outcomes
<1>5. /\ \A f \in OnCounts \cup OnVector \cup OnPointer \cup OnError : f \in H => f \in v.facts
      /\ \A f \in OnSlots : f \in H => f = "good" /\ e.op = "copy"
  BY DEF OnCounts, OnVector, OnPointer, OnError, OnSlots
<1> HIDE DEF H
<1>6. seen <= MaxItems /\ n <= seen /\ n \in Nat /\ seen \in Nat
  BY Bound DEF Itemized, Numbers
<1>7. ASSUME e.op = "copy" PROVE Good(n, seen, name', rest')
  <2>1. \A i \in 0 .. n - 1 : i \in Slots /\ i < n /\ i < seen
    BY <1>6, Bound
  <2>2. \A i \in 0 .. n - 1 : name'[i] = i /\ rest'[i] = i
    BY <1>1, <1>6, <1>7, <2>1
  <2> QED BY <2>1, <2>2 DEF Good
<1>8. Fit(H)'
  <2>1. Counts(H, left, known, seen, n) /\ Size(H, known, seen, n, used)
    BY <1>3, <1>5, FewerCounts, FewerSize, Zenon DEF Fit
  <2>2. Written(H, seen, n, name', rest')
    BY <1>5, <1>7 DEF Written, OnSlots
  <2>3. Pointer(H)' /\ Reason(H)'
    BY <1>1, <1>3, <1>5 DEF Fit, Pointer, Reason, OnPointer, OnError
  <2> QED BY <1>1, <2>1, <2>2, <2>3 DEF Fit, items
<1>9. Numbers'
  BY <1>1 DEF Itemized, Numbers, items
<1>10. Arrays'
  <2>1. \A s \in Slots : s \in 0..Blank /\ Before(s) \in 0..Blank
    BY Bound DEF Before
  <2> QED BY <1>1, <2>1 DEF Itemized, Arrays
<1> QED BY <1>1, <1>2, <1>3, <1>4, <1>8, <1>9, <1>10, StepItems DEF Crashes

\* A refused allocation.
LEMMA LoseItems ==
    ASSUME Itemized, FreesHeld', Lose PROVE Itemized'
<1>1. PICK e \in Edges({"lost", "lost_none"}) :
        /\ Follow(e) /\ Releases(e) /\ live' = FALSE /\ used' = 0
        /\ name' = Cut(name, 0) /\ rest' = Cut(rest, 0)
        /\ error' = "set" /\ UNCHANGED items
  BY DEF Lose
<1>2. e.op \in {"lost", "lost_none"}
  BY EdgeTaken
<1>3. PICK v \in ItemViews : v.g = g /\ v.at = at /\ Fit(v.facts)
  BY Here
<1> DEFINE H == (v.facts \ (OnVector \cup OnPointer \cup OnError \cup OnSlots)) \cup {"null", "set"}
<1>4. H \in Outcomes(v.facts, e)
  BY <1>2 DEF Outcomes
<1>5. /\ \A f \in OnCounts : f \in H => f \in v.facts
      /\ \A f \in OnVector \cup OnSlots : f \notin H
      /\ "vector" \notin H /\ "unset" \notin H
  BY DEF OnCounts, OnVector, OnPointer, OnError, OnSlots
<1> HIDE DEF H
<1>6. Fit(H)'
  <2>1. Counts(H, left, known, seen, n)
    BY <1>3, <1>5, FewerCounts, Zenon DEF Fit
  <2>2. Size(H, known, seen, n, 0) /\ Written(H, seen, n, name', rest')
    BY <1>5 DEF Size, Written, OnVector, OnSlots
  <2>3. Pointer(H)' /\ Reason(H)'
    BY <1>1, <1>5 DEF Pointer, Reason
  <2> QED BY <1>1, <2>1, <2>2, <2>3 DEF Fit, items
<1>7. Numbers'
  <2>1. 0 <= MaxItems
    BY Bound
  <2> QED BY <1>1, <2>1 DEF Itemized, Numbers, items
<1>8. Arrays'
  BY <1>1, CutTyped DEF Itemized, Arrays
<1> QED BY <1>1, <1>2, <1>3, <1>4, <1>6, <1>7, <1>8, StepItems DEF Crashes

\* VECTOR_UPDATE() with enough memory.
LEMMA ResizeItems ==
    ASSUME Itemized, Tracked, Resize PROVE Itemized'
<1>1. PICK e \in Edges({"resize"}) :
        /\ Follow(e) /\ live' = ~(live /\ NewCount(e) = 0)
        /\ used' = IF NewCount(e) < 0 THEN 0 ELSE NewCount(e)
        /\ name' = Cut(name, NewCount(e)) /\ rest' = Cut(rest, NewCount(e))
        /\ error' = IF live /\ NewCount(e) = 0 THEN "none" ELSE error
        /\ ub' = IF NewCount(e) < 0 THEN "bounds" ELSE ub
        /\ UNCHANGED items
  BY DEF Resize
<1>2. e.op = "resize" /\ ub = "none" /\ at \notin Ends /\ e \in Graph[g][at]
  BY EdgeTaken
<1>3. PICK v \in ItemViews :
        /\ v.g = g /\ v.at = at /\ Fit(v.facts)
        /\ CountsSeen(v) /\ WritesInside(v) /\ e \in Graph[v.g][v.at] /\ v.at \notin Ends
  BY Here
<1>4. e.by \in {"n", "n+1", "n+known", "n-1"}
  <2>1. g \in DOMAIN Graph /\ at \in DOMAIN Graph[g]
    BY <1>2, ViewsAssumption, ViewFields DEF Tracked, Viewed
  <2> QED BY <1>2, <2>1, TargetsAssumption
<1>5. PICK d \in Int :
        /\ d = NewCount(e) /\ d <= MaxItems /\ (e.by # "n-1" => d >= n)
        /\ (e.by = "n" => d = n) /\ (e.by = "n+1" => d = n + 1) /\ (e.by = "n+known" => d = n + known)
  <2>1. n \in Nat /\ known \in Nat /\ seen \in Nat /\ left \in Nat
        /\ left + known + seen <= MaxItems /\ n <= seen
    BY DEF Itemized, Numbers
  <2>2. CASE e.by = "n"
    BY <2>1, <2>2, Bound DEF NewCount
  <2>3. CASE e.by = "n+1"
    <3>1. n < seen \/ n = 0
      BY <1>2, <1>3, <2>3 DEF CountsSeen, Fit, Counts
    <3> QED BY <2>1, <2>3, <3>1, Bound DEF NewCount
  <2>4. CASE e.by = "n+known"
    BY <2>1, <2>4, Bound DEF NewCount
  <2>5. CASE e.by = "n-1"
    BY <2>1, <2>5, Bound DEF NewCount
  <2> QED BY <1>4, <2>2, <2>3, <2>4, <2>5
<1>6. Numbers'
  <2>1. used' \in Nat /\ used' <= MaxItems
    <3>1. CASE d < 0
      BY <1>1, <1>5, <3>1, Bound
    <3>2. CASE ~(d < 0)
      BY <1>1, <1>5, <3>2
    <3> QED BY <3>1, <3>2
  <2> QED BY <1>1, <2>1 DEF Itemized, Numbers, items
<1>7. Arrays'
  BY <1>1, <1>5, CutTyped DEF Itemized, Arrays
<1>8. DefinedBehaviour'
  <2>1. d < 0 => e.by = "n-1"
    BY <1>4, <1>5 DEF Itemized, Numbers
  <2>2. d < 0 => "bounds" \in Allowed(Hazardous, g)
    BY <1>2, <1>3, <2>1 DEF WritesInside
  <2>3. g' = g
    BY <1>1 DEF Follow
  <2> QED BY <1>1, <1>2, <1>5, <2>2, <2>3 DEF DefinedBehaviour
<1>9. \E H \in Outcomes(v.facts, e) : Fit(H)'
  <2>1. CASE e.by = "n-1"
    <3> DEFINE H == v.facts \ (OnVector \cup OnPointer \cup OnSlots \cup OnError)
    <3>1. H \in Outcomes(v.facts, e)
      BY <1>2, <2>1 DEF Outcomes, Sized
    <3>2. /\ \A f \in OnCounts : f \in H => f \in v.facts
          /\ \A f \in OnVector \cup OnPointer \cup OnSlots \cup OnError : f \notin H
      OBVIOUS
    <3> HIDE DEF H
    <3>3. Counts(H, left, known, seen, n)
      BY <1>3, <3>2, FewerCounts, Zenon DEF Fit
    <3>4. Size(H, known', seen', n', used') /\ Written(H, seen', n', name', rest')
          /\ Pointer(H)' /\ Reason(H)'
      BY <3>2 DEF Size, Written, Pointer, Reason, OnVector, OnPointer, OnSlots, OnError
    <3>5. Fit(H)'
      BY <1>1, <3>3, <3>4 DEF Fit, items
    <3> QED BY <3>1, <3>5
  <2>2. CASE e.by # "n-1" /\ live /\ d = 0
    <3> DEFINE H == Freed(v.facts, e.by)
    <3>1. n = 0 /\ e.by # "n+1" /\ (e.by = "n+known" => known = 0) /\ known \in Nat /\ seen \in Nat
      BY <1>5, <2>2 DEF Itemized, Numbers
    <3>2. "null" \notin v.facts
      BY <1>3, <2>2 DEF Fit, Pointer
    <3>3. H \in Outcomes(v.facts, e)
      BY <1>2, <2>2, <3>1, <3>2 DEF Outcomes, Sized
    <3>4. "vector" \notin H /\ "set" \notin H
      BY DEF Freed, Fact, OnPointer, OnError
    <3>5. Counts(v.facts, left, known, seen, 0)
      BY <1>3, <3>1 DEF Fit
    <3>6. Counts(H, left, known, seen, 0) /\ Size(H, known, seen, 0, 0)
          /\ Written(H, seen, 0, name', rest')
      BY <3>1, <3>5, FreedFits
    <3> HIDE DEF H
    <3>7. ~live' /\ error' = "none" /\ used' = 0
      BY <1>1, <1>5, <2>2
    <3>8. Pointer(H)' /\ Reason(H)'
      BY <3>4, <3>7 DEF Pointer, Reason
    <3>9. Fit(H)'
      BY <1>1, <3>1, <3>6, <3>7, <3>8 DEF Fit, items
    <3> QED BY <3>3, <3>9
  <2>3. CASE e.by # "n-1" /\ ~(live /\ d = 0)
    <3> DEFINE H == Grown(v.facts, e.by)
    <3>1. H \in Outcomes(v.facts, e)
      BY <1>2, <2>3 DEF Outcomes, Sized
    <3>2. "null" \notin H /\ \A f \in OnError : f \in H => f \in v.facts
      BY DEF Grown, Fact, OnPointer, OnError
    <3>3. d \in Nat /\ used' = d /\ n <= d
      BY <1>1, <1>5, <2>3 DEF Itemized, Numbers
    <3>4. Counts(H, left, known, seen, n)
      BY <1>3, GrownCounts DEF Fit
    <3>5. Size(H, known, seen, n, d)
      BY <1>3, <1>5, <3>3, GrownSize DEF Fit, Itemized, Numbers
    <3>6. Written(H, seen, n, name', rest')
      <4>1. n \in Nat /\ n <= MaxItems
        BY Bound DEF Itemized, Numbers
      <4>2. \A i \in 0 .. n - 1 : name'[i] = name[i] /\ rest'[i] = rest[i]
        <5>1. \A i \in 0 .. n - 1 : Cut(name, d)[i] = name[i]
          BY <3>3, <4>1, CutKeeps DEF Itemized, Arrays
        <5>2. \A i \in 0 .. n - 1 : Cut(rest, d)[i] = rest[i]
          BY <3>3, <4>1, CutKeeps DEF Itemized, Arrays
        <5> QED BY <1>1, <1>5, <5>1, <5>2, Zenon
      <4> QED BY <1>3, <4>2, GrownWritten DEF Fit
    <3> HIDE DEF H
    <3>7. live' /\ error' = error
      BY <1>1, <1>5, <2>3
    <3>8. Pointer(H)' /\ Reason(H)'
      BY <1>3, <3>2, <3>7 DEF Fit, Pointer, Reason, OnError
    <3>9. Fit(H)'
      BY <1>1, <3>3, <3>4, <3>5, <3>6, <3>8 DEF Fit, items
    <3> QED BY <3>1, <3>9
  <2> QED BY <2>1, <2>2, <2>3
<1>10. Located'
  <2>1. g' = g /\ at' \in Onto(e) /\ e.op \notin Crashes
    BY <1>1, <1>2 DEF Follow, Onto, Crashes
  <2> QED BY <1>3, <1>6, <1>9, <2>1, Landed
<1> QED BY <1>6, <1>7, <1>8, <1>10 DEF Itemized

\* Fields are written to slot n or behind it: what was written to the slots before remains.
LEMMA WriteItems ==
    ASSUME Itemized, FreesHeld', Write PROVE Itemized'
<1>1. PICK e \in Edges(Writes) :
        /\ Follow(e)
        /\ name' = IF e.op = "rest" THEN name
                   ELSE [name EXCEPT ![IF e.op = "name_i" THEN seen - 1 ELSE n] =
                           IF e.op = "name_n" THEN n ELSE seen - 1]
        /\ rest' = IF e.op \in {"store", "add", "rest"}
                   THEN [rest EXCEPT ![IF e.op = "name_i" THEN seen - 1 ELSE n] =
                           IF e.op = "name_n" THEN n ELSE seen - 1]
                   ELSE rest
        /\ n' = IF e.op = "add" THEN n + 1 ELSE n
        /\ ub' = IF ~live THEN "null"
                 ELSE IF (IF e.op = "name_i" THEN seen - 1 ELSE n) >= used THEN "bounds"
                 ELSE IF e.puts \cap dead = {} THEN ub ELSE "free"
        /\ UNCHANGED <<left, known, seen, live, used, error>>
  BY Zenon DEF Write, Writes
<1>2. e.op \in Writes /\ ub = "none"
  BY EdgeTaken
<1>3. PICK v \in ItemViews :
        /\ v.g = g /\ v.at = at /\ Fit(v.facts)
        /\ WritesInside(v) /\ e \in Graph[v.g][v.at] /\ v.at \notin Ends
  BY Here
<1>4. /\ n < seen /\ seen <= MaxItems /\ n \in Nat /\ seen \in Nat /\ n \in Slots
      /\ seen - 1 \in 0..Blank /\ n \in 0..Blank
  <2>1. n < seen
    BY LookedAt
  <2> QED BY <2>1, Bound DEF Itemized, Numbers
<1>5. Numbers'
  <2>1. n' \in Nat /\ n' <= seen
    <3>1. CASE e.op = "add"
      BY <1>1, <1>4, <3>1
    <3>2. CASE e.op # "add"
      BY <1>1, <1>4, <3>2
    <3> QED BY <3>1, <3>2
  <2> QED BY <1>1, <2>1 DEF Itemized, Numbers
<1>6. Arrays'
  <2>1. \A x \in {n, seen - 1} : x \in 0..Blank
    BY <1>4
  <2>2. name' \in [Slots -> 0..Blank]
    BY <1>1, <2>1 DEF Itemized, Arrays
  <2>3. rest' \in [Slots -> 0..Blank]
    BY <1>1, <2>1 DEF Itemized, Arrays
  <2> QED BY <2>2, <2>3 DEF Arrays
<1>7. DefinedBehaviour'
  <2> SUFFICES ASSUME ub' # "none", ub' \notin Allowed(Hazardous, g)
               PROVE  ub' = "null" /\ ~live /\ error = "set"
    BY <1>1 DEF DefinedBehaviour, Follow
  <2>1. /\ "vector" \in v.facts \/ "set" \in v.facts
        /\ \/ "null" \in v.facts \/ "bounds" \in Allowed(Hazardous, g)
           \/ "above_n" \in v.facts /\ e.op # "name_i"
           \/ "covers_sk" \in v.facts /\ e.op = "name_i"
    BY <1>2, <1>3 DEF WritesInside
  <2>2. CASE ~live
    BY <1>1, <1>3, <2>1, <2>2 DEF Fit, Pointer, Reason
  <2>3. CASE live
    <3>1. "null" \notin v.facts
      BY <1>3, <2>3 DEF Fit, Pointer
    <3>2. (IF e.op = "name_i" THEN seen - 1 ELSE n) >= used => "bounds" \in Allowed(Hazardous, g)
      <4>1. CASE e.op # "name_i"
        BY <1>3, <2>1, <3>1, <4>1 DEF Fit, Size, Itemized, Numbers
      <4>2. CASE e.op = "name_i"
        BY <1>3, <2>1, <3>1, <4>2 DEF Fit, Size, Itemized, Numbers
      <4> QED BY <4>1, <4>2
    <3>3. ub' = "free"
      BY <1>1, <1>2, <2>3, <3>2
    <3> QED BY <1>1, <3>3 DEF FreesHeld, Follow
  <2> QED BY <2>2, <2>3
<1>8. ASSUME ub' = "none" PROVE \E H \in Outcomes(v.facts, e) : Fit(H)'
  <2>1. live
    BY <1>1, <1>8
  <2>2. \A i \in 0 .. n - 1 : name'[i] = name[i] /\ rest'[i] = rest[i]
    <3>1. \A i \in 0 .. n - 1 : i \in Slots /\ i # n /\ i # seen - 1
      BY <1>4, Bound
    <3>2. \A i \in 0 .. n - 1 : name'[i] = name[i]
      BY <1>1, <3>1 DEF Itemized, Arrays
    <3>3. \A i \in 0 .. n - 1 : rest'[i] = rest[i]
      BY <1>1, <3>1 DEF Itemized, Arrays
    <3> QED BY <3>2, <3>3
  <2>3. /\ "good" \in v.facts => Good(n, seen, name', rest')
        /\ "fresh" \in v.facts => Fresh(n, seen, name')
    BY <1>3, <2>2 DEF Fit, Written, Good, Fresh
  <2>4. /\ e.op \in {"store", "add", "name"} => name'[n] = seen - 1
        /\ e.op \in {"store", "add", "rest"} => rest'[n] = seen - 1
        /\ e.op = "rest" => name' = name
        /\ e.op \in {"name", "name_i", "name_n"} => rest' = rest
    BY <1>1, <1>4 DEF Itemized, Arrays
  <2>5. CASE e.op = "add"
    <3> DEFINE H == Counted(v.facts, TRUE) \cup {"vector"}
    <3>1. H \in Outcomes(v.facts, e)
      BY <2>5 DEF Outcomes
    <3>2. /\ \A f \in OnCounts \cup OnVector \cup OnSlots : f \in H => f \in Counted(v.facts, TRUE)
          /\ \A f \in OnError \cup {"null"} : f \in H => f \in v.facts
      BY DEF Counted, Fact, OnCounts, OnVector, OnSlots, OnError, OnPointer
    <3> HIDE DEF H
    <3>3. Counts(H, left, known, seen, n + 1)
      <4>1. Counts(Counted(v.facts, TRUE), left, known, seen, n + 1)
        BY <1>3, CountedCounts DEF Fit, Itemized, Numbers
      <4> QED BY <3>2, <4>1, FewerCounts, Zenon
    <3>4. Size(H, known, seen, n + 1, used)
      <4>1. Size(Counted(v.facts, TRUE), known, seen, n + 1, used)
        BY <1>3, CountedSize DEF Fit, Itemized, Numbers
      <4> QED BY <3>2, <4>1, FewerSize, Zenon
    <3>5. Written(H, seen, n + 1, name', rest')
      <4>1. Written(v.facts, seen, n, name', rest')
        BY <2>3, <2>4, <2>5 DEF Written
      <4>2. name' \in [0..MaxItems -> 0..MaxItems] /\ rest' \in [0..MaxItems -> 0..MaxItems]
        BY <1>6, Bound DEF Arrays
      <4>3. Written(Counted(v.facts, TRUE), seen, n + 1, name', rest')
        BY <1>4, <2>4, <2>5, <4>1, <4>2, Bound, CountedWritten
      <4> QED BY <3>2, <4>3, FewerWritten, Zenon
    <3>6. Pointer(H)' /\ Reason(H)'
      BY <1>1, <1>3, <2>1, <3>2 DEF Fit, Pointer, Reason, OnError
    <3>7. Fit(H)'
      BY <1>1, <2>5, <3>3, <3>4, <3>5, <3>6 DEF Fit
    <3> QED BY <3>1, <3>7
  <2>6. CASE e.op # "add"
    <3> DEFINE H == (IF e.op \in {"name_i", "name_n"} THEN v.facts \ {"named"} ELSE v.facts)
                      \cup {"vector"}
                      \cup (IF e.op \in {"store", "name"} THEN {"named"} ELSE {})
                      \cup (IF e.op \in {"store", "rest"} THEN {"filled"} ELSE {})
    <3>1. H \in Outcomes(v.facts, e)
      <4>1. CASE e.op = "store"
        <5>1. H = v.facts \cup {"vector", "named", "filled"}
          BY <4>1
        <5> QED BY <4>1, <5>1 DEF Outcomes
      <4>2. CASE e.op = "name"
        <5>1. H = v.facts \cup {"vector", "named"}
          BY <4>2
        <5> QED BY <4>2, <5>1 DEF Outcomes
      <4>3. CASE e.op \in {"name_i", "name_n"}
        <5>1. H = (v.facts \ {"named"}) \cup {"vector"}
          BY <4>3
        <5> QED BY <4>3, <5>1 DEF Outcomes
      <4>4. CASE e.op = "rest"
        <5>1. H = v.facts \cup {"vector", "filled"}
          BY <4>4
        <5> QED BY <4>4, <5>1 DEF Outcomes
      <4> QED BY <1>2, <2>6, <4>1, <4>2, <4>3, <4>4 DEF Writes
    <3>2. /\ \A f \in OnCounts \cup OnVector \cup OnError \cup {"null", "good", "fresh"} :
               f \in H => f \in v.facts
          /\ "named" \in H => e.op \in {"store", "name"} \/ (e.op = "rest" /\ "named" \in v.facts)
          /\ "filled" \in H => \/ e.op \in {"store", "rest"}
                               \/ e.op \in {"name", "name_i", "name_n"} /\ "filled" \in v.facts
      BY <1>2, <2>6 DEF Writes, OnCounts, OnVector, OnError
    <3> HIDE DEF H
    <3>3. Counts(H, left, known, seen, n) /\ Size(H, known, seen, n, used)
      BY <1>3, <3>2, FewerCounts, FewerSize, Zenon DEF Fit
    <3>4. Written(H, seen, n, name', rest')
      <4>1. "named" \in H => name'[n] = seen - 1
        BY <1>3, <2>4, <3>2 DEF Fit, Written
      <4>2. "filled" \in H => rest'[n] = seen - 1
        BY <1>3, <2>4, <3>2 DEF Fit, Written
      <4> QED BY <2>3, <3>2, <4>1, <4>2 DEF Written
    <3>5. Pointer(H)' /\ Reason(H)'
      BY <1>1, <1>3, <2>1, <3>2 DEF Fit, Pointer, Reason, OnError
    <3>6. Fit(H)'
      BY <1>1, <2>6, <3>3, <3>4, <3>5 DEF Fit
    <3> QED BY <3>1, <3>6
  <2> QED BY <2>5, <2>6
<1>9. Located'
  <2>1. g' = g /\ at' \in Onto(e) /\ e.op \notin Crashes
    BY <1>1, <1>2 DEF Follow, Onto, Writes, Crashes
  <2>2. CASE ub' = "none"
    BY <1>3, <1>5, <1>8, <2>1, <2>2, Landed
  <2>3. CASE ub' # "none"
    BY <2>3 DEF Located
  <2> QED BY <2>2, <2>3
<1> QED BY <1>5, <1>6, <1>7, <1>9 DEF Itemized

\* What a local variable still has is copied to slot n, and the slots before remain.
LEMMA RepeatItems ==
    ASSUME Itemized, FreesHeld', Repeat PROVE Itemized'
<1>1. PICK e \in Edges(Repeats) :
        /\ Follow(e)
        /\ \/ e.op = "same_name" /\ rest' = rest /\ \E v \in Kept(name) : name' = [name EXCEPT ![n] = v]
           \/ e.op = "same_rest" /\ name' = name /\ \E v \in Kept(rest) : rest' = [rest EXCEPT ![n] = v]
        /\ ub' = IF ~live THEN "null" ELSE IF n >= used THEN "bounds"
                 ELSE IF e.puts \cap dead = {} THEN ub ELSE "free"
        /\ UNCHANGED <<items, live, used, error>>
  BY Zenon DEF Repeat, Repeats
<1>2. e.op \in Repeats /\ ub = "none"
  BY EdgeTaken
<1>3. PICK v \in ItemViews :
        /\ v.g = g /\ v.at = at /\ Fit(v.facts)
        /\ WritesInside(v) /\ e \in Graph[v.g][v.at] /\ v.at \notin Ends
  BY Here
<1>4. n \in Nat /\ n \in Slots /\ n <= MaxItems
  BY Bound DEF Itemized, Numbers
<1>5. Numbers'
  BY <1>1 DEF Itemized, Numbers, items
<1>6. ASSUME NEW f \in [Slots -> 0..Blank], NEW x \in Kept(f)
      PROVE  /\ [f EXCEPT ![n] = x] \in [Slots -> 0..Blank]
             /\ \A i \in 0 .. n - 1 : [f EXCEPT ![n] = x][i] = f[i]
  <2>1. \A i \in 0 .. n - 1 : i \in Slots /\ i # n
    BY <1>4, Bound
  <2>2. x \in 0..Blank
    BY <2>1, Bound DEF Kept
  <2> QED BY <2>1, <2>2
<1>7. Arrays' /\ \A i \in 0 .. n - 1 : name'[i] = name[i] /\ rest'[i] = rest[i]
  <2>1. name \in [Slots -> 0..Blank] /\ rest \in [Slots -> 0..Blank]
    BY DEF Itemized, Arrays
  <2>2. CASE e.op = "same_name"
    <3>1. PICK x \in Kept(name) : name' = [name EXCEPT ![n] = x] /\ rest' = rest
      BY <1>1, <2>2
    <3>2. name' \in [Slots -> 0..Blank] /\ \A i \in 0 .. n - 1 : name'[i] = name[i]
      BY <1>6, <2>1, <3>1
    <3> QED BY <2>1, <3>1, <3>2 DEF Arrays
  <2>3. CASE e.op = "same_rest"
    <3>1. PICK x \in Kept(rest) : rest' = [rest EXCEPT ![n] = x] /\ name' = name
      BY <1>1, <2>3
    <3>2. rest' \in [Slots -> 0..Blank] /\ \A i \in 0 .. n - 1 : rest'[i] = rest[i]
      BY <1>6, <2>1, <3>1
    <3> QED BY <2>1, <3>1, <3>2 DEF Arrays
  <2> QED BY <1>2, <2>2, <2>3 DEF Repeats
<1>8. DefinedBehaviour'
  <2> SUFFICES ASSUME ub' # "none", ub' \notin Allowed(Hazardous, g)
               PROVE  ub' = "null" /\ ~live /\ error = "set"
    BY <1>1 DEF DefinedBehaviour, Follow
  <2>1. /\ "vector" \in v.facts \/ "set" \in v.facts
        /\ \/ "null" \in v.facts \/ "bounds" \in Allowed(Hazardous, g)
           \/ "above_n" \in v.facts
    BY <1>2, <1>3 DEF WritesInside, Repeats
  <2>2. CASE ~live
    BY <1>1, <1>3, <2>1, <2>2 DEF Fit, Pointer, Reason
  <2>3. CASE live
    <3>1. "null" \notin v.facts
      BY <1>3, <2>3 DEF Fit, Pointer
    <3>2. n >= used => "bounds" \in Allowed(Hazardous, g)
      BY <1>3, <2>1, <3>1 DEF Fit, Size, Itemized, Numbers
    <3>3. ub' = "free"
      BY <1>1, <1>2, <2>3, <3>2
    <3> QED BY <1>1, <3>3 DEF FreesHeld, Follow
  <2> QED BY <2>2, <2>3
<1>9. ASSUME ub' = "none" PROVE \E H \in Outcomes(v.facts, e) : Fit(H)'
  <2> DEFINE H == (v.facts \ {IF e.op = "same_name" THEN "named" ELSE "filled"}) \cup {"vector"}
  <2>1. H \in Outcomes(v.facts, e)
    <3>1. CASE e.op = "same_name"
      BY <3>1 DEF Outcomes
    <3>2. CASE e.op = "same_rest"
      BY <3>2 DEF Outcomes
    <3> QED BY <1>2, <3>1, <3>2 DEF Repeats
  <2>2. /\ \A f \in OnCounts \cup OnVector \cup OnSlots \cup OnError \cup {"null"} :
             f \in H => f \in v.facts
        /\ "named" \in H => e.op = "same_rest"
        /\ "filled" \in H => e.op = "same_name"
    BY <1>2 DEF Repeats, OnCounts, OnVector, OnSlots, OnError
  <2> HIDE DEF H
  <2>3. Counts(H, left, known, seen, n) /\ Size(H, known, seen, n, used)
    BY <1>3, <2>2, FewerCounts, FewerSize, Zenon DEF Fit
  <2>4. Written(H, seen, n, name', rest')
    <3>1. /\ "good" \in v.facts => Good(n, seen, name', rest')
          /\ "fresh" \in v.facts => Fresh(n, seen, name')
      BY <1>3, <1>7 DEF Fit, Written, Good, Fresh
    <3>2. ("named" \in H => name'[n] = seen - 1) /\ ("filled" \in H => rest'[n] = seen - 1)
      BY <1>1, <1>3, <2>2 DEF Fit, Written, OnSlots
    <3> QED BY <2>2, <3>1, <3>2 DEF Written, OnSlots
  <2>5. live
    BY <1>1, <1>9
  <2>6. Pointer(H)' /\ Reason(H)'
    BY <1>1, <1>3, <2>2, <2>5 DEF Fit, Pointer, Reason, OnError
  <2>7. Fit(H)'
    BY <1>1, <2>3, <2>4, <2>6 DEF Fit, items
  <2> QED BY <2>1, <2>7
<1>10. Located'
  <2>1. g' = g /\ at' \in Onto(e) /\ e.op \notin Crashes
    BY <1>1, <1>2 DEF Follow, Onto, Repeats, Crashes
  <2>2. CASE ub' = "none"
    BY <1>3, <1>5, <1>9, <2>1, <2>2, Landed
  <2>3. CASE ub' # "none"
    BY <2>3 DEF Located
  <2> QED BY <2>2, <2>3
<1> QED BY <1>5, <1>7, <1>8, <1>10 DEF Itemized

\* A statement without defined behaviour is one of the gatherers known for it.
LEMMA CrashItems ==
    ASSUME Itemized, FreesHeld', Crash PROVE Itemized'
<1>1. PICK e \in Edges(Crashes) :
        ub' = e.op /\ Follow(e) /\ UNCHANGED <<items, vector, error>>
  BY DEF Crash
<1>2. e.op \in Crashes
  BY EdgeTaken
<1>3. PICK v \in ItemViews :
        v.g = g /\ WritesInside(v) /\ e \in Graph[v.g][v.at] /\ v.at \notin Ends
  BY Here
<1>4. e.op \in Allowed(Hazardous, g)
  BY <1>2, <1>3 DEF WritesInside
<1>5. DefinedBehaviour' /\ Located'
  BY <1>1, <1>2, <1>4 DEF DefinedBehaviour, Located, Crashes, Follow
<1>6. Numbers' /\ Arrays'
  BY <1>1 DEF Itemized, Numbers, Arrays, items, vector
<1> QED BY <1>5, <1>6 DEF Itemized

\* The facts of the views are true in every run.
LEMMA ItemizedInvariant == Spec => []Itemized
<1>1. Init => Itemized
  <2> SUFFICES ASSUME Init PROVE Itemized
    OBVIOUS
  <2>1. Numbers
    BY Bound DEF Init, Numbers
  <2>2. Arrays
    BY Bound DEF Init, Arrays
  <2>3. Fit(FirstFacts(g))
    <3>1. left \in Nat /\ known = 0 /\ seen = 0 /\ n = 0 /\ live = TRUE /\ error # "set"
          /\ (g \notin DOMAIN Records => used = 0)
      BY DEF Init
    <3>2. /\ Counts(FirstFacts(g), left, known, seen, n)
          /\ Size(FirstFacts(g), known, seen, n, used)
      BY <3>1 DEF FirstFacts, Fact, Counts, Size
    <3>3. Written(FirstFacts(g), seen, n, name, rest)
      BY <3>1 DEF FirstFacts, Fact, Written, Good
    <3>4. Pointer(FirstFacts(g)) /\ Reason(FirstFacts(g))
      BY <3>1 DEF FirstFacts, Fact, Pointer, Reason
    <3> QED BY <3>2, <3>3, <3>4 DEF Fit
  <2>4. /\ StartItems(g) \in ItemViews /\ StartItems(g).g = g /\ StartItems(g).at = at
        /\ StartItems(g).facts = FirstFacts(g)
    BY ItemViewsAssumption DEF Init, StartItems
  <2>5. Located /\ DefinedBehaviour
    BY <2>3, <2>4 DEF Located, DefinedBehaviour, Init
  <2> QED BY <2>1, <2>2, <2>5 DEF Itemized
<1>2. Itemized /\ Tracked /\ Tracked' /\ [Next]_vars => Itemized'
  <2> SUFFICES ASSUME Itemized, Tracked, Tracked', [Next]_vars PROVE Itemized'
    OBVIOUS
  <2>1. FreesHeld'
    BY DEF Tracked
  <2>2. UNCHANGED vars => Itemized'
    <3> SUFFICES ASSUME UNCHANGED vars PROVE Itemized'
      OBVIOUS
    <3>1. UNCHANGED <<g, at, left, known, seen, n, live, used, name, rest, error, ub>>
      BY DEF vars, items, vector
    <3>2. Located'
      BY <3>1, FitStays DEF Itemized, Located, items, vector
    <3> QED BY <3>1, <3>2 DEF Itemized, Numbers, Arrays, DefinedBehaviour
  <2>3. Done => Itemized'
    BY <2>2 DEF Done
  <2> QED
    BY <2>1, <2>2, <2>3, PlainItems, ReturnPreviousItems, TestItems, SetErrorItems,
       SetAsideItems, AnnounceItems, NextItems, SumItems, HandOverItems, CopyItems,
       LoseItems, ResizeItems, WriteItems, RepeatItems, CrashItems DEF Next, Onward
<1> QED BY <1>1, <1>2, TrackedInvariant, PTL DEF Spec

----------------------------------------------------------------------------
(* The rest of the types, which hold after undefined behaviour too.        *)

RecordValues == {"old", "zero", "part", "mixed", "junk", "whole"}
ErrorValues == {"none", "stale", "set"}
Faults == {"none"} \cup Crashes
Place ==
    g \in DOMAIN Graph /\ at \in DOMAIN Graph[g] \cup Ends /\ held \cap dead = {}
Flags ==
    /\ Place /\ live \in BOOLEAN /\ record \in RecordValues
    /\ error \in ErrorValues /\ ub \in Faults

\* An edge leads to a label or a return, and what it acquires is not stale.
LEMMA PlaceKept ==
    ASSUME Place, NEW O, NEW e \in Edges(O), Follow(e) PROVE Place'
<1>1. e \in Graph[g][at] /\ at \in DOMAIN Graph[g] /\ g \in DOMAIN Graph
  BY EdgeTaken DEF Place
<1>2. e.to \in DOMAIN Graph[g] \cup Ends
  BY <1>1, TargetsAssumption
<1> QED BY <1>2 DEF Place, Follow

\* What a step along an edge may write to the flags.
LEMMA FlagsKept ==
    ASSUME Flags, NEW O, NEW e \in Edges(O), Follow(e), live' \in BOOLEAN,
           record' \in RecordValues, error' \in ErrorValues, ub' \in Faults
    PROVE  Flags'
BY PlaceKept DEF Flags

\* The actions that write none of the flags but ub, and that only by their releases.
LEMMA QuietFlags ==
    ASSUME Flags, Move \/ Retry \/ Test \/ Announce \/ Next_Item \/ Count \/ Copy \/ Sum_Device
    PROVE  Flags'
<1>1. \E O \in SUBSET QuietOps : \E e \in Edges(O) :
        Follow(e) /\ Releases(e) /\ UNCHANGED <<record, error, live>>
  <2>1. CASE Move
    BY <2>1 DEF Move, QuietOps, vector
  <2>2. CASE Retry
    BY <2>2 DEF Retry, QuietOps, vector
  <2>3. CASE Test
    BY <2>3 DEF Test, QuietOps, vector
  <2>4. CASE Announce
    BY <2>4 DEF Announce, QuietOps, vector
  <2>5. CASE Next_Item
    BY <2>5 DEF Next_Item, QuietOps, vector
  <2>6. CASE Count
    BY <2>6 DEF Count, QuietOps, vector
  <2>7. CASE Copy
    BY <2>7 DEF Copy, QuietOps
  <2>8. CASE Sum_Device
    BY <2>8 DEF Sum_Device, QuietOps, vector
  <2> QED BY <2>1, <2>2, <2>3, <2>4, <2>5, <2>6, <2>7, <2>8
<1>2. PICK O \in SUBSET QuietOps : \E e \in Edges(O) :
        Follow(e) /\ Releases(e) /\ UNCHANGED <<record, error, live>>
  BY <1>1
<1>3. PICK e \in Edges(O) : Follow(e) /\ Releases(e) /\ UNCHANGED <<record, error, live>>
  BY <1>2
<1>4. ub' \in Faults
  BY <1>3 DEF Releases, Flags, Faults, Crashes
<1> QED BY <1>3, <1>4, FlagsKept DEF Flags

\* The others, but for the two that take an edge in a way of their own.
LEMMA LoudFlags ==
    ASSUME Flags,
           Write \/ Repeat \/ Resize \/ Lose \/ SetAside \/ WriteRecord \/ SetError \/ Crash
    PROVE  Flags'
<1> DEFINE Ok == /\ live' \in BOOLEAN /\ record' \in RecordValues
                 /\ error' \in ErrorValues /\ ub' \in Faults
<1>1. \A e : Releases(e) => ub' \in Faults
  BY DEF Releases, Flags, Faults, Crashes
<1>2. ASSUME Write PROVE \E O : \E e \in Edges(O) : Follow(e) /\ Ok
  BY <1>2 DEF Write, Flags, Faults, Crashes
<1>3. ASSUME Resize PROVE \E O : \E e \in Edges(O) : Follow(e) /\ Ok
  BY <1>3 DEF Resize, Flags, Faults, Crashes, ErrorValues
<1>4. ASSUME Lose PROVE \E O : \E e \in Edges(O) : Follow(e) /\ Ok
  BY <1>1, <1>4 DEF Lose, Flags, ErrorValues
<1>5. ASSUME SetAside PROVE \E O : \E e \in Edges(O) : Follow(e) /\ Ok
  BY <1>1, <1>5 DEF SetAside, Flags
<1>6. ASSUME WriteRecord PROVE \E O : \E e \in Edges(O) : Follow(e) /\ Ok
  <2>1. PICK e \in Edges({"zero", "part", "junk", "fill"}) :
          /\ Follow(e) /\ Releases(e) /\ UNCHANGED <<error, live>>
          /\ record' = CASE e.op = "zero" -> "zero"
                         [] e.op = "part" -> IF record = "old" THEN "mixed" ELSE "part"
                         [] e.op = "junk" -> "junk"
                         [] e.op = "fill" -> "whole"
    BY <1>6 DEF WriteRecord, vector
  <2>2. e.op \in {"zero", "part", "junk", "fill"}
    BY EdgeTaken
  <2>3. record' \in RecordValues
    BY <2>1, <2>2 DEF RecordValues
  <2> QED BY <1>1, <2>1, <2>3 DEF Flags
<1>7. ASSUME SetError PROVE \E O : \E e \in Edges(O) : Follow(e) /\ Ok
  BY <1>1, <1>7 DEF SetError, Flags, ErrorValues, vector
<1>8. ASSUME Crash PROVE \E O : \E e \in Edges(O) : Follow(e) /\ Ok
  <2>1. PICK e \in Edges(Crashes) :
          ub' = e.op /\ Follow(e) /\ UNCHANGED <<live, record, error>>
    BY <1>8 DEF Crash, vector
  <2>2. e.op \in Faults
    BY EdgeTaken DEF Faults, Crashes
  <2> QED BY <2>1, <2>2 DEF Flags
<1>9. ASSUME Repeat PROVE \E O : \E e \in Edges(O) : Follow(e) /\ Ok
  BY <1>9 DEF Repeat, Flags, Faults, Crashes
<1>10. PICK O : \E e \in Edges(O) : Follow(e) /\ Ok
  BY <1>2, <1>3, <1>4, <1>5, <1>6, <1>7, <1>8, <1>9
<1> QED BY <1>10, FlagsKept

\* sg_get_fs_stats_int() turns to its caller's vector.
LEMMA HandOverFlags ==
    ASSUME Flags, Tracked, HandOver PROVE Flags'
<1>1. PICK e \in Edges({"handover"}) :
        /\ Follow([e EXCEPT !.gets = IF live THEN {"tmp"} ELSE {}])
        /\ live' = TRUE /\ UNCHANGED <<record, error, ub>>
  BY DEF HandOver
<1> DEFINE f == [e EXCEPT !.gets = IF live THEN {"tmp"} ELSE {}]
<1>2. e = [to |-> e.to, gets |-> e.gets, puts |-> e.puts, op |-> e.op, by |-> e.by]
  BY EdgeRecord DEF Tracked
<1>3. f.to = e.to /\ Follow(f)
  BY <1>1, <1>2
<1>4. e \in Graph[g][at] /\ at \in DOMAIN Graph[g] /\ g \in DOMAIN Graph
  BY EdgeTaken DEF Flags, Place
<1>5. e.to \in DOMAIN Graph[g] \cup Ends
  BY <1>4, TargetsAssumption
<1> HIDE DEF f
<1>6. Place'
  BY <1>3, <1>5 DEF Flags, Place, Follow
<1> QED BY <1>1, <1>6 DEF Flags

\* RETURN_FROM_PREVIOUS_ERROR()
LEMMA ReturnPreviousFlags ==
    ASSUME Flags, Tracked, ReturnPrevious PROVE Flags'
<1> DEFINE l == IF error = "none" THEN "ok" ELSE "failed"
<1>1. PICK e \in Edges({"quit"}) :
        /\ Follow([e EXCEPT !.to = l])
        /\ Releases(e) /\ UNCHANGED <<record, error, live>>
  BY DEF ReturnPrevious, vector
<1> DEFINE f == [e EXCEPT !.to = l]
<1>2. e = [to |-> e.to, gets |-> e.gets, puts |-> e.puts, op |-> e.op, by |-> e.by]
  BY EdgeRecord DEF Tracked
<1>3. f.to \in Ends /\ Follow(f)
  BY <1>1, <1>2 DEF Ends
<1> HIDE DEF f
<1>4. Place'
  BY <1>3 DEF Flags, Place, Follow
<1>5. ub' \in Faults
  BY <1>1 DEF Releases, Flags, Faults, Crashes
<1> QED BY <1>1, <1>4, <1>5 DEF Flags

LEMMA FlagsInvariant == Spec => []Flags
<1>1. Init => Flags
  <2> SUFFICES ASSUME Init PROVE Flags
    OBVIOUS
  <2>1. StartOf(g, error) \in Views /\ StartOf(g, error).g = g /\ StartOf(g, error).at = at
    BY ViewsAssumption DEF Init, StartOf
  <2>2. Place
    BY <2>1, ViewsAssumption DEF Init, Place
  <2> QED BY <2>2 DEF Init, Flags, RecordValues, ErrorValues, Faults, Crashes
<1>2. Flags /\ Tracked /\ [Next]_vars => Flags'
  <2> SUFFICES ASSUME Flags, Tracked, [Next]_vars PROVE Flags'
    OBVIOUS
  <2>1. UNCHANGED vars => Flags'
    BY DEF vars, vector, Flags, Place
  <2>2. Done => Flags'
    BY <2>1 DEF Done
  <2> QED
    BY <2>1, <2>2, QuietFlags, LoudFlags, HandOverFlags, ReturnPreviousFlags DEF Next, Onward
<1> QED BY <1>1, <1>2, TrackedInvariant, PTL DEF Spec

----------------------------------------------------------------------------
(* What the facts show of every run.                                       *)

\* Every variable of a gatherer keeps its type for every number of items: in particular no
\* gatherer counts, or makes room for, more items than the system has, and nothing is held
\* through a variable that is stale.
THEOREM GathererTypes == Spec => []TypeOK
<1>1. Itemized /\ Flags => TypeOK
  <2> SUFFICES ASSUME Itemized, Flags PROVE TypeOK
    OBVIOUS
  <2>1. /\ left \in 0..MaxItems /\ known \in 0..MaxItems /\ seen \in 0..MaxItems
        /\ n \in 0..MaxItems /\ used \in 0..MaxItems /\ left + known + seen <= MaxItems
    BY Bound DEF Itemized, Numbers
  <2> QED
    BY <2>1 DEF Itemized, Arrays, Flags, Place, Ends, RecordValues, ErrorValues, Faults, Crashes, TypeOK
<1> QED BY <1>1, ItemizedInvariant, FlagsInvariant, PTL

\* However many items there are, in whatever batches they are announced and whichever of
\* them are skipped, no gatherer writes beyond its vector or releases what it does not hold;
\* the only undefined behaviour outside the gatherers known for it is the write through the
\* NULL of an allocation that VECTOR_UPDATE() was refused.
THEOREM DefinedBehaviourHolds == Spec => []DefinedBehaviour
BY ItemizedInvariant, PTL DEF Itemized

\* However many items there are, a list that is returned without an error is exactly as long
\* as the items counted, each of them written whole from one item of the system, in order and
\* none of them twice.
THEOREM ItemsWholeHolds == Spec => []ItemsWhole
<1>1. Itemized => ItemsWhole
  <2> SUFFICES ASSUME Itemized, Succeeded, g \in DOMAIN Lists \ Patchy, live, error # "set"
               PROVE  /\ used = n
                      /\ \A s \in 0 .. n - 1 : name[s] = rest[s] /\ rest[s] # Blank
                      /\ \A s, t \in 0 .. n - 1 : s < t => name[s] < name[t]
    BY DEF ItemsWhole
  <2>1. PICK v \in ItemViews : v.g = g /\ v.at = at /\ Fit(v.facts)
    BY DEF Itemized, Located, Succeeded, Returned
  <2>2. ReturnsGood(v) /\ at = "ok"
    BY ItemsAssumption DEF Succeeded
  <2>3. {"used_is_n", "good"} \subseteq v.facts
    BY <2>1, <2>2 DEF ReturnsGood, Fit, Pointer, Reason
  <2>4. used = n /\ Good(n, seen, name, rest)
    BY <2>1, <2>3 DEF Fit, Size, Written
  <2>5. \A s \in 0 .. n - 1 : name[s] = rest[s] /\ name[s] < seen /\ name[s] \in Int
    <3> SUFFICES ASSUME NEW s \in 0 .. n - 1
                 PROVE  name[s] = rest[s] /\ name[s] < seen /\ name[s] \in Int
      OBVIOUS
    <3>1. s \in Slots
      BY Bound DEF Itemized, Numbers
    <3> QED BY <2>4, <3>1, Bound DEF Good, Itemized, Arrays
  <2>6. seen \in Nat /\ seen <= Blank /\ Blank \in Nat
    BY Bound DEF Itemized, Numbers
  <2>7. \A s \in 0 .. n - 1 : name[s] = rest[s] /\ rest[s] # Blank
    BY <2>5, <2>6
  <2> QED BY <2>4, <2>7 DEF Good
<1> QED BY <1>1, ItemizedInvariant, PTL

\* Swap space is summed over every device the system has, however many there are and in
\* whatever batches pstat_getswap() and sysctl() announce them.
THEOREM SwapSumsHold == Spec => []SwapSumsAll
<1>1. Itemized => SwapSumsAll
  <2> SUFFICES ASSUME Itemized, Succeeded, g \in {"swap_hpux", "swap_xswdev"}
               PROVE  n = left + known + seen
    BY DEF SwapSumsAll
  <2>1. PICK v \in ItemViews : v.g = g /\ v.at = at /\ Fit(v.facts)
    BY DEF Itemized, Located, Succeeded, Returned
  <2>2. SumsAll(v) /\ at = "ok"
    BY ItemsAssumption DEF Succeeded
  <2>3. {"n_is_seen", "no_known", "no_left"} \subseteq v.facts
    BY <2>1, <2>2 DEF SumsAll
  <2>4. n = seen /\ known = 0 /\ left = 0
    BY <2>1, <2>3 DEF Fit, Counts
  <2> QED BY <2>4 DEF Itemized, Numbers
<1> QED BY <1>1, ItemizedInvariant, PTL
=============================================================================
