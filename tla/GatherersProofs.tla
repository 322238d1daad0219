-------------------------- MODULE GatherersProofs --------------------------
(***************************************************************************)
(* Proofs about Gatherers for every number of items.  A run of a gatherer  *)
(* is followed through the finite set Views of GathererPaths, which leaves *)
(* the items out: each action of Gatherers is a step from a view to one of *)
(* After(View, e), e being the edge it takes.                              *)
(***************************************************************************)
EXTENDS GathererPaths, TLAPS

\* The views hold as long as the behaviour is defined; and what is undefined is never a
\* release, except in the gatherers known for it.
Viewed == ub = "none" => View \in Views
FreesHeld == ub = "free" => "free" \in Allowed(Hazardous, g)
Tracked == Viewed /\ FreesHeld

\* What a view is made of.
LEMMA ViewFields ==
    /\ View.g = g /\ View.at = at /\ View.held = held /\ View.dead = dead
    /\ View.record = record /\ View.error = error
    /\ View.ptr = IF live THEN "vector" ELSE "null"
BY DEF View

\* An edge that a step takes is one of the graph, taken with defined behaviour.
LEMMA EdgeTaken ==
    ASSUME NEW O, NEW e \in Edges(O)
    PROVE  /\ ub = "none" /\ at \notin Ends /\ e \in Graph[g][at] /\ e.op \in O
           /\ e.op \notin Crashes => e \in Ways(View)
<1>1. Running
  BY DEF Edges
<1>2. ub = "none" /\ at \notin Ends /\ e \in Graph[g][at] /\ e.op \in O
  BY <1>1 DEF Running, Edges, Ends
<1> QED BY <1>2, ViewFields DEF Ways

\* A step along an edge whose effect on the view is one the edge may have.
LEMMA StepStays ==
    ASSUME Viewed, NEW O, NEW e \in Edges(O), e.op \notin Crashes,
           at' \in Targets(View, e),
           held' = (held \ e.puts) \cup Acquired(View, e),
           dead' = (dead \cup (held \cap e.puts)) \ Acquired(View, e),
           g' = g, record' \in Contents(View, e), error' \in Errors(View, e),
           View'.ptr \in Pointers(View, e)
    PROVE  View' \in Views
<1>1. View \in Views /\ e \in Ways(View)
  BY EdgeTaken DEF Viewed
<1>2. View' = [g |-> g', at |-> at', held |-> held', dead |-> dead', record |-> record',
               error |-> error', ptr |-> View'.ptr]
  BY ViewFields DEF View
<1>3. View' \in After(View, e)
  BY <1>2, ViewFields DEF After
<1> QED BY <1>1, <1>3, ViewsAssumption

\* Outside the gatherers known for it, an edge releases nothing that is stale.
LEMMA EdgeReleases ==
    ASSUME Viewed, NEW O, NEW e \in Edges(O), "free" \notin Allowed(Hazardous, g)
    PROVE  e.puts \cap dead = {} /\ e.op # "free"
<1>1. View \in Views /\ at \notin Ends /\ e \in Graph[g][at]
  BY EdgeTaken DEF Viewed
<1>2. ReleasesHeld(View)
  BY <1>1, PathsAssumption
<1> QED BY <1>1, <1>2, ViewFields DEF ReleasesHeld

\* A step along an edge that changes neither record, error nor pointer.
QuietOps == {"none", "again", "end", "dry", "some", "found", "none_found", "exact", "loose", "all",
             "batch", "more", "next", "store", "add", "name", "name_i", "name_n", "rest", "count",
             "same_name", "same_rest", "copy", "copy_last", "sum", "last"}
LEMMA QuietStep ==
    ASSUME Tracked, NEW O, O \subseteq QuietOps, NEW e \in Edges(O), Follow(e),
           UNCHANGED <<record, error, live>>,
           ub' = "free" => e.puts \cap dead # {}
    PROVE  Tracked'
<1>1. e.op \in QuietOps
  BY EdgeTaken
<1>2. /\ e.op \notin Crashes /\ at' \in Targets(View, e)
      /\ Acquired(View, e) = e.gets /\ Contents(View, e) = {View.record}
      /\ Errors(View, e) = {View.error} /\ Pointers(View, e) = {View.ptr}
  BY <1>1 DEF QuietOps, Crashes, Targets, Acquired, Contents, Errors, Pointers, Follow
<1>3. record' \in Contents(View, e) /\ error' \in Errors(View, e)
      /\ View'.ptr \in Pointers(View, e)
  BY <1>2, ViewFields DEF View
<1>4. View' \in Views
  BY <1>2, <1>3, StepStays DEF Follow, Tracked
<1>5. FreesHeld'
  BY EdgeReleases DEF FreesHeld, Tracked, Follow
<1> QED BY <1>4, <1>5 DEF Tracked, Viewed

\* The statements, tests, items and sums that leave the record and the error alone.
LEMMA QuietActions ==
    ASSUME Tracked,
           Move \/ Retry \/ Test \/ Announce \/ Next_Item \/ Count \/ Copy \/ Sum_Device
    PROVE  Tracked'
<1>1. \E O \in SUBSET QuietOps : \E e \in Edges(O) :
        Follow(e) /\ Releases(e) /\ UNCHANGED <<record, error, live>>
  <2>1. CASE Move
    BY <2>1 DEF Move, QuietOps, vector
  <2>2. CASE Retry
    BY <2>2 DEF Retry, QuietOps, vector
  <2>3. CASE Test
    BY <2>3 DEF Test, QuietOps, vector
  <2>4. CASE Announce
    BY <2>4 DEF Announce, QuietOps, vector
  <2>5. CASE Next_Item
    BY <2>5 DEF Next_Item, QuietOps, vector
  <2>6. CASE Count
    BY <2>6 DEF Count, QuietOps, vector
  <2>7. CASE Copy
    BY <2>7 DEF Copy, QuietOps
  <2>8. CASE Sum_Device
    BY <2>8 DEF Sum_Device, QuietOps, vector
  <2> QED BY <2>1, <2>2, <2>3, <2>4, <2>5, <2>6, <2>7, <2>8
<1>2. PICK O \in SUBSET QuietOps : \E e \in Edges(O) :
        Follow(e) /\ Releases(e) /\ UNCHANGED <<record, error, live>>
  BY <1>1
<1>3. PICK e \in Edges(O) : Follow(e) /\ Releases(e) /\ UNCHANGED <<record, error, live>>
  BY <1>2
<1>4. ub' = "free" => e.puts \cap dead # {}
  BY <1>3, EdgeTaken DEF Releases
<1> QED BY <1>3, <1>4, QuietStep

\* The fields of an item.
LEMMA WriteTracked ==
    ASSUME Tracked, Write PROVE Tracked'
<1> DEFINE O == {"store", "add", "name", "name_i", "name_n", "rest"}
<1>1. PICK e \in Edges(O) :
        /\ Follow(e) /\ UNCHANGED <<record, error, live>>
        /\ ub' = "free" => e.puts \cap dead # {} \/ ub = "free"
  BY Zenon DEF Write
<1>2. O \subseteq QuietOps
  BY DEF QuietOps
<1> HIDE DEF O
<1>3. ub = "none"
  BY EdgeTaken
<1> QED BY <1>1, <1>2, <1>3, QuietStep

LEMMA RepeatTracked ==
    ASSUME Tracked, Repeat PROVE Tracked'
<1> DEFINE O == {"same_name", "same_rest"}
<1>1. PICK e \in Edges(O) :
        /\ Follow(e) /\ UNCHANGED <<record, error, live>>
        /\ ub' = "free" => e.puts \cap dead # {} \/ ub = "free"
  BY Zenon DEF Repeat
<1>2. O \subseteq QuietOps
  BY DEF QuietOps
<1> HIDE DEF O
<1>3. ub = "none"
  BY EdgeTaken
<1> QED BY <1>1, <1>2, <1>3, QuietStep

\* A resize: the pointer and the error may be anything it can leave.
LEMMA ResizeTracked ==
    ASSUME Tracked, Resize PROVE Tracked'
<1>1. PICK e \in Edges({"resize"}) :
        Follow(e) /\ record' = record /\ error' \in {error, "none"} /\ ub' # "free"
  <2>1. PICK e \in Edges({"resize"}) :
          /\ Follow(e) /\ record' = record
          /\ error' = IF live /\ NewCount(e) = 0 THEN "none" ELSE error
          /\ ub' = IF NewCount(e) < 0 THEN "bounds" ELSE ub
    BY DEF Resize
  <2>2. ub = "none"
    BY EdgeTaken
  <2> QED BY <2>1, <2>2
<1>2. e.op = "resize"
  BY EdgeTaken
<1>3. /\ at' \in Targets(View, e) /\ Acquired(View, e) = e.gets
      /\ record' \in Contents(View, e) /\ error' \in Errors(View, e)
  BY <1>1, <1>2, ViewFields DEF Targets, Acquired, Contents, Errors, Follow
<1>4. View'.ptr \in Pointers(View, e)
  BY <1>2 DEF Pointers, View
<1>5. View' \in Views
  BY <1>1, <1>2, <1>3, <1>4, StepStays DEF Follow, Tracked, Crashes
<1> QED BY <1>1, <1>5 DEF Tracked, Viewed, FreesHeld

\* An edge that a step takes is a record.
LEMMA EdgeRecord ==
    ASSUME Viewed, NEW O, NEW e \in Edges(O)
    PROVE  e = [to |-> e.to, gets |-> e.gets, puts |-> e.puts, op |-> e.op, by |-> e.by]
<1>1. View \in Views /\ at \notin Ends /\ e \in Graph[g][at]
  BY EdgeTaken DEF Viewed
<1>2. g \in DOMAIN Graph /\ at \in DOMAIN Graph[g]
  BY <1>1, ViewsAssumption, ViewFields
<1> QED BY <1>1, <1>2, EdgesAssumption

\* Any other step along an edge, with what it does to the view.
LEMMA LoudStep ==
    ASSUME Tracked, NEW O, NEW e \in Edges(O), e.op \notin Crashes, Follow(e),
           e.op \notin {"quit", "handover"},
           record' \in Contents(View, e), error' \in Errors(View, e),
           View'.ptr \in Pointers(View, e), Releases(e)
    PROVE  Tracked'
<1>1. at' \in Targets(View, e) /\ Acquired(View, e) = e.gets
  BY DEF Targets, Acquired, Follow
<1>2. View' \in Views
  BY <1>1, StepStays DEF Follow, Tracked
<1>3. FreesHeld'
  BY EdgeTaken, EdgeReleases DEF FreesHeld, Tracked, Follow, Releases
<1> QED BY <1>2, <1>3 DEF Tracked, Viewed

\* A refused allocation.
LEMMA LoseTracked ==
    ASSUME Tracked, Lose PROVE Tracked'
<1>1. PICK e \in Edges({"lost", "lost_none"}) :
        Follow(e) /\ Releases(e) /\ live' = FALSE /\ error' = "set" /\ record' = record
  BY DEF Lose
<1>2. e.op \in {"lost", "lost_none"}
  BY EdgeTaken
<1>3. record' \in Contents(View, e) /\ error' \in Errors(View, e)
  BY <1>1, <1>2, ViewFields DEF Contents, Errors
<1>4. View'.ptr \in Pointers(View, e)
  BY <1>1, <1>2 DEF Pointers, View
<1> QED BY <1>1, <1>2, <1>3, <1>4, LoudStep DEF Crashes

\* The list of sg_get_fs_stats_int() before it has a vector.
LEMMA SetAsideTracked ==
    ASSUME Tracked, SetAside PROVE Tracked'
<1>1. PICK e \in Edges({"local"}) :
        Follow(e) /\ Releases(e) /\ live' = FALSE /\ UNCHANGED <<record, error>>
  BY DEF SetAside
<1>2. e.op = "local"
  BY EdgeTaken
<1>3. record' \in Contents(View, e) /\ error' \in Errors(View, e)
  BY <1>1, <1>2, ViewFields DEF Contents, Errors
<1>4. View'.ptr \in Pointers(View, e)
  BY <1>1, <1>2 DEF Pointers, View
<1> QED BY <1>1, <1>2, <1>3, <1>4, LoudStep DEF Crashes

\* The record is written.
LEMMA WriteRecordTracked ==
    ASSUME Tracked, WriteRecord PROVE Tracked'
<1> DEFINE O == {"zero", "part", "junk", "fill"}
<1>1. PICK e \in Edges(O) :
        /\ Follow(e) /\ Releases(e) /\ UNCHANGED <<error, live>>
        /\ record' = CASE e.op = "zero" -> "zero"
                       [] e.op = "part" -> IF record = "old" THEN "mixed" ELSE "part"
                       [] e.op = "junk" -> "junk"
                       [] e.op = "fill" -> "whole"
  BY DEF WriteRecord, vector
<1>2. e.op \in O
  BY EdgeTaken
<1>3. record' \in Contents(View, e)
  <2>1. CASE e.op = "zero"
    BY <1>1, <2>1 DEF Contents
  <2>2. CASE e.op = "part"
    BY <1>1, <2>2, ViewFields DEF Contents
  <2>3. CASE e.op = "junk"
    BY <1>1, <2>3 DEF Contents
  <2>4. CASE e.op = "fill"
    BY <1>1, <2>4 DEF Contents
  <2> QED BY <1>2, <2>1, <2>2, <2>3, <2>4
<1>4. error' \in Errors(View, e) /\ e.op \notin Crashes \cup {"quit", "handover"}
  BY <1>1, <1>2, ViewFields DEF Errors, Crashes
<1>5. View'.ptr \in Pointers(View, e)
  BY <1>1, <1>2, ViewFields DEF Pointers, View
<1> HIDE DEF O
<1> QED BY <1>1, <1>3, <1>4, <1>5, LoudStep

\* sg_set_error() and sg_clear_error().
LEMMA SetErrorTracked ==
    ASSUME Tracked, SetError PROVE Tracked'
<1>1. PICK e \in Edges({"error", "clear"}) :
        /\ Follow(e) /\ Releases(e) /\ UNCHANGED <<record, live>>
        /\ error' = IF e.op = "error" THEN "set" ELSE "none"
  BY DEF SetError, vector
<1>2. e.op \in {"error", "clear"}
  BY EdgeTaken
<1>3. record' \in Contents(View, e) /\ error' \in Errors(View, e)
  BY <1>1, <1>2, ViewFields DEF Contents, Errors
<1>4. View'.ptr \in Pointers(View, e)
  BY <1>1, <1>2, ViewFields DEF Pointers, View
<1> QED BY <1>1, <1>2, <1>3, <1>4, LoudStep DEF Crashes

\* sg_get_fs_stats_int() turns to its caller's vector.
LEMMA HandOverTracked ==
    ASSUME Tracked, HandOver PROVE Tracked'
<1>1. PICK e \in Edges({"handover"}) :
        /\ Follow([e EXCEPT !.gets = IF live THEN {"tmp"} ELSE {}])
        /\ live' = TRUE /\ UNCHANGED <<record, error, ub>>
  BY DEF HandOver
<1>2. e.op = "handover" /\ ub = "none"
  BY EdgeTaken
<1>3. e = [to |-> e.to, gets |-> e.gets, puts |-> e.puts, op |-> e.op, by |-> e.by]
  BY EdgeRecord DEF Tracked
<1>4. Acquired(View, e) = IF live THEN {"tmp"} ELSE {}
  BY <1>2, ViewFields DEF Acquired
<1>5. /\ at' = e.to /\ g' = g
      /\ held' = (held \ e.puts) \cup Acquired(View, e)
      /\ dead' = (dead \cup (held \cap e.puts)) \ Acquired(View, e)
  <2> DEFINE R == IF live THEN {"tmp"} ELSE {}
             f == [e EXCEPT !.gets = R]
  <2>1. f.to = e.to /\ f.puts = e.puts /\ f.gets = R
    BY <1>3
  <2>2. Follow(f)
    BY <1>1
  <2> HIDE DEF f
  <2> QED BY <1>4, <2>1, <2>2 DEF Follow
<1>6. /\ at' \in Targets(View, e) /\ record' \in Contents(View, e)
      /\ error' \in Errors(View, e)
  BY <1>1, <1>2, <1>5, ViewFields DEF Targets, Contents, Errors
<1>7. View'.ptr \in Pointers(View, e)
  BY <1>1, <1>2 DEF Pointers, View
<1>8. View' \in Views
  BY <1>2, <1>5, <1>6, <1>7, StepStays DEF Tracked, Crashes
<1> QED BY <1>1, <1>2, <1>8 DEF Tracked, Viewed, FreesHeld

\* RETURN_FROM_PREVIOUS_ERROR()
LEMMA ReturnPreviousTracked ==
    ASSUME Tracked, ReturnPrevious PROVE Tracked'
<1> DEFINE l == IF error = "none" THEN "ok" ELSE "failed"
<1>1. PICK e \in Edges({"quit"}) :
        /\ Follow([e EXCEPT !.to = l])
        /\ Releases(e) /\ UNCHANGED <<record, error, live>>
  BY DEF ReturnPrevious, vector
<1>2. e.op = "quit" /\ ub = "none"
  BY EdgeTaken
<1>3. e = [to |-> e.to, gets |-> e.gets, puts |-> e.puts, op |-> e.op, by |-> e.by]
  BY EdgeRecord DEF Tracked
<1>4. /\ at' = l /\ g' = g
      /\ held' = (held \ e.puts) \cup e.gets
      /\ dead' = (dead \cup (held \cap e.puts)) \ e.gets
  <2> DEFINE f == [e EXCEPT !.to = l]
  <2>1. f.to = l /\ f.puts = e.puts /\ f.gets = e.gets
    BY <1>3
  <2>2. Follow(f)
    BY <1>1
  <2> HIDE DEF f
  <2> QED BY <2>1, <2>2 DEF Follow
<1>5. /\ at' \in Targets(View, e) /\ record' \in Contents(View, e)
      /\ error' \in Errors(View, e) /\ Acquired(View, e) = e.gets
  BY <1>1, <1>2, <1>4, ViewFields DEF Targets, Contents, Errors, Acquired
<1>6. View'.ptr \in Pointers(View, e)
  BY <1>1, <1>2, ViewFields DEF Pointers, View
<1>7. View' \in Views
  BY <1>2, <1>4, <1>5, <1>6, StepStays DEF Tracked, Crashes
<1>8. FreesHeld'
  BY <1>1, <1>2, <1>4, EdgeReleases DEF FreesHeld, Tracked, Releases
<1> QED BY <1>7, <1>8 DEF Tracked, Viewed

\* A statement without defined behaviour.
LEMMA CrashTracked ==
    ASSUME Tracked, Crash PROVE Tracked'
<1>1. PICK e \in Edges(Crashes) : ub' = e.op /\ Follow(e)
  BY DEF Crash
<1>2. e.op \in Crashes
  BY EdgeTaken
<1>3. ub' = "free" => "free" \in Allowed(Hazardous, g)
  BY <1>1, EdgeReleases DEF Tracked
<1> QED BY <1>1, <1>2, <1>3 DEF Tracked, Viewed, FreesHeld, Follow, Crashes

\* Every run starts at a view and stays inside the views.
LEMMA TrackedInvariant == Spec => []Tracked
<1>1. Init => Tracked
  <2> SUFFICES ASSUME Init PROVE Tracked
    OBVIOUS
  <2>1. View = StartOf(g, error) /\ g \in DOMAIN Graph /\ error \in {"none", "stale"}
    BY DEF Init, View, StartOf
  <2> QED BY <2>1, ViewsAssumption DEF Init, Tracked, Viewed, FreesHeld
<1>2. Tracked /\ [Next]_vars => Tracked'
  <2> SUFFICES ASSUME Tracked, [Next]_vars PROVE Tracked'
    OBVIOUS
  <2>1. UNCHANGED vars => Tracked'
    <3> SUFFICES ASSUME UNCHANGED vars PROVE Tracked'
      OBVIOUS
    <3>1. UNCHANGED <<g, ub>> /\ View' = View
      BY DEF vars, vector, View
    <3> QED BY <3>1 DEF Tracked, Viewed, FreesHeld
  <2>2. Done => Tracked'
    BY <2>1 DEF Done
  <2> QED
    BY <2>1, <2>2, QuietActions, WriteTracked, RepeatTracked, ResizeTracked, LoseTracked, SetAsideTracked,
       WriteRecordTracked, SetErrorTracked, HandOverTracked, ReturnPreviousTracked,
       CrashTracked DEF Next, Onward
<1> QED BY <1>1, <1>2, PTL DEF Spec

----------------------------------------------------------------------------
(* What the views show of every run.                                       *)

\* However many items the system reports and whichever call fails, a gatherer that returns
\* has closed its files, freed its buffers and unlocked the user database, apart from what
\* a failing one is known to forget.
THEOREM NothingLeftBehindHolds == Spec => []NothingLeftBehind
<1>1. Tracked => NothingLeftBehind
  <2> SUFFICES ASSUME Tracked, Returned
               PROVE  held \subseteq Static \cup
                        (IF at = "failed" THEN Allowed(Forgotten, g) ELSE {})
    BY DEF NothingLeftBehind
  <2>1. View \in Views /\ at \in Ends
    BY DEF Tracked, Viewed, Returned, Running, Ends
  <2>2. LeavesNothing(View)
    BY <2>1, PathsAssumption
  <2> QED BY <2>1, <2>2, ViewFields DEF LeavesNothing
<1> QED BY <1>1, TrackedInvariant, PTL

\* A gatherer that fails has set the error itself, for every number of items: what
\* RETURN_FROM_PREVIOUS_ERROR() returns is never an error of an earlier call, apart from the
\* gatherers known for that.
THEOREM FailureSaysWhyHolds == Spec => []FailureSaysWhy
<1>1. Tracked => FailureSaysWhy
  <2> SUFFICES ASSUME Tracked, Failed, g \notin Speechless PROVE error = "set"
    BY DEF FailureSaysWhy
  <2>1. View \in Views /\ at = "failed"
    BY DEF Tracked, Viewed, Failed, Returned, Running
  <2>2. SaysWhy(View)
    BY <2>1, PathsAssumption
  <2> QED BY <2>1, <2>2, ViewFields DEF SaysWhy
<1> QED BY <1>1, TrackedInvariant, PTL

\* A record that is returned was written whole by the call, whatever the number of devices,
\* processors or lines it is put together from; the fifteen gatherers that may return another are
\* named with what they return.
THEOREM RecordWholeHolds == Spec => []RecordWhole
<1>1. Tracked => RecordWhole
  <2> SUFFICES ASSUME Tracked, Succeeded, g \in DOMAIN Records
               PROVE  record \in {"whole"} \cup Allowed(Incomplete, g)
    BY DEF RecordWhole
  <2>1. View \in Views /\ at = "ok"
    BY DEF Tracked, Viewed, Succeeded, Returned, Running
  <2>2. Fills(View)
    BY <2>1, PathsAssumption
  <2> QED BY <2>1, <2>2, ViewFields DEF Fills
<1> QED BY <1>1, TrackedInvariant, PTL

\* The part of DefinedBehaviour that is about releases: no file, buffer or lock is released
\* twice or without being held, outside the gatherers known for it.
THEOREM FreesHeldHolds == Spec => []FreesHeld
BY TrackedInvariant, PTL DEF Tracked
=============================================================================
