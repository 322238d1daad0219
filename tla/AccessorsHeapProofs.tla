------------------------- MODULE AccessorsHeapProofs -------------------------
(***************************************************************************)
(* Proofs about Accessors that rest on which vectors are on the heap: no   *)
(* pointer outlives its vector, no vector outlives its pointers, and the   *)
(* lists the application holds come from samples gathered to their end.    *)
(* The invariant Room of AccessorsProofs (the size of each vector and      *)
(* where in a call it exists) carries all of them.                         *)
(***************************************************************************)
EXTENDS AccessorsProofs, FiniteSetTheorems

----------------------------------------------------------------------------
(* The types.                                                              *)

\* The variables that Room says nothing of.
Plain ==
    /\ whole \subseteq Slots
    /\ pc \in Labels
    /\ call \in {"get", "get_r", "diff", "between"}
    /\ old \in Slots \cup {NoSlot}
    /\ rc \in {"NONE", "GATHER", "MALLOC"}
    /\ err \in {"NONE", "GATHER", "MALLOC", "INVALID_ARGUMENT"}
    /\ ub \in {"none", "null pointer", "use after free", "double free"}

\* A call has succeeded or not.
Told == ok \in BOOLEAN

\* The blocks on the heap have a number.
Counted == heap \in Int

\* A vector with room and the two other pointers are of the type of pointers.
LEMMA TypesFromRoom == Room /\ Plain /\ Told /\ Counted => TypeOK
<1> SUFFICES ASSUME Room, Plain, Told, Counted PROVE TypeOK
  OBVIOUS
<1>1. \A s \in Slots : vec[s] \in Vectors(MaxItems) \cup {Null, Gone}
  BY DEF Room, Shape, Pointer, Roomy
<1>2. vec \in [Slots -> Vectors(MaxItems) \cup {Null, Gone}]
  BY <1>1 DEF Room, Shape
<1> QED
  BY <1>2 DEF Plain, Told, Counted, TypeOK, Room, Shape

\* 1 for a vector on the heap.
One(v) == IF Live(v) THEN 1 ELSE 0

\* What a step that frees one slot gives back, and one that frees two.
LEMMA FreedOne ==
    ASSUME NEW s \in Slots
    PROVE  Freed({s}) = One(vec[s])
<1> DEFINE S == {x \in {s} : Live(vec[x])}
<1>1. CASE Live(vec[s])
  <2>1. S = {s}
    BY <1>1
  <2> QED BY <1>1, <2>1, FS_Singleton DEF Freed, One
<1>2. CASE ~Live(vec[s])
  <2>1. S = {}
    BY <1>2
  <2> QED BY <1>2, <2>1, FS_EmptySet DEF Freed, One
<1> QED BY <1>1, <1>2

\* ... and one that frees two.
LEMMA FreedTwo ==
    ASSUME NEW s \in Slots, NEW x \in Slots, s # x
    PROVE  Freed({s, x}) = One(vec[s]) + One(vec[x])
<1> DEFINE S == {z \in {s, x} : Live(vec[z])}
           T == {z \in {s} : Live(vec[z])}
<1>1. IsFiniteSet(T) /\ Cardinality(T) = One(vec[s]) /\ x \notin T
  <2>1. IsFiniteSet({s})
    BY FS_Singleton
  <2>2. IsFiniteSet(T)
    BY <2>1, FS_Subset
  <2> QED BY <2>2, FreedOne DEF Freed
<1>2. CASE Live(vec[x])
  <2>1. S = T \cup {x}
    BY <1>2
  <2>2. Cardinality(S) = Cardinality(T) + 1
    BY <1>1, <2>1, FS_AddElement
  <2> QED BY <1>1, <1>2, <2>2 DEF Freed, One
<1>3. CASE ~Live(vec[x])
  <2>1. S = T
    BY <1>3
  <2> QED BY <1>1, <1>3, <2>1 DEF Freed, One
<1> QED BY <1>2, <1>3

\* Every step adds or gives back a number of blocks.
LEMMA CountedNext ==
    ASSUME Room, Counted, [Next]_vars PROVE Counted'
<1>1. Shape /\ tgt \in Slots /\ (\A s \in Slots : One(vec[s]) \in Int)
  BY DEF Room, Shape, One
<1>2. /\ "now" \in Slots /\ "diff" \in Slots /\ "last" \in Slots /\ "list" \in Slots
  BY SlotsDiffer
<1>3. LastBlocks \in Int /\ Freed({tgt}) \in Int /\ Freed({"list"}) \in Int
  BY <1>1, <1>2, FreedOne DEF LastBlocks
<1>4. Freed({"now", "diff"}) \in Int
  <2>1. Freed({"now", "diff"}) = One(vec["now"]) + One(vec["diff"])
    BY <1>2, FreedTwo, "now" # "diff", Zenon
  <2> QED BY <1>1, <1>2, <2>1
<1>5. FsValid => Freed({tgt, "list"}) \in Int
  <2>1. FsValid => tgt # "list"
    BY SlotsDiffer DEF FsValid, Ready, Room, Where
  <2>2. tgt # "list" => Freed({tgt, "list"}) = One(vec[tgt]) + One(vec["list"])
    BY <1>1, <1>2, FreedTwo, Zenon
  <2> QED BY <1>1, <1>2, <2>1, <2>2
<1>6. \/ heap' = heap \/ heap' = heap + 1 \/ heap' = heap - 1
      \/ heap' = heap - LastBlocks \/ heap' = heap - LastBlocks - 1
      \/ heap' = heap - Freed({tgt}) \/ heap' = heap - Freed({"list"})
      \/ heap' = heap - Freed({"now", "diff"})
      \/ FsValid /\ heap' = heap - Freed({tgt, "list"})
  BY Zenon DEF Next, vars, CallGet, GetStart, GatherItem, GatherEnd, FsValid, Gathered, CallDiff,
     CloneLast, Compute, ThreadEnd, CallGetR, FreeBuf, CallBetween
<1> QED
  BY <1>3, <1>4, <1>5, <1>6 DEF Counted

\* Every step keeps the plain types.
LEMMA PlainNext ==
    ASSUME Room, Plain, [Next]_vars PROVE Plain'
<1>1. tgt \in Slots
  BY DEF Room, Shape
<1>2. /\ "now" \in Slots /\ "diff" \in Slots /\ "last" \in Slots
      /\ \A u \in Users : u \in Slots
  BY SlotsDiffer
<1>3. CASE UNCHANGED vars
  BY <1>3 DEF vars, locals, Plain
<1>4. CASE CallGet
  BY <1>4 DEF CallGet, Goto, Ready, locals, Plain, Labels
<1>5. CASE GetStart
  BY <1>5 DEF GetStart, GatherInto, FailMalloc, Return, Plain, Labels
<1>6. CASE GatherItem
  BY <1>6 DEF GatherItem, locals, Plain
<1>7. CASE GatherEnd
  BY <1>1, <1>7 DEF GatherEnd, Goto, Plain, Labels
<1>8. CASE FsValid
  BY <1>1, <1>8 DEF FsValid, Goto, Plain, Labels
<1>9. CASE Gathered
  <2>1. err' \in {"NONE", "GATHER", "MALLOC", "INVALID_ARGUMENT"}
    BY <1>9 DEF Gathered, ErrAfter, Plain
  <2>2. CASE Goto("compute") /\ UNCHANGED <<locals, ok>>
    BY <1>9, <2>1, <2>2 DEF Gathered, Goto, locals, Plain, Labels
  <2>3. CASE Return(rc = "NONE")
    BY <1>9, <2>1, <2>3 DEF Gathered, Return, Plain, Labels
  <2> QED BY <1>9, <2>2, <2>3 DEF Gathered
<1>10. CASE CallDiff
  BY <1>10 DEF CallDiff, Goto, FailMalloc, Return, locals, Plain, Labels
<1>11. CASE CloneLast
  BY <1>2, <1>11 DEF CloneLast, Goto, FailMalloc, Return, Plain, Labels
<1>12. CASE Compute
  <2>1. Dest \in Slots
    BY <1>1, <1>2 DEF Dest
  <2>2. /\ whole' \subseteq Slots
        /\ err' \in {"NONE", "GATHER", "MALLOC", "INVALID_ARGUMENT"}
        /\ ub' \in {"none", "null pointer", "use after free", "double free"}
    BY <1>12, <2>1 DEF Compute, Plain
  <2>3. /\ pc' \in Labels /\ old' \in Slots \cup {NoSlot}
        /\ rc' \in {"NONE", "GATHER", "MALLOC"}
    BY <1>12 DEF Compute, Return, locals, Plain, Labels
  <2> QED BY <1>12, <2>2, <2>3 DEF Compute, Plain
<1>13. CASE ThreadEnd
  BY <1>13 DEF ThreadEnd, locals, Plain
<1>14. ASSUME NEW u \in Users, CallGetR(u) PROVE Plain'
  BY <1>14 DEF CallGetR, GatherInto, FailMalloc, Return, Plain, Labels
<1>15. ASSUME NEW u \in Users, FreeBuf(u) PROVE Plain'
  BY <1>15 DEF FreeBuf, locals, Plain
<1>16. ASSUME NEW u \in Users, NEW c \in Results, NEW l \in Results, CallBetween(u, c, l)
       PROVE  Plain'
  <2>1. l \in Slots \cup {NoSlot}
    BY <1>2 DEF Results
  <2> QED BY <1>16, <2>1 DEF CallBetween, Goto, FailMalloc, Return, Plain, Labels
<1> QED
  BY <1>3, <1>4, <1>5, <1>6, <1>7, <1>8, <1>9, <1>10, <1>11, <1>12, <1>13, <1>14, <1>15,
     <1>16 DEF Next

\* Every call says whether it has succeeded.
LEMMA ToldNext ==
    ASSUME Told, [Next]_vars PROVE Told'
<1>1. CASE ok' = ok
  BY <1>1 DEF Told
<1>2. CASE ok' \in BOOLEAN
  BY <1>2 DEF Told
<1>3. ok' = ok \/ ok' = TRUE \/ ok' = FALSE \/ ok' = (rc = "NONE")
  BY Zenon DEF Next, vars, locals, CallGet, GetStart, GatherInto, FailMalloc, Return, GatherItem,
     GatherEnd, FsValid, Gathered, CallDiff, CloneLast, Compute, ThreadEnd, CallGetR,
     FreeBuf, CallBetween
<1> QED BY <1>1, <1>2, <1>3, Zenon

\* Every variable of a thread's calls stays in its type, and a pointer is NULL, dangling or
\* that of a vector whose block is one of the powers of two, through every sequence of calls.
THEOREM AccessorsTypes ==
    ASSUME Kind = "each" => MinItems > 0
    PROVE  Spec => []TypeOK
<1>1. Init => Room /\ Plain /\ Told /\ Counted
  <2>1. Init => Plain /\ Told /\ Counted
    BY DEF Init, Plain, Told, Counted, Labels
  <2> QED BY <2>1, RoomInit
<1>2. Room /\ Plain /\ Told /\ Counted /\ [Next]_vars
        => (Room /\ Plain /\ Told /\ Counted)'
  BY RoomNext, PlainNext, ToldNext, CountedNext
<1>3. Room /\ Plain /\ Told /\ Counted => TypeOK
  BY TypesFromRoom
<1> QED BY <1>1, <1>2, <1>3, PTL DEF Spec

----------------------------------------------------------------------------
(* Dangling pointers.                                                      *)

\* The steps of sg_get_X_stats_diff() between sg_vector_clone() and sg_vector_free( last ).
Comparing == call = "diff" /\ pc \in {"get", "gather", "valid", "gathered", "compute"}

\* Every slot holds NULL or a vector; the difference is of the thread's two samples, the
\* later of which exists when its gatherer starts, or goes into a vector without items.
Sound ==
    /\ \A s \in Slots : vec[s].st # "gone"
    /\ Comparing => cur = "now" /\ old = "last"
    /\ call = "diff" /\ pc = "get" => Live(vec["now"])
    /\ pc = "compute" /\ call = "between" => vec[tgt].used = 0

\* Undefined behaviour of the kind nothing reaches, and the label it is not met at.
Dangling == ub # "use after free" /\ (ub # "none" => pc # "idle")

Lasting == Room /\ Dangling /\ (ub = "none" => Sound)

\* The slots outside ss keep their pointers.
Kept(ss) == \A x \in Slots \ ss : vec'[x] = vec[x]

\* A pointer to a vector is none to a freed one.
LEMMA RoomyIsLive ==
    /\ \A v : Roomy(v) => Live(v) /\ v.st # "gone"
    /\ ~Live(Null) /\ Null.st # "gone"
BY DEF Roomy, Vectors, Live, Null

\* A slot that holds no dangling pointer is empty or has a vector.
LEMMA SoundPointer ==
    ASSUME Room, Sound, NEW s \in Slots
    PROVE  vec[s] = Null \/ (Live(vec[s]) /\ Roomy(vec[s]))
BY RoomyIsLive DEF Room, Shape, Sound, Pointer, Gone, Null

\* sg_get_X_stats() has a vector with room to gather into, or fails without one.
LEMMA GetStartMoves ==
    ASSUME Room, GetStart
    PROVE  \/ vec' = vec /\ heap' = heap /\ FailMalloc /\ vec["now"] = Null
           \/ /\ GatherInto("now") /\ Roomy(vec'["now"]) /\ Kept({"now"})
              /\ \/ vec["now"] = Null /\ heap' = heap + 1
                 \/ Live(vec["now"]) /\ heap' = heap
<1>1. Shape /\ "now" \in Slots
  BY SlotsDiffer DEF Room
<1>2. Roomy(Fresh) /\ (Live(vec["now"]) => Roomy(Cleared(vec["now"])))
  BY <1>1, FreshIsRoomy, PointerFacts, ClearedIsRoomy DEF Shape
<1>3. ASSUME NEW v, Roomy(v), Set("now", v) PROVE vec'["now"] = v /\ Kept({"now"})
  BY <1>1, <1>3, StorePointer DEF Set, Kept, Pointer
<1>4. CASE vec["now"] = Null /\ Set("now", Fresh) /\ heap' = heap + 1 /\ GatherInto("now")
  BY <1>2, <1>3, <1>4
<1>5. CASE Live(vec["now"]) /\ Set("now", Cleared(vec["now"])) /\ heap' = heap
           /\ GatherInto("now")
  BY <1>2, <1>3, <1>5
<1> QED BY <1>4, <1>5, Zenon DEF GetStart

\* So does sg_get_X_stats_r().
LEMMA CallGetRMoves ==
    ASSUME Room, NEW u \in Users, CallGetR(u)
    PROVE  \/ vec' = vec /\ heap' = heap /\ FailMalloc
           \/ /\ GatherInto(u) /\ Roomy(vec'[u]) /\ Kept({u})
              /\ vec[u] = Null /\ heap' = heap + 1
<1>1. Shape /\ u \in Slots
  BY SlotsDiffer DEF Room
<1>2. Set(u, Fresh) => vec'[u] = Fresh /\ Kept({u})
  BY <1>1, FreshIsRoomy, StorePointer DEF Set, Kept, Pointer
<1> QED BY <1>2, FreshIsRoomy, Zenon DEF CallGetR

\* VECTOR_UPDATE() keeps a vector or makes one, unless its NULL is written through.
LEMMA GatherItemMoves ==
    ASSUME Room, GatherItem, ub' = "none"
    PROVE  /\ Into \in Slots /\ Roomy(vec'[Into]) /\ Kept({Into})
           /\ heap' = IF Live(vec[Into]) THEN heap ELSE heap + 1
<1> DEFINE v == vec[Into]
           n == v.used + 1
<1>1. Shape /\ Into \in Slots
  BY SlotsDiffer DEF Room, Shape, Into
<1>2. Pointer(v) /\ v.used \in 0..MaxItems /\ (Live(v) => Roomy(v))
  BY <1>1, PointerFacts DEF Shape
<1>3. /\ Set(Into, Updated(v, n)) /\ n <= MaxItems
      /\ heap' = IF Live(v) THEN heap ELSE heap + 1
  BY Zenon DEF GatherItem
<1>4. n \in Nat /\ n >= 1 /\ n \in 1..MaxItems /\ 0 \in 0..MaxItems /\ n \in 0..MaxItems
  BY <1>2, <1>3, Sizes
<1>5. Roomy(Updated(v, n))
  <2>1. CASE Live(v)
    BY <1>2, <1>4, <2>1, ResizedIsRoomy DEF Updated
  <2>2. CASE ~Live(v)
    BY <1>3, <1>4, <2>2, CreatedIsRoomy DEF Updated
  <2> QED BY <2>1, <2>2
<1>6. vec'[Into] = Updated(v, n) /\ Kept({Into})
  BY <1>1, <1>3, <1>5, StorePointer DEF Set, Kept, Pointer
<1> QED BY <1>1, <1>3, <1>5, <1>6

\* The list of sg_get_fs_stats_int() is gone when it returns; its caller's vector is there,
\* or has been freed.  Only a failed allocation forgets to free the list.
LEMMA FsValidMoves ==
    ASSUME Room, FsValid
    PROVE  /\ tgt # "list" /\ vec'["list"] = Null /\ Kept({tgt, "list"})
           /\ \/ vec'[tgt] = Null /\ heap' = heap - Freed({tgt, "list"}) /\ rc' = rc
              \/ /\ Roomy(vec'[tgt]) /\ heap' = heap - Freed({"list"})
                 /\ rc' = rc /\ rc = "NONE" /\ whole' = whole \cup {tgt}
              \/ OOM /\ vec'[tgt] = Null /\ rc' = "MALLOC"
           /\ whole \subseteq whole'
<1>1. Shape /\ tgt \in Slots /\ "list" \in Slots /\ tgt # "list" /\ Roomy(vec[tgt])
  BY SlotsDiffer, PointerFacts DEF Room, Shape, Where, FsValid, Ready
<1>2. ASSUME NEW v, Pointer(v), vec' = [vec EXCEPT ![tgt] = v, !["list"] = Null]
      PROVE  vec'[tgt] = v /\ vec'["list"] = Null /\ Kept({tgt, "list"})
  BY <1>1, <1>2, NullIsPointer, StorePointers DEF Kept
<1>3. PICK n \in 0..MaxItems :
        /\ rc # "NONE" => n = 0
        /\ \/ /\ vec' = [vec EXCEPT ![tgt] = Null, !["list"] = Null]
              /\ heap' = heap - Freed({tgt, "list"}) /\ UNCHANGED <<rc, whole>>
           \/ /\ n > 0 /\ vec' = [vec EXCEPT ![tgt] = Resized(@, n), !["list"] = Null]
              /\ heap' = heap - Freed({"list"}) /\ rc' = rc /\ whole' = whole \cup {tgt}
           \/ /\ OOM /\ vec' = [vec EXCEPT ![tgt] = Null, !["list"] = Null]
              /\ rc' = "MALLOC" /\ whole' = whole
  BY Zenon DEF FsValid, Emptied
<1>4. CASE /\ vec' = [vec EXCEPT ![tgt] = Null, !["list"] = Null]
           /\ heap' = heap - Freed({tgt, "list"}) /\ UNCHANGED <<rc, whole>>
  BY <1>1, <1>2, <1>4, NullIsPointer
<1>5. CASE /\ n > 0 /\ vec' = [vec EXCEPT ![tgt] = Resized(@, n), !["list"] = Null]
           /\ heap' = heap - Freed({"list"}) /\ rc' = rc /\ whole' = whole \cup {tgt}
  <2>1. n \in 1..MaxItems /\ rc = "NONE"
    BY <1>3, <1>5, Sizes
  <2>2. Roomy(Resized(vec[tgt], n))
    BY <1>1, <2>1, ResizedIsRoomy
  <2>3. vec' = [vec EXCEPT ![tgt] = Resized(vec[tgt], n), !["list"] = Null]
    BY <1>1, <1>5 DEF Shape
  <2>4. vec'[tgt] = Resized(vec[tgt], n) /\ vec'["list"] = Null /\ Kept({tgt, "list"})
    BY <1>2, <2>2, <2>3 DEF Pointer
  <2> QED BY <1>1, <1>5, <2>1, <2>2, <2>4
<1>6. CASE /\ OOM /\ vec' = [vec EXCEPT ![tgt] = Null, !["list"] = Null]
           /\ rc' = "MALLOC" /\ whole' = whole
  BY <1>1, <1>2, <1>6, NullIsPointer
<1> QED BY <1>3, <1>4, <1>5, <1>6

\* Only a vector made for the application is freed when its gatherer has failed.
LEMMA GatheredMoves ==
    ASSUME Room, Gathered
    PROVE  \/ /\ call = "get_r" /\ rc # "NONE" /\ pc' = "idle" /\ vec'[tgt] = Null
              /\ Kept({tgt}) /\ heap' = heap - Freed({tgt})
           \/ (call # "get_r" \/ rc = "NONE") /\ vec' = vec /\ heap' = heap
<1>1. Shape /\ tgt \in Slots
  BY DEF Room, Shape
<1>2. Set(tgt, Null) => vec'[tgt] = Null /\ Kept({tgt})
  BY <1>1, NullIsPointer, StorePointer DEF Set, Kept
<1>3. call = "get_r" => pc' = "idle"
  BY DEF Gathered, Return
<1> QED BY <1>2, <1>3, Zenon DEF Gathered

\* sg_get_X_stats_diff() makes the vector of the difference the first time.
LEMMA CallDiffMoves ==
    ASSUME Room, CallDiff
    PROVE  \/ vec' = vec /\ heap' = heap
           \/ /\ vec["diff"] = Null /\ Roomy(vec'["diff"]) /\ Kept({"diff"})
              /\ heap' = heap + 1 /\ call' = "diff" /\ pc' = "clone"
<1>1. Shape /\ Where /\ pc = "idle" /\ "now" \in Slots /\ "diff" \in Slots
  BY SlotsDiffer DEF Room, CallDiff, Ready
<1> DEFINE v == Created(vec["now"].used, vec["now"].used, 0)
<1>2. Live(vec["now"]) => Roomy(v)
  <2>1. Live(vec["now"]) => vec["now"].used \in 0..MaxItems /\ vec["now"].used >= 1
    BY <1>1, PointerFacts DEF Shape, Where
  <2> QED BY <2>1, Sizes, CreatedIsRoomy
<1>3. Roomy(v) /\ Set("diff", v) => vec'["diff"] = v /\ Kept({"diff"})
  BY <1>1, StorePointer DEF Set, Kept, Pointer
<1> HIDE DEF v
<1>4. \/ vec' = vec /\ heap' = heap
      \/ /\ Live(vec["now"]) /\ vec["diff"] = Null /\ Set("diff", v)
         /\ heap' = heap + 1 /\ call' = "diff" /\ pc' = "clone"
  BY Zenon DEF CallDiff, Goto, v
<1> QED BY <1>2, <1>3, <1>4, Zenon

\* The clone of the last sample.
LEMMA CloneLastMoves ==
    ASSUME Room, CloneLast
    PROVE  \/ vec' = vec /\ heap' = heap /\ whole' = whole /\ FailMalloc
           \/ /\ Roomy(vec'["last"]) /\ Kept({"last"}) /\ heap' = heap + 1
              /\ cur' = "now" /\ old' = "last" /\ pc' = "get"
              /\ \A u \in Users : u \in whole => u \in whole'
<1>1. Shape /\ Live(vec["now"]) /\ "now" \in Slots /\ "last" \in Slots
      /\ \A u \in Users : u # "last"
  BY SlotsDiffer DEF Room, Where, CloneLast, Ready
<1>2. Roomy(CloneOf(vec["now"]))
  BY <1>1, PointerFacts, CloneIsRoomy DEF Shape
<1>3. Set("last", CloneOf(vec["now"])) =>
        vec'["last"] = CloneOf(vec["now"]) /\ Kept({"last"})
  BY <1>1, <1>2, StorePointer DEF Set, Kept, Pointer
<1>4. CASE vec' = vec /\ heap' = heap /\ whole' = whole /\ FailMalloc
  BY <1>4
<1>5. CASE /\ Set("last", CloneOf(vec["now"])) /\ heap' = heap + 1
           /\ whole' = IF "now" \in whole THEN whole \cup {"last"} ELSE whole \ {"last"}
           /\ cur' = "now" /\ old' = "last" /\ pc' = "get"
  <2>1. \A u \in Users : u \in whole => u \in whole'
    BY <1>1, <1>5
  <2> QED BY <1>2, <1>3, <1>5, <2>1
<1> QED BY <1>4, <1>5, Zenon DEF CloneLast, Goto

\* sg_get_X_stats_diff_between() starts with a vector without items.
LEMMA CallBetweenMoves ==
    ASSUME Room, NEW u \in Users, NEW c \in Results, NEW l \in Results, CallBetween(u, c, l)
    PROVE  \/ vec' = vec /\ heap' = heap /\ FailMalloc
           \/ /\ vec[u] = Null /\ Roomy(vec'[u]) /\ vec'[u].used = 0 /\ Kept({u})
              /\ heap' = heap + 1 /\ tgt' = u /\ cur' = c /\ old' = l /\ pc' = "compute"
<1>1. Shape /\ u \in Slots
  BY SlotsDiffer DEF Room
<1>2. Roomy(Created(1, 1, 0)) /\ Created(1, 1, 0).used = 0
  BY CreatedIsRoomy, BlocksAssumption, Sizes
<1>3. Set(u, Created(1, 1, 0)) => vec'[u] = Created(1, 1, 0) /\ Kept({u})
  BY <1>1, <1>2, StorePointer DEF Set, Kept, Pointer
<1>4. CASE vec' = vec /\ heap' = heap /\ FailMalloc
  BY <1>4
<1>5. CASE /\ Set(u, Created(1, 1, 0)) /\ heap' = heap + 1 /\ vec[u] = Null
           /\ tgt' = u /\ cur' = c /\ old' = l /\ pc' = "compute"
  BY <1>2, <1>3, <1>5
<1> QED BY <1>4, <1>5, Zenon DEF CallBetween, Goto

\* sg_vector_compute_diff() never resizes its target to nothing: the thread's new sample
\* has items when it exists, and the vector that _between() starts with has none.
LEMMA NeverToNothing ==
    ASSUME Lasting, Ready("compute"), CurLive
    PROVE  vec[Dest].used # 0 => vec[cur].used > 0
<1>1. Shape /\ Where /\ Sound /\ pc = "compute"
  BY DEF Lasting, Room, Ready
<1>2. CASE call = "diff"
  <2>1. cur = "now"
    BY <1>1, <1>2 DEF Sound, Comparing
  <2>2. vec["now"].used \in 0..MaxItems /\ vec["now"].used >= 1
    BY <1>1, <2>1, SlotsDiffer, PointerFacts DEF Shape, Where, CurLive
  <2> QED BY <2>1, <2>2, Sizes
<1>3. CASE call # "diff"
  BY <1>1, <1>3 DEF Where, Sound, Dest
<1> QED BY <1>2, <1>3

\* What sg_get_X_stats_diff() and _between() leave: a difference, or no vector when they
\* fail; `last' is freed either way.  Only the failed resize frees its vector twice.
LEMMA ComputeMoves ==
    ASSUME Lasting, Compute
    PROVE  \/ /\ pc' = "idle" /\ ub' = ub /\ Dest \in Slots /\ Dest # "last"
              /\ Live(vec[Dest]) /\ Kept({Dest, "last"})
              /\ vec'["last"] = IF call = "diff" THEN Null ELSE vec["last"]
              /\ \/ /\ CurLive /\ Roomy(vec'[Dest]) /\ heap' = heap - LastBlocks
                    /\ whole' = IF cur \in whole /\ (old # NoSlot => old \in whole)
                                THEN whole \cup {Dest} ELSE whole \ {Dest}
                 \/ /\ vec'[Dest] = Null /\ heap' = heap - LastBlocks - 1
                    /\ whole' = whole
           \/ ub' = "double free" /\ pc' = "compute"
<1> DEFINE d == vec[Dest]
           c == vec[cur]
<1>1. Shape /\ Where /\ Sound /\ ub = "none" /\ pc = "compute" /\ Ready("compute")
  BY DEF Compute, Ready, Lasting, Room
<1>2. /\ Dest \in Slots /\ Dest # "last" /\ Roomy(d) /\ Live(d) /\ "last" \in Slots
  BY <1>1, SlotsDiffer, PointerFacts DEF Where, Shape, Dest
<1>3. ASSUME NEW v, Pointer(v), vec' = LastFreed([vec EXCEPT ![Dest] = v])
      PROVE  /\ vec'[Dest] = v /\ Kept({Dest, "last"})
             /\ vec'["last"] = IF call = "diff" THEN Null ELSE vec["last"]
  <2>1. CASE call = "diff"
    <3>1. vec' = [[vec EXCEPT ![Dest] = v] EXCEPT !["last"] = Null]
      BY <1>3, <2>1 DEF LastFreed
    <3>2. vec'[Dest] = v /\ vec'["last"] = Null /\ Kept({Dest, "last"})
      <4>1. Shape /\ Dest \in Slots /\ "last" \in Slots /\ Dest # "last"
        BY <1>1, <1>2
      <4> QED BY <3>1, <4>1 DEF Shape, Kept
    <3> QED BY <2>1, <3>2
  <2>2. CASE call # "diff"
    <3>1. vec' = [vec EXCEPT ![Dest] = v]
      BY <1>3, <2>2 DEF LastFreed
    <3> QED BY <1>1, <1>2, <1>3, <2>2, <3>1, StorePointer DEF Kept
  <2> QED BY <2>1, <2>2
<1>4. CurLive /\ c.used > 0 => Roomy(Resized(d, c.used))
  <2>1. CurLive => c.used \in 0..MaxItems
    BY <1>1, PointerFacts DEF Shape, CurLive
  <2>2. CurLive /\ c.used > 0 => c.used \in 1..MaxItems
    BY <2>1, Sizes
  <2> QED BY <2>2, <1>2, ResizedIsRoomy
<1>5. ~(CurLive /\ d.used # 0 /\ c.used = 0)
  <2>1. CurLive => (d.used # 0 => c.used > 0)
    BY <1>1, NeverToNothing
  <2> QED BY <2>1
<1> DEFINE Sum == IF cur \in whole /\ (old # NoSlot => old \in whole)
                  THEN whole \cup {Dest} ELSE whole \ {Dest}
<1>6. \/ /\ CurLive /\ vec' = LastFreed([vec EXCEPT ![Dest] = d])
         /\ pc' = "idle" /\ ub' = ub /\ heap' = heap - LastBlocks /\ whole' = Sum
      \/ /\ CurLive /\ c.used > 0 /\ vec' = LastFreed([vec EXCEPT ![Dest] = Resized(d, c.used)])
         /\ pc' = "idle" /\ ub' = ub /\ heap' = heap - LastBlocks /\ whole' = Sum
      \/ /\ vec' = LastFreed([vec EXCEPT ![Dest] = Null])
         /\ pc' = "idle" /\ ub' = ub /\ heap' = heap - LastBlocks - 1 /\ whole' = whole
      \/ CurLive /\ d.used # 0 /\ c.used = 0
      \/ ub' = "double free" /\ pc' = pc
  BY Zenon DEF Compute, Return
<1> HIDE DEF Sum
<1>7. CASE /\ CurLive /\ vec' = LastFreed([vec EXCEPT ![Dest] = d])
           /\ pc' = "idle" /\ ub' = ub /\ heap' = heap - LastBlocks /\ whole' = Sum
  BY <1>2, <1>3, <1>7, Zenon DEF Pointer, Sum
<1>8. CASE /\ CurLive /\ c.used > 0
           /\ vec' = LastFreed([vec EXCEPT ![Dest] = Resized(d, c.used)])
           /\ pc' = "idle" /\ ub' = ub /\ heap' = heap - LastBlocks /\ whole' = Sum
  BY <1>2, <1>3, <1>4, <1>8, Zenon DEF Pointer, Sum
<1>9. CASE /\ vec' = LastFreed([vec EXCEPT ![Dest] = Null])
           /\ pc' = "idle" /\ ub' = ub /\ heap' = heap - LastBlocks - 1 /\ whole' = whole
  BY <1>2, <1>3, <1>9, NullIsPointer, Zenon
<1>10. CASE ub' = "double free" /\ pc' = pc
  BY <1>1, <1>10
<1> QED BY <1>5, <1>6, <1>7, <1>8, <1>9, <1>10, Zenon

\* The vectors of a thread that ends, and the result the application frees.
LEMMA ThreadEndMoves ==
    ASSUME Room, ThreadEnd
    PROVE  /\ vec'["now"] = Null /\ vec'["diff"] = Null /\ Kept({"now", "diff"})
           /\ heap' = heap - Freed({"now", "diff"})
<1>1. /\ Shape /\ vec' = [[vec EXCEPT !["now"] = Null] EXCEPT !["diff"] = Null]
      /\ heap' = heap - Freed({"now", "diff"})
  BY DEF ThreadEnd, CleanedUp, Room
<1>2. "now" \in Slots /\ "diff" \in Slots /\ "now" # "diff"
  BY SlotsDiffer
<1> QED BY <1>1, <1>2, NullIsPointer, StorePointers DEF Kept

\* sg_free_stats_buf() gives one vector back.
LEMMA FreeBufMoves ==
    ASSUME Room, NEW u \in Users, FreeBuf(u)
    PROVE  /\ Live(vec[u]) /\ vec'[u] = Null /\ Kept({u}) /\ heap' = heap - 1
<1>1. Shape /\ vec' = [vec EXCEPT ![u] = Null] /\ Live(vec[u]) /\ heap' = heap - 1
  BY DEF FreeBuf, Set, Room
<1> QED BY <1>1, SlotsDiffer, NullIsPointer, StorePointer DEF Kept

\* Before the first call there is nothing to dangle.
LEMMA LastingInit == Init => Lasting
<1> SUFFICES ASSUME Init PROVE Dangling /\ Sound
  BY RoomInit DEF Lasting
<1>1. \A s \in Slots : vec[s] = Null
  BY DEF Init
<1>2. Dangling
  BY DEF Init, Dangling
<1>3. pc = "idle"
  BY DEF Init
<1> QED BY <1>1, <1>2, <1>3, RoomyIsLive DEF Sound, Comparing

\* A step that gives NULL or a vector to some slots leaves none dangling.
LEMMA NoneGone ==
    ASSUME Sound, NEW ss \in SUBSET Slots, Kept(ss),
           \A s \in ss : vec'[s] = Null \/ Roomy(vec'[s]) \/ vec'[s] = vec[s]
    PROVE  \A s \in Slots : vec'[s].st # "gone"
BY RoomyIsLive DEF Sound, Kept

\* Every step keeps the pointers sound.
LEMMA LastingNext ==
    ASSUME Kind = "each" => MinItems > 0, Lasting, [Next]_vars PROVE Lasting'
<1> SUFFICES Dangling' /\ (ub = "none" => Sound)'
  BY RoomNext DEF Lasting
<1> DEFINE Good == Dangling' /\ (ub = "none" => Sound)'
<1>1. Room /\ Shape /\ Dangling /\ (ub = "none" => Sound /\ Where)
  BY DEF Lasting, Room
<1>2. /\ "now" \in Slots /\ "diff" \in Slots /\ "last" \in Slots /\ "list" \in Slots
      /\ "now" # "diff" /\ "now" # "last" /\ "now" # "list"
      /\ \A u \in Users : u \in Slots /\ u # "now" /\ u # "list"
  BY SlotsDiffer
<1>3. CASE UNCHANGED vars
  BY <1>1, <1>3 DEF vars, locals, Dangling, Sound, Comparing
<1>4. CASE CallGet
  BY <1>1, <1>4 DEF CallGet, Ready, Goto, locals, Dangling, Sound, Comparing
<1>5. CASE GetStart
  <2>1. Sound /\ ub = "none" /\ ub' = ub /\ call' = call /\ pc = "get"
    BY <1>1, <1>5 DEF GetStart, Ready
  <2>2. CASE vec' = vec /\ FailMalloc
    BY <2>1, <2>2 DEF FailMalloc, Return, Dangling, Sound, Comparing
  <2>3. CASE GatherInto("now") /\ Roomy(vec'["now"]) /\ Kept({"now"})
    <3>1. \A s \in Slots : vec'[s].st # "gone"
      BY <1>2, <2>1, <2>3, NoneGone
    <3> QED BY <2>1, <2>3, <3>1 DEF GatherInto, Dangling, Sound, Comparing
  <2> QED BY <1>1, <1>5, <2>2, <2>3, GetStartMoves
<1>6. CASE GatherItem
  <2>1. Sound /\ ub = "none" /\ pc = "gather" /\ UNCHANGED <<pc, call, tgt, cur, old>>
        /\ ub' \in {"none", "null pointer"}
    BY <1>1, <1>6 DEF GatherItem, Ready, locals
  <2>2. CASE ub' = "none"
    <3>1. Into \in Slots /\ Roomy(vec'[Into]) /\ Kept({Into})
      BY <1>1, <1>6, <2>2, GatherItemMoves
    <3>2. \A s \in Slots : vec'[s].st # "gone"
      BY <2>1, <3>1, NoneGone
    <3> QED BY <2>1, <3>2 DEF Dangling, Sound, Comparing
  <2>3. CASE ub' = "null pointer"
    BY <2>1, <2>3 DEF Dangling
  <2> QED BY <2>1, <2>2, <2>3
<1>7. CASE GatherEnd
  BY <1>1, <1>7 DEF GatherEnd, Ready, Goto, Dangling, Sound, Comparing
<1>8. CASE FsValid
  <2>1. /\ Sound /\ ub = "none" /\ ub' = ub /\ pc = "valid" /\ pc' = "gathered"
        /\ UNCHANGED <<call, tgt, cur, old>> /\ tgt \in Slots
    BY <1>1, <1>8 DEF FsValid, Ready, Goto, Shape
  <2>2. /\ Kept({tgt, "list"}) /\ vec'["list"] = Null
        /\ vec'[tgt] = Null \/ Roomy(vec'[tgt])
    BY <1>1, <1>8, FsValidMoves
  <2>3. \A s \in Slots : vec'[s].st # "gone"
    BY <1>2, <2>1, <2>2, NoneGone
  <2> QED BY <2>1, <2>3 DEF Dangling, Sound, Comparing
<1>9. CASE Gathered
  <2>1. /\ Sound /\ Where /\ ub = "none" /\ ub' = ub /\ pc = "gathered" /\ call' = call
        /\ tgt \in Slots
    BY <1>1, <1>9 DEF Gathered, Ready, Shape
  <2>2. CASE /\ call = "get_r" /\ pc' = "idle" /\ vec'[tgt] = Null /\ Kept({tgt})
    <3>1. \A s \in Slots : vec'[s].st # "gone"
      BY <2>1, <2>2, NoneGone
    <3> QED BY <2>1, <2>2, <3>1 DEF Dangling, Sound, Comparing
  <2>3. CASE vec' = vec
    <3>1. CASE call = "diff"
      BY <1>9, <2>1, <2>3, <3>1 DEF Gathered, Goto, locals, Dangling, Sound, Comparing
    <3>2. CASE call # "diff"
      <4>1. pc' = "idle"
        BY <1>9, <3>2 DEF Gathered, Return
      <4> QED BY <2>1, <2>3, <4>1 DEF Dangling, Sound, Comparing
    <3> QED BY <3>1, <3>2
  <2> QED BY <1>1, <1>9, <2>2, <2>3, GatheredMoves
<1>10. CASE CallDiff
  <2>1. /\ Sound /\ ub = "none" /\ ub' = ub /\ pc = "idle"
        /\ \/ call' = "get" /\ pc' = "get"
           \/ call' = "diff" /\ pc' = "clone"
           \/ call' = "diff" /\ pc' = "idle"
    BY <1>1, <1>10 DEF CallDiff, Ready, Goto, FailMalloc, Return
  <2>2. \A s \in Slots : vec'[s].st # "gone"
    <3>1. CASE vec' = vec
      BY <2>1, <3>1 DEF Sound
    <3>2. CASE Roomy(vec'["diff"]) /\ Kept({"diff"})
      BY <1>2, <2>1, <3>2, NoneGone
    <3> QED BY <1>1, <1>10, <3>1, <3>2, CallDiffMoves
  <2> QED BY <2>1, <2>2 DEF Dangling, Sound, Comparing
<1>11. CASE CloneLast
  <2>1. Sound /\ Where /\ ub = "none" /\ ub' = ub /\ pc = "clone" /\ call' = call
    BY <1>1, <1>11 DEF CloneLast, Ready
  <2>2. CASE vec' = vec /\ FailMalloc
    BY <2>1, <2>2 DEF FailMalloc, Return, Dangling, Sound, Comparing
  <2>3. CASE /\ Roomy(vec'["last"]) /\ Kept({"last"})
             /\ cur' = "now" /\ old' = "last" /\ pc' = "get"
    <3>1. \A s \in Slots : vec'[s].st # "gone"
      BY <1>2, <2>1, <2>3, NoneGone
    <3>2. Live(vec'["now"])
      BY <1>2, <2>1, <2>3 DEF Where, Kept
    <3> QED BY <2>1, <2>3, <3>1, <3>2 DEF Dangling, Sound, Comparing
  <2> QED BY <1>1, <1>11, <2>2, <2>3, CloneLastMoves
<1>12. CASE Compute
  <2>1. Sound /\ ub = "none" /\ pc = "compute" /\ call' = call
    BY <1>1, <1>12 DEF Compute, Ready
  <2>2. CASE /\ pc' = "idle" /\ ub' = ub /\ Dest \in Slots /\ Kept({Dest, "last"})
             /\ vec'["last"] \in {Null, vec["last"]}
             /\ vec'[Dest] = Null \/ Roomy(vec'[Dest])
    <3>1. \A s \in Slots : vec'[s].st # "gone"
      BY <1>2, <2>1, <2>2, NoneGone
    <3> QED BY <2>1, <2>2, <3>1 DEF Dangling, Sound, Comparing
  <2>3. CASE ub' = "double free" /\ pc' = "compute"
    BY <2>3 DEF Dangling
  <2> QED BY <1>12, <2>2, <2>3, ComputeMoves
<1>13. CASE ThreadEnd
  <2>1. Sound /\ ub = "none" /\ pc = "idle" /\ UNCHANGED <<ub, pc>>
    BY <1>1, <1>13 DEF ThreadEnd, Ready
  <2>2. \A s \in Slots : vec'[s].st # "gone"
    BY <1>1, <1>2, <1>13, <2>1, ThreadEndMoves, NoneGone
  <2> QED BY <2>1, <2>2 DEF Dangling, Sound, Comparing
<1>14. ASSUME NEW u \in Users, CallGetR(u) PROVE Good
  <2>1. Sound /\ ub = "none" /\ ub' = ub /\ pc = "idle" /\ call' = "get_r"
    BY <1>1, <1>14 DEF CallGetR, Ready
  <2>2. CASE vec' = vec /\ FailMalloc
    BY <2>1, <2>2 DEF FailMalloc, Return, Dangling, Sound, Comparing
  <2>3. CASE GatherInto(u) /\ Roomy(vec'[u]) /\ Kept({u})
    <3>1. \A s \in Slots : vec'[s].st # "gone"
      BY <1>2, <2>1, <2>3, NoneGone
    <3> QED BY <2>1, <2>3, <3>1 DEF GatherInto, Dangling, Sound, Comparing
  <2> QED BY <1>1, <1>14, <2>2, <2>3, CallGetRMoves
<1>15. ASSUME NEW u \in Users, FreeBuf(u) PROVE Good
  <2>1. Sound /\ ub = "none" /\ pc = "idle" /\ UNCHANGED <<ub, pc>>
    BY <1>1, <1>15 DEF FreeBuf, Ready
  <2>2. \A s \in Slots : vec'[s].st # "gone"
    BY <1>1, <1>2, <1>15, <2>1, FreeBufMoves, NoneGone
  <2> QED BY <2>1, <2>2 DEF Dangling, Sound, Comparing
<1>16. ASSUME NEW u \in Users, NEW c \in Results, NEW l \in Results, CallBetween(u, c, l)
       PROVE  Good
  <2>1. Sound /\ ub = "none" /\ ub' = ub /\ pc = "idle" /\ call' = "between"
    BY <1>1, <1>16 DEF CallBetween, Ready
  <2>2. CASE vec' = vec /\ FailMalloc
    BY <2>1, <2>2 DEF FailMalloc, Return, Dangling, Sound, Comparing
  <2>3. CASE /\ Roomy(vec'[u]) /\ vec'[u].used = 0 /\ Kept({u}) /\ tgt' = u
             /\ pc' = "compute"
    <3>1. \A s \in Slots : vec'[s].st # "gone"
      BY <1>2, <2>1, <2>3, NoneGone
    <3> QED BY <2>1, <2>3, <3>1 DEF Dangling, Sound, Comparing
  <2> QED BY <1>1, <1>16, <2>2, <2>3, CallBetweenMoves
<1> QED
  BY <1>3, <1>4, <1>5, <1>6, <1>7, <1>8, <1>9, <1>10, <1>11, <1>12, <1>13, <1>14, <1>15,
     <1>16 DEF Next

\* No call goes on with a vector it has given back, nor leaves a pointer to one: the resize
\* to nothing that frees its vector and returns NULL (sg_vector_resize()) is either stored
\* (VECTOR_UPDATE) or never asked for (sg_vector_clone_into()), as long as a gatherer that
\* appends to its caller's vector finds an item.  Without that sg_vector_clone_into() does
\* resize to nothing and go on (run accessors_clone_empty).
THEOREM NoDanglingHolds ==
    ASSUME Kind = "each" => MinItems > 0
    PROVE  Spec => []NoDangling
<1>1. Init => Lasting
  BY LastingInit
<1>2. Lasting /\ [Next]_vars => Lasting'
  BY LastingNext
<1>3. Lasting => NoDangling
  BY DEF Lasting, Dangling, Sound, NoDangling
<1> QED BY <1>1, <1>2, <1>3, PTL DEF Spec

----------------------------------------------------------------------------
(* Complete samples.                                                       *)

\* The call that makes the result u has not returned: its gatherer is running or has
\* failed, or its difference is being computed.
Filling(u) ==
    /\ u = tgt
    /\ \/ call = "get_r" /\ pc \in {"gather", "valid"}
       \/ call = "get_r" /\ pc = "gathered" /\ rc # "NONE"
       \/ call = "between" /\ pc = "compute"

\* A result of the application is complete, or its call has not returned; a difference is
\* computed from other results of the application, which exist.
Complete ==
    /\ \A u \in Users : Live(vec[u]) => u \in whole \/ Filling(u)
    /\ pc = "compute" /\ call = "between" =>
         \A s \in {cur, old} : s # NoSlot => s \in Users /\ s # tgt /\ Live(vec[s])

Completing == Lasting /\ (ub = "none" => Complete)

\* Every step keeps the results complete.
LEMMA CompletingNext ==
    ASSUME Kind = "each" => MinItems > 0, Completing, [Next]_vars PROVE Completing'
<1> SUFFICES ASSUME ub' = "none" PROVE Complete'
  BY LastingNext DEF Completing
<1>1. Lasting /\ Room /\ Shape /\ (ub = "none" => Complete /\ Where)
  BY DEF Completing, Lasting, Room
<1>2. /\ "now" \in Slots /\ "diff" \in Slots /\ "last" \in Slots /\ "list" \in Slots
      /\ \A u \in Users : u \in Slots /\ u \notin {"now", "diff", "last", "list"}
      /\ NoSlot \notin Slots
  BY SlotsDiffer
<1>3. CASE UNCHANGED vars
  BY <1>1, <1>3 DEF vars, locals, Complete, Filling
<1>4. CASE CallGet
  BY <1>1, <1>4 DEF CallGet, Ready, Goto, locals, Complete, Filling
<1>5. CASE GetStart
  <2>1. Complete /\ Where /\ call' = call /\ pc = "get" /\ whole' = whole \ {"now"}
    BY <1>1, <1>5 DEF GetStart, Ready
  <2>2. \A u \in Users : vec'[u] = vec[u]
    BY <1>1, <1>2, <1>5, GetStartMoves DEF Kept
  <2>3. pc' \in {"idle", "gather"} /\ call \in {"get", "diff"}
    BY <1>5, <2>1 DEF GetStart, GatherInto, FailMalloc, Return, Where
  <2>4. \A u \in Users : Live(vec[u]) => u \in whole
    BY <2>1, <2>3 DEF Complete, Filling
  <2> QED BY <1>2, <2>1, <2>2, <2>3, <2>4 DEF Complete
<1>6. CASE GatherItem
  <2>1. /\ Complete /\ Where /\ pc = "gather" /\ UNCHANGED <<pc, call, tgt, cur, old, rc, whole>>
    BY <1>1, <1>6 DEF GatherItem, Ready, locals
  <2>2. Kept({Into}) /\ (Into = tgt \/ Into = "list")
    BY <1>1, <1>6, GatherItemMoves DEF Into
  <2>3. \A u \in Users : Live(vec'[u]) => u \in whole \/ u = tgt
    BY <1>2, <2>1, <2>2 DEF Complete, Filling, Kept
  <2>4. tgt \in Users => call = "get_r"
    BY <1>2, <2>1 DEF Where
  <2> QED BY <2>1, <2>3, <2>4 DEF Complete, Filling
<1>7. CASE GatherEnd
  <2>1. /\ Complete /\ Where /\ pc = "gather" /\ UNCHANGED <<vec, call, tgt>>
    BY <1>1, <1>7 DEF GatherEnd, Ready
  <2>2. tgt \in Users => call = "get_r"
    BY <1>2, <2>1 DEF Where
  <2>3. \A u \in Users : Live(vec[u]) => u \in whole \/ u = tgt
    BY <2>1 DEF Complete, Filling
  <2>4. Kind \in {"each", "fs"}
    BY AccessorsAssumption
  <2>5. CASE Kind = "fs"
    <3>1. pc' = "valid" /\ whole' = whole
      BY <1>7, <2>5 DEF GatherEnd, Goto
    <3> QED BY <2>1, <2>2, <2>3, <3>1 DEF Complete, Filling
  <2>6. CASE Kind = "each"
    <3>1. pc' = "gathered" /\ whole' = IF rc' = "NONE" THEN whole \cup {tgt} ELSE whole
      BY <1>7, <2>6 DEF GatherEnd, Goto
    <3> QED BY <2>1, <2>2, <2>3, <3>1 DEF Complete, Filling
  <2> QED BY <2>4, <2>5, <2>6
<1>8. CASE FsValid
  <2>1. /\ Complete /\ Where /\ pc = "valid" /\ pc' = "gathered" /\ UNCHANGED <<call, tgt>>
    BY <1>1, <1>8 DEF FsValid, Ready, Goto
  <2>2. /\ Kept({tgt, "list"}) /\ whole \subseteq whole'
        /\ vec'[tgt] = Null \/ tgt \in whole'
    BY <1>1, <1>8, FsValidMoves
  <2>3. \A u \in Users : Live(vec[u]) => u \in whole \/ u = tgt
    BY <2>1 DEF Complete, Filling
  <2>4. \A u \in Users : Live(vec'[u]) => u \in whole'
    BY <1>2, <2>2, <2>3, RoomyIsLive DEF Kept
  <2> QED BY <2>1, <2>4 DEF Complete
<1>9. CASE Gathered
  <2>1. /\ Complete /\ pc = "gathered" /\ pc' \in {"idle", "compute"} /\ call' = call
        /\ whole' = whole /\ (pc' = "compute" => call = "diff") /\ tgt \in Slots
    BY <1>1, <1>9 DEF Gathered, Ready, Goto, Return, Shape
  <2>2. \A u \in Users : Live(vec[u]) =>
          u \in whole \/ (u = tgt /\ call = "get_r" /\ rc # "NONE")
    BY <2>1 DEF Complete, Filling
  <2>3. \A u \in Users : Live(vec'[u]) => u \in whole
    <3>1. CASE call = "get_r" /\ rc # "NONE" /\ vec'[tgt] = Null /\ Kept({tgt})
      BY <1>2, <2>2, <3>1, RoomyIsLive DEF Kept
    <3>2. CASE (call # "get_r" \/ rc = "NONE") /\ vec' = vec
      BY <2>2, <3>2
    <3> QED BY <1>1, <1>9, <3>1, <3>2, GatheredMoves
  <2> QED BY <2>1, <2>3 DEF Complete
<1>10. CASE CallDiff
  <2>1. /\ Complete /\ pc = "idle" /\ whole' = whole /\ pc' # "compute"
    BY <1>1, <1>10 DEF CallDiff, Ready, Goto, FailMalloc, Return
  <2>2. \A u \in Users : vec'[u] = vec[u]
    BY <1>1, <1>2, <1>10, CallDiffMoves DEF Kept
  <2> QED BY <2>1, <2>2 DEF Complete, Filling
<1>11. CASE CloneLast
  <2>1. Complete /\ pc = "clone" /\ pc' # "compute"
    BY <1>1, <1>11 DEF CloneLast, Ready, Goto, FailMalloc, Return
  <2>2. \A u \in Users : vec'[u] = vec[u] /\ (u \in whole => u \in whole')
    BY <1>1, <1>2, <1>11, CloneLastMoves DEF Kept
  <2> QED BY <2>1, <2>2 DEF Complete, Filling
<1>12. CASE Compute
  <2>1. Complete /\ Where /\ Sound /\ ub = "none" /\ pc = "compute"
    BY <1>1, <1>12 DEF Compute, Ready, Lasting
  <2> DEFINE isWhole == cur \in whole /\ (old # NoSlot => old \in whole)
  <2>2. /\ pc' = "idle" /\ Kept({Dest, "last"})
        /\ \/ CurLive /\ whole' = IF isWhole THEN whole \cup {Dest} ELSE whole \ {Dest}
           \/ vec'[Dest] = Null /\ whole' = whole
    BY <1>1, <1>12, ComputeMoves
  <2>3. \A u \in Users : Live(vec[u]) /\ u # Dest => u \in whole
    BY <1>2, <2>1 DEF Complete, Filling, Dest
  <2>4. CASE call = "diff"
    <3>1. Dest = "diff"
      BY <2>4 DEF Dest
    <3>2. \A u \in Users : u \in whole => u \in whole'
      BY <1>2, <2>2, <3>1
    <3>3. \A u \in Users : vec'[u] = vec[u] /\ u # Dest
      BY <1>2, <2>2, <3>1 DEF Kept
    <3> QED BY <2>2, <2>3, <3>2, <3>3 DEF Complete
  <2>5. CASE call # "diff"
    <3>1. Dest = tgt /\ call = "between"
      BY <2>1, <2>5 DEF Dest, Where
    <3>2. CurLive => isWhole
      BY <2>1, <2>3, <3>1 DEF CurLive, Complete
    <3> HIDE DEF isWhole
    <3>3. /\ vec'[Dest] = Null \/ Dest \in whole'
          /\ whole \subseteq whole'
      BY <2>2, <3>2
    <3>4. \A u \in Users : u # Dest => vec'[u] = vec[u]
      BY <1>2, <2>2 DEF Kept
    <3> QED BY <2>2, <2>3, <3>3, <3>4, RoomyIsLive DEF Complete
  <2> QED BY <2>4, <2>5
<1>13. CASE ThreadEnd
  <2>1. Complete /\ pc = "idle" /\ pc' = pc /\ whole' = whole \ {"now", "diff"}
    BY <1>1, <1>13 DEF ThreadEnd, Ready
  <2>2. \A u \in Users : vec'[u] = vec[u]
    BY <1>1, <1>2, <1>13, ThreadEndMoves DEF Kept
  <2> QED BY <1>2, <2>1, <2>2 DEF Complete, Filling
<1>14. ASSUME NEW u \in Users, CallGetR(u) PROVE Complete'
  <2>1. Complete /\ pc = "idle" /\ whole' = whole /\ call' = "get_r"
    BY <1>1, <1>14 DEF CallGetR, Ready
  <2>2. CASE vec' = vec /\ FailMalloc
    BY <2>1, <2>2 DEF FailMalloc, Return, Complete, Filling
  <2>3. CASE GatherInto(u) /\ Kept({u})
    BY <1>2, <2>1, <2>3 DEF GatherInto, Complete, Filling, Kept
  <2> QED BY <1>1, <1>14, <2>2, <2>3, CallGetRMoves
<1>15. ASSUME NEW u \in Users, FreeBuf(u) PROVE Complete'
  <2>1. Complete /\ pc = "idle" /\ pc' = pc /\ whole' = whole \ {u}
    BY <1>1, <1>15 DEF FreeBuf, Ready
  <2>2. vec'[u] = Null /\ Kept({u})
    BY <1>1, <1>15, FreeBufMoves
  <2> QED BY <1>2, <2>1, <2>2, RoomyIsLive DEF Complete, Filling, Kept
<1>16. ASSUME NEW u \in Users, NEW c \in Results, NEW l \in Results, CallBetween(u, c, l)
       PROVE  Complete'
  <2>1. Complete /\ pc = "idle" /\ whole' = whole /\ call' = "between"
    BY <1>1, <1>16 DEF CallBetween, Ready
  <2>2. \A s \in {c, l} : s # NoSlot => s \in Users /\ Live(vec[s])
    BY DEF Results
  <2>3. CASE vec' = vec /\ FailMalloc
    BY <2>1, <2>3 DEF FailMalloc, Return, Complete, Filling
  <2>4. CASE /\ vec[u] = Null /\ Kept({u}) /\ tgt' = u /\ cur' = c /\ old' = l
             /\ pc' = "compute"
    <3>1. \A s \in {c, l} : s # NoSlot => s # u /\ Live(vec'[s])
      BY <1>2, <2>2, <2>4, RoomyIsLive DEF Kept
    <3>2. \A x \in Users : Live(vec'[x]) => x \in whole \/ x = u
      BY <1>2, <2>1, <2>4 DEF Complete, Filling, Kept
    <3> QED BY <2>1, <2>2, <2>4, <3>1, <3>2 DEF Complete, Filling
  <2> QED BY <1>1, <1>16, <2>3, <2>4, CallBetweenMoves
<1> QED
  BY <1>3, <1>4, <1>5, <1>6, <1>7, <1>8, <1>9, <1>10, <1>11, <1>12, <1>13, <1>14, <1>15,
     <1>16 DEF Next

\* The thread's own list is complete once its gatherer has reported success, and stays so
\* until the next call.
Latest ==
    /\ pc = "gathered" /\ tgt = "now" /\ rc = "NONE" /\ Live(vec["now"]) => "now" \in whole
    /\ pc = "idle" /\ call = "get" /\ ok /\ Live(vec["now"]) => "now" \in whole

\* Every step keeps that.
LEMMA LatestNext ==
    ASSUME Lasting, ub = "none" => Latest, [Next]_vars, ub' = "none" PROVE Latest'
<1>1. Room /\ Shape /\ (ub = "none" => Latest /\ Where /\ Sound)
  BY DEF Lasting, Room
<1>2. /\ "now" \in Slots /\ \A u \in Users : u \in Slots /\ u # "now"
  BY SlotsDiffer
<1>3. CASE UNCHANGED vars
  BY <1>1, <1>3 DEF vars, locals, Latest
<1>4. CASE CallGet \/ GatherItem
  BY <1>4 DEF CallGet, GatherItem, Ready, Goto, Latest
<1>5. CASE GetStart
  <2>1. pc' = "gather" \/ (pc' = "idle" /\ ~ok')
    BY <1>5 DEF GetStart, GatherInto, FailMalloc, Return
  <2> QED BY <2>1 DEF Latest
<1>6. CASE GatherEnd
  <2>1. /\ pc' = "valid" \/ (pc' = "gathered" /\ Kind = "each")
        /\ tgt' = tgt
        /\ whole' = IF Kind = "each" /\ rc' = "NONE" THEN whole \cup {tgt} ELSE whole
    BY <1>6, AccessorsAssumption DEF GatherEnd, Goto
  <2> QED BY <2>1 DEF Latest
<1>7. CASE FsValid
  <2>1. /\ pc = "valid" /\ pc' = "gathered" /\ tgt' = tgt
    BY <1>7 DEF FsValid, Ready, Goto
  <2>2. vec'[tgt] = Null \/ tgt \in whole'
    BY <1>1, <1>7, FsValidMoves
  <2> QED BY <2>1, <2>2, RoomyIsLive DEF Latest
<1>8. CASE Gathered
  <2>1. /\ Latest /\ Where /\ pc = "gathered" /\ whole' = whole /\ call' = call
        /\ pc' = "compute" \/ (pc' = "idle" /\ (ok' => rc = "NONE"))
    BY <1>1, <1>8 DEF Gathered, Ready, Goto, Return
  <2>2. call = "get" => vec' = vec /\ tgt = "now"
    BY <1>2, <1>8, <2>1 DEF Gathered, Where
  <2> QED BY <2>1, <2>2 DEF Latest
<1>9. CASE CallDiff \/ CloneLast
  <2>1. pc' \in {"get", "clone"} \/ (pc' = "idle" /\ ~ok')
    BY <1>9 DEF CallDiff, CloneLast, Goto, FailMalloc, Return
  <2> QED BY <2>1 DEF Latest
<1>10. CASE Compute
  <2>1. pc' = "idle" /\ call' = call /\ call # "get"
    BY <1>1, <1>10, ComputeMoves DEF Compute, Ready, Where
  <2> QED BY <2>1 DEF Latest
<1>11. CASE ThreadEnd
  <2>1. pc' = "idle" /\ vec'["now"] = CleanedUp
    BY <1>1, <1>2, <1>11 DEF ThreadEnd, Ready, Shape
  <2> QED BY <2>1, RoomyIsLive DEF Latest, CleanedUp
<1>12. ASSUME NEW u \in Users, CallGetR(u) PROVE Latest'
  BY <1>12 DEF CallGetR, GatherInto, FailMalloc, Return, Latest
<1>13. ASSUME NEW u \in Users, FreeBuf(u) PROVE Latest'
  <2>1. Latest /\ pc = "idle" /\ UNCHANGED <<pc, call, ok>> /\ whole' = whole \ {u}
    BY <1>1, <1>13 DEF FreeBuf, Ready
  <2>2. vec'["now"] = vec["now"]
    BY <1>1, <1>2, <1>13, FreeBufMoves DEF Kept
  <2> QED BY <1>2, <2>1, <2>2 DEF Latest
<1>14. ASSUME NEW u \in Users, NEW c \in Results, NEW l \in Results, CallBetween(u, c, l)
       PROVE  Latest'
  BY <1>14 DEF CallBetween, Goto, FailMalloc, Return, Latest
<1> QED
  BY <1>3, <1>4, <1>5, <1>6, <1>7, <1>8, <1>9, <1>10, <1>11, <1>12, <1>13, <1>14 DEF Next

\* What sg_get_X_stats(), sg_get_X_stats_r() and sg_get_X_stats_diff_between() hand to the
\* application when they succeed comes from gatherers that ran to their end, for both kinds
\* of gatherers: sg_get_X_stats() reports what its gatherer did, a sample made for the
\* application and cut short by an error is freed before its call returns, and a difference
\* is computed from results the application already holds, which stay complete until it
\* frees them.
THEOREM SamplesWholeHolds ==
    ASSUME Kind = "each" => MinItems > 0
    PROVE  Spec => []CallersSamplesWhole
<1> DEFINE Whole == Completing /\ (ub = "none" => Latest)
<1>1. Init => Whole
  <2>1. Init => Complete /\ Latest
    BY SlotsDiffer, RoomyIsLive DEF Init, Complete, Latest
  <2> QED BY <2>1, LastingInit DEF Completing
<1>2. Whole /\ [Next]_vars => Whole'
  BY CompletingNext, LatestNext DEF Completing
<1>3. Whole => CallersSamplesWhole
  BY DEF Completing, Lasting, Dangling, Complete, Latest, Filling, CallersSamplesWhole
<1> QED BY <1>1, <1>2, <1>3, PTL DEF Spec

----------------------------------------------------------------------------
(* Vectors nobody can reach.                                               *)

\* The slots that hold a vector.
Alive(f) == {s \in Slots : Live(f[s])}

\* The local variables `last' and `tmp' hold one between these labels only, and only the
\* gatherer of file systems has a `tmp'.
Locals ==
    /\ pc = "valid" => Kind = "fs"
    /\ Live(vec["last"]) => Comparing
    /\ Live(vec["list"]) => Kind = "fs" /\ pc \in {"gather", "valid"}

Account == heap = Cardinality(Alive(vec)) /\ Locals
Accounting == Lasting /\ (ub = "none" => Account)

\* The heap changes with the vectors of two slots.
Balanced(s, x) ==
    /\ s \in Slots /\ x \in Slots /\ s # x /\ Kept({s, x})
    /\ heap' + (One(vec[s]) + One(vec[x])) = heap + (One(vec'[s]) + One(vec'[x]))

\* There are finitely many slots.
LEMMA SlotsFinite == IsFiniteSet(Slots)
<1>1. IsFiniteSet(Users)
  BY AccessorsAssumption
<1>2. IsFiniteSet({}) /\ IsFiniteSet({"now"})
  BY FS_EmptySet, FS_Singleton
<1>3. IsFiniteSet({"now"} \cup {"diff"})
  BY <1>2, FS_AddElement
<1>4. IsFiniteSet(({"now"} \cup {"diff"}) \cup {"last"})
  BY <1>3, FS_AddElement
<1>5. IsFiniteSet((({"now"} \cup {"diff"}) \cup {"last"}) \cup {"list"})
  BY <1>4, FS_AddElement
<1>6. IsFiniteSet(((({"now"} \cup {"diff"}) \cup {"last"}) \cup {"list"}) \cup Users)
  BY <1>1, <1>5, FS_Union
<1>7. Slots = ((({"now"} \cup {"diff"}) \cup {"last"}) \cup {"list"}) \cup Users
  BY DEF Slots
<1> QED BY <1>6, <1>7

\* The vectors of two slots, counted apart from the others.
LEMMA CountApart ==
    ASSUME NEW f, NEW s \in Slots, NEW x \in Slots, s # x
    PROVE  /\ IsFiniteSet(Alive(f) \ {s, x})
           /\ Cardinality(Alive(f) \ {s, x}) \in Nat /\ Cardinality(Alive(f)) \in Nat
           /\ Cardinality(Alive(f)) =
                Cardinality(Alive(f) \ {s, x}) + (One(f[s]) + One(f[x]))
<1> DEFINE R == Alive(f) \ {s, x}
           S == R \cup {z \in {s} : Live(f[s])}
<1>1. IsFiniteSet(Alive(f)) /\ IsFiniteSet(R)
  <2>1. Alive(f) \subseteq Slots /\ R \subseteq Slots
    BY DEF Alive
  <2> QED BY <2>1, SlotsFinite, FS_Subset
<1>2. Cardinality(R) \in Nat /\ Cardinality(Alive(f)) \in Nat
  BY <1>1, FS_CardinalityType
<1>3. IsFiniteSet(S) /\ Cardinality(S) = Cardinality(R) + One(f[s])
  <2>1. CASE Live(f[s])
    <3>1. S = R \cup {s} /\ s \notin R
      BY <2>1
    <3> HIDE DEF R
    <3>2. IsFiniteSet(R \cup {s}) /\ Cardinality(R \cup {s}) = Cardinality(R) + 1
      BY <1>1, <3>1, FS_AddElement
    <3> QED BY <2>1, <3>1, <3>2 DEF One
  <2>2. CASE ~Live(f[s])
    <3>1. S = R
      BY <2>2
    <3> QED BY <1>1, <1>2, <2>2, <3>1 DEF One
  <2> QED BY <2>1, <2>2
<1>4. Cardinality(Alive(f)) = Cardinality(S) + One(f[x])
  <2>1. CASE Live(f[x])
    <3>1. Alive(f) = S \cup {x} /\ x \notin S
      BY <2>1 DEF Alive
    <3> HIDE DEF S
    <3>2. Cardinality(S \cup {x}) = Cardinality(S) + 1
      BY <1>3, <3>1, FS_AddElement
    <3> QED BY <2>1, <3>1, <3>2 DEF One
  <2>2. CASE ~Live(f[x])
    <3>1. Alive(f) = S
      BY <2>2 DEF Alive
    <3> HIDE DEF S
    <3>2. One(f[x]) = 0 /\ Cardinality(S) \in Nat
      BY <1>2, <2>2, <3>1 DEF One
    <3> QED BY <3>1, <3>2
  <2> QED BY <2>1, <2>2
<1>5. One(f[s]) \in Nat /\ One(f[x]) \in Nat
  BY DEF One
<1> HIDE DEF R, S
<1>6. Cardinality(Alive(f)) = Cardinality(R) + (One(f[s]) + One(f[x]))
  BY <1>2, <1>3, <1>4, <1>5
<1> QED BY <1>1, <1>2, <1>6 DEF R

\* The arithmetic of an account.
LEMMA Shifted ==
    ASSUME NEW before \in Int, NEW after \in Int, NEW rest \in Int, NEW was \in Int,
           NEW is \in Int, before = rest + was, after + was = before + is
    PROVE  after = rest + is
OBVIOUS

\* A balanced step keeps the account.
LEMMA BalancedCounts ==
    ASSUME heap = Cardinality(Alive(vec)), heap' \in Int, NEW s, NEW x, Balanced(s, x)
    PROVE  heap' = Cardinality(Alive(vec'))
<1> DEFINE R == Alive(vec) \ {s, x}
<1>1. s \in Slots /\ x \in Slots /\ s # x
  BY DEF Balanced
<1>2. Alive(vec') \ {s, x} = R
  BY DEF Balanced, Kept, Alive
<1>3. /\ Cardinality(R) \in Nat
      /\ Cardinality(Alive(vec)) = Cardinality(R) + (One(vec[s]) + One(vec[x]))
  BY <1>1, CountApart
<1>4. Cardinality(Alive(vec')) = Cardinality(R) + (One(vec'[s]) + One(vec'[x]))
  <2>1. Cardinality(Alive(vec')) =
          Cardinality(Alive(vec') \ {s, x}) + (One(vec'[s]) + One(vec'[x]))
    BY <1>1, CountApart, Zenon
  <2> QED BY <1>2, <2>1
<1>5. /\ One(vec[s]) \in Nat /\ One(vec[x]) \in Nat
      /\ One(vec'[s]) \in Nat /\ One(vec'[x]) \in Nat
  BY DEF One
<1>6. heap' + (One(vec[s]) + One(vec[x])) = heap + (One(vec'[s]) + One(vec'[x]))
  BY DEF Balanced
<1>7. /\ Cardinality(R) \in Int
      /\ One(vec[s]) + One(vec[x]) \in Int /\ One(vec'[s]) + One(vec'[x]) \in Int
      /\ heap \in Int
  BY <1>3, <1>5
<1> DEFINE r == Cardinality(R)
           was == One(vec[s]) + One(vec[x])
           is == One(vec'[s]) + One(vec'[x])
           after == heap'
<1>8. /\ r \in Int /\ was \in Int /\ is \in Int /\ heap \in Int /\ after \in Int
      /\ heap = r + was /\ after + was = heap + is
  BY <1>3, <1>6, <1>7
<1>9. after = r + is
  <2> HIDE DEF r, was, is, after
  <2> QED BY <1>8, Shifted
<1> QED BY <1>4, <1>9

\* A step that makes, frees or replaces the vector of one slot.
LEMMA OneCounts ==
    ASSUME heap = Cardinality(Alive(vec)), NEW s \in Slots, Kept({s}),
           \/ heap' = heap + 1 /\ ~Live(vec[s]) /\ Live(vec'[s])
           \/ heap' = heap - 1 /\ Live(vec[s]) /\ ~Live(vec'[s])
           \/ heap' = heap /\ (Live(vec[s]) <=> Live(vec'[s]))
    PROVE  heap' = Cardinality(Alive(vec'))
<1>1. PICK x \in Slots : x # s
  BY SlotsDiffer
<1>2. heap \in Nat
  BY <1>1, CountApart
<1>3. Kept({s, x}) /\ vec'[x] = vec[x]
  BY <1>1 DEF Kept
<1>4. One(vec[x]) \in Nat /\ One(vec'[x]) = One(vec[x])
  BY <1>3 DEF One
<1>5. CASE heap' = heap + 1 /\ ~Live(vec[s]) /\ Live(vec'[s])
  <2>1. heap' \in Int /\ One(vec[s]) = 0 /\ One(vec'[s]) = 1
    BY <1>2, <1>5 DEF One
  <2>2. heap' + (One(vec[s]) + One(vec[x])) = heap + (One(vec'[s]) + One(vec'[x]))
    BY <1>2, <1>4, <1>5, <2>1
  <2> QED BY <1>1, <1>3, <2>1, <2>2, BalancedCounts DEF Balanced
<1>6. CASE heap' = heap - 1 /\ Live(vec[s]) /\ ~Live(vec'[s])
  <2>1. heap' \in Int /\ One(vec[s]) = 1 /\ One(vec'[s]) = 0
    BY <1>2, <1>6 DEF One
  <2>2. heap' + (One(vec[s]) + One(vec[x])) = heap + (One(vec'[s]) + One(vec'[x]))
    BY <1>2, <1>4, <1>6, <2>1
  <2> QED BY <1>1, <1>3, <2>1, <2>2, BalancedCounts DEF Balanced
<1>7. CASE heap' = heap /\ (Live(vec[s]) <=> Live(vec'[s]))
  <2>1. heap' \in Int /\ One(vec[s]) = One(vec'[s])
    BY <1>2, <1>7 DEF One
  <2>2. heap' + (One(vec[s]) + One(vec[x])) = heap + (One(vec'[s]) + One(vec'[x]))
    BY <1>4, <1>7, <2>1
  <2> QED BY <1>1, <1>3, <2>1, <2>2, BalancedCounts DEF Balanced
<1> QED BY <1>5, <1>6, <1>7

\* A step that empties two slots, or one of them while the other keeps a vector.
LEMMA TwoCounts ==
    ASSUME heap = Cardinality(Alive(vec)), NEW s \in Slots, NEW x \in Slots, s # x,
           Kept({s, x}), ~Live(vec'[x]),
           \/ heap' = heap - (One(vec[s]) + One(vec[x])) /\ ~Live(vec'[s])
           \/ heap' = heap - One(vec[x]) /\ Live(vec[s]) /\ Live(vec'[s])
    PROVE  heap' = Cardinality(Alive(vec'))
<1>1. heap \in Nat
  BY CountApart
<1>2. One(vec[s]) \in Nat /\ One(vec[x]) \in Nat /\ One(vec'[x]) = 0
  BY DEF One
<1>3. CASE heap' = heap - (One(vec[s]) + One(vec[x])) /\ ~Live(vec'[s])
  <2>1. heap' \in Int /\ One(vec'[s]) = 0
    BY <1>1, <1>2, <1>3 DEF One
  <2>2. heap' + (One(vec[s]) + One(vec[x])) = heap + (One(vec'[s]) + One(vec'[x]))
    BY <1>1, <1>2, <1>3, <2>1
  <2> QED BY <2>1, <2>2, BalancedCounts DEF Balanced
<1>4. CASE heap' = heap - One(vec[x]) /\ Live(vec[s]) /\ Live(vec'[s])
  <2>1. heap' \in Int /\ One(vec[s]) = 1 /\ One(vec'[s]) = 1
    BY <1>1, <1>2, <1>4 DEF One
  <2>2. heap' + (One(vec[s]) + One(vec[x])) = heap + (One(vec'[s]) + One(vec'[x]))
    BY <1>1, <1>2, <1>4, <2>1
  <2> QED BY <2>1, <2>2, BalancedCounts DEF Balanced
<1> QED BY <1>3, <1>4

\* Every step keeps the account, when no list of file systems can be lost.
LEMMA AccountingNext ==
    ASSUME Kind = "each" => MinItems > 0, Kind = "each" \/ ~OOM, Accounting, [Next]_vars
    PROVE  Accounting'
<1> SUFFICES ASSUME ub' = "none" PROVE Account'
  BY LastingNext DEF Accounting
<1> DEFINE Counts == heap' = Cardinality(Alive(vec'))
<1>1. Lasting /\ Room /\ Shape /\ (ub = "none" => Account /\ Where /\ Sound)
  BY DEF Accounting, Lasting, Room
<1>2. /\ "now" \in Slots /\ "diff" \in Slots /\ "last" \in Slots /\ "list" \in Slots
      /\ "now" \notin {"diff", "last", "list"} /\ "diff" \notin {"last", "list"}
      /\ "last" # "list"
      /\ \A u \in Users : u \in Slots /\ u \notin {"now", "diff", "last", "list"}
  BY SlotsDiffer
<1>0. Account => heap \in Int
  <2>1. Cardinality(Alive(vec)) \in Nat
    BY <1>2, CountApart, Zenon
  <2> QED BY <2>1 DEF Account
<1>3. CASE UNCHANGED vars
  BY <1>1, <1>3 DEF vars, locals, Account, Locals, Comparing, Alive
<1>4. CASE CallGet
  BY <1>1, <1>4 DEF CallGet, Ready, Goto, locals, Account, Locals, Comparing, Alive
<1>5. CASE GetStart
  <2>1. Account /\ Sound /\ call' = call /\ pc = "get"
    BY <1>1, <1>5 DEF GetStart, Ready
  <2>2. CASE vec' = vec /\ heap' = heap /\ FailMalloc /\ vec["now"] = Null
    <3>1. call # "diff"
      BY <2>1, <2>2, RoomyIsLive DEF Sound
    <3> QED BY <2>1, <2>2, <3>1 DEF FailMalloc, Return, Account, Locals, Comparing
  <2>3. CASE /\ GatherInto("now") /\ Roomy(vec'["now"]) /\ Kept({"now"})
             /\ \/ vec["now"] = Null /\ heap' = heap + 1
                \/ Live(vec["now"]) /\ heap' = heap
    <3>1. Counts
      BY <1>2, <2>1, <2>3, RoomyIsLive, OneCounts DEF Account
    <3>2. vec'["last"] = vec["last"] /\ vec'["list"] = vec["list"]
      BY <1>2, <2>3 DEF Kept
    <3> QED BY <2>1, <2>3, <3>1, <3>2 DEF GatherInto, Account, Locals, Comparing
  <2> QED BY <1>1, <1>5, <2>2, <2>3, GetStartMoves
<1>6. CASE GatherItem
  <2>1. Account /\ Where /\ pc = "gather" /\ UNCHANGED <<pc, call, tgt>>
    BY <1>1, <1>6 DEF GatherItem, Ready, locals
  <2>2. /\ Into \in Slots /\ Roomy(vec'[Into]) /\ Kept({Into})
        /\ heap' = IF Live(vec[Into]) THEN heap ELSE heap + 1
    BY <1>1, <1>6, GatherItemMoves
  <2>3. Counts
    BY <2>1, <2>2, RoomyIsLive, OneCounts DEF Account
  <2>4. tgt # "last" /\ tgt # "list"
    BY <1>2, <2>1 DEF Where
  <2>5. Into # "last" /\ (Into = "list" => Kind = "fs")
    BY <1>2, <2>4 DEF Into
  <2>6. vec'["last"] = vec["last"] /\ (Kind = "fs" \/ vec'["list"] = vec["list"])
    BY <1>2, <2>2, <2>5 DEF Kept
  <2> QED BY <2>1, <2>3, <2>6 DEF Account, Locals, Comparing
<1>7. CASE GatherEnd
  <2>1. /\ Account /\ pc = "gather" /\ UNCHANGED <<vec, heap, call>>
        /\ pc' = IF Kind = "fs" THEN "valid" ELSE "gathered"
    BY <1>1, <1>7 DEF GatherEnd, Ready, Goto
  <2> QED BY <2>1 DEF Account, Locals, Comparing
<1>8. CASE FsValid
  <2>1. /\ Account /\ Where /\ pc = "valid" /\ pc' = "gathered" /\ call' = call
        /\ tgt \in Slots /\ Live(vec[tgt])
    BY <1>1, <1>8 DEF FsValid, Ready, Goto, Shape, Where
  <2>2. ~OOM
    BY <2>1 DEF Account, Locals
  <2>3. /\ tgt # "list" /\ vec'["list"] = Null /\ Kept({tgt, "list"})
        /\ \/ vec'[tgt] = Null /\ heap' = heap - Freed({tgt, "list"})
           \/ Roomy(vec'[tgt]) /\ heap' = heap - Freed({"list"})
    BY <1>1, <1>8, <2>2, FsValidMoves
  <2>4. /\ Freed({tgt, "list"}) = One(vec[tgt]) + One(vec["list"])
        /\ Freed({"list"}) = One(vec["list"])
    BY <1>2, <2>1, <2>3, FreedOne, FreedTwo, Zenon
  <2>5. Counts
    BY <1>2, <2>1, <2>3, <2>4, RoomyIsLive, TwoCounts DEF Account
  <2>6. tgt # "last"
    BY <1>2, <2>1 DEF Where
  <2>7. vec'["last"] = vec["last"] /\ ~Live(vec'["list"])
    BY <1>2, <2>3, <2>6, RoomyIsLive DEF Kept
  <2> QED BY <2>1, <2>5, <2>7 DEF Account, Locals, Comparing
<1>9. CASE Gathered
  <2>1. /\ Account /\ Where /\ pc = "gathered" /\ call' = call /\ tgt \in Slots
        /\ pc' = IF call = "diff" THEN "compute" ELSE "idle"
    BY <1>1, <1>9 DEF Gathered, Ready, Goto, Return, Shape
  <2>2. CASE /\ call = "get_r" /\ vec'[tgt] = Null /\ Kept({tgt})
             /\ heap' = heap - Freed({tgt})
    <3>1. Freed({tgt}) = One(vec[tgt])
      BY <2>1, FreedOne
    <3>2. \/ heap' = heap - 1 /\ Live(vec[tgt])
          \/ heap' = heap - 0 /\ ~Live(vec[tgt])
      BY <2>2, <3>1 DEF One
    <3>3. heap \in Int
      BY <1>0, <2>1
    <3>4. heap - 0 = heap
      BY <3>3
    <3>5. Counts
      BY <2>1, <2>2, <3>2, <3>4, RoomyIsLive, OneCounts DEF Account
    <3>6. tgt # "last" /\ tgt # "list"
      BY <1>2, <2>1 DEF Where
    <3>7. vec'["last"] = vec["last"] /\ vec'["list"] = vec["list"]
      BY <1>2, <2>2, <3>6 DEF Kept
    <3> QED BY <2>1, <2>2, <3>5, <3>7 DEF Account, Locals, Comparing
  <2>3. CASE vec' = vec /\ heap' = heap
    BY <2>1, <2>3 DEF Account, Locals, Comparing
  <2> QED BY <1>1, <1>9, <2>2, <2>3, GatheredMoves
<1>10. CASE CallDiff
  <2>1. Account /\ pc = "idle" /\ pc' # "valid"
    BY <1>1, <1>10 DEF CallDiff, Ready, Goto, FailMalloc, Return
  <2>2. ~Live(vec["last"]) /\ ~Live(vec["list"])
    BY <2>1 DEF Account, Locals, Comparing
  <2>3. CASE vec' = vec /\ heap' = heap
    BY <2>1, <2>2, <2>3 DEF Account, Locals
  <2>4. CASE /\ vec["diff"] = Null /\ Roomy(vec'["diff"]) /\ Kept({"diff"})
             /\ heap' = heap + 1
    <3>1. Counts
      BY <1>2, <2>1, <2>4, RoomyIsLive, OneCounts DEF Account
    <3>2. vec'["last"] = vec["last"] /\ vec'["list"] = vec["list"]
      BY <1>2, <2>4 DEF Kept
    <3> QED BY <2>1, <2>2, <3>1, <3>2 DEF Account, Locals
  <2> QED BY <1>1, <1>10, <2>3, <2>4, CallDiffMoves
<1>11. CASE CloneLast
  <2>1. Account /\ Where /\ pc = "clone" /\ call' = call
    BY <1>1, <1>11 DEF CloneLast, Ready
  <2>2. ~Live(vec["last"]) /\ ~Live(vec["list"]) /\ call = "diff"
    BY <2>1 DEF Account, Locals, Comparing, Where
  <2>3. CASE vec' = vec /\ heap' = heap /\ FailMalloc
    BY <2>1, <2>2, <2>3 DEF Account, Locals, FailMalloc, Return
  <2>4. CASE Roomy(vec'["last"]) /\ Kept({"last"}) /\ heap' = heap + 1 /\ pc' = "get"
    <3>1. Counts
      BY <1>2, <2>1, <2>2, <2>4, RoomyIsLive, OneCounts DEF Account
    <3>2. vec'["list"] = vec["list"]
      BY <1>2, <2>4 DEF Kept
    <3> QED BY <2>1, <2>2, <2>4, <3>1, <3>2 DEF Account, Locals, Comparing
  <2> QED BY <1>1, <1>11, <2>3, <2>4, CloneLastMoves
<1>12. CASE Compute
  <2>1. Account /\ Where /\ pc = "compute" /\ ub = "none"
    BY <1>1, <1>12 DEF Compute, Ready
  <2>2. ~Live(vec["list"]) /\ heap \in Int
    BY <1>0, <2>1 DEF Account, Locals
  <2>3. /\ pc' = "idle" /\ Dest \in Slots /\ Dest # "last"
        /\ Live(vec[Dest]) /\ Kept({Dest, "last"})
        /\ vec'["last"] = IF call = "diff" THEN Null ELSE vec["last"]
        /\ \/ Live(vec'[Dest]) /\ heap' = heap - LastBlocks
           \/ ~Live(vec'[Dest]) /\ heap' = heap - LastBlocks - 1
    BY <1>12, <1>1, ComputeMoves, RoomyIsLive
  <2>4. ~Live(vec'["last"]) /\ ~Live(vec'["list"])
    <3>1. call # "diff" => ~Live(vec["last"])
      BY <2>1 DEF Account, Locals, Comparing
    <3>2. Dest # "list"
      BY <1>2, <2>1 DEF Dest, Where
    <3>3. vec'["list"] = vec["list"]
      BY <1>2, <2>3, <3>2 DEF Kept
    <3> QED BY <2>2, <2>3, <3>1, <3>3, RoomyIsLive
  <2>5. LastBlocks = One(vec["last"])
    <3>1. CASE call = "diff"
      BY <1>2, <3>1, FreedOne DEF LastBlocks
    <3>2. CASE call # "diff"
      BY <2>1, <3>2 DEF LastBlocks, One, Account, Locals, Comparing
    <3> QED BY <3>1, <3>2
  <2>6. Counts
    <3>1. One(vec["last"]) \in Int /\ One(vec[Dest]) = 1
      BY <2>3 DEF One
    <3>2. CASE Live(vec'[Dest]) /\ heap' = heap - LastBlocks
      BY <1>2, <2>1, <2>3, <2>4, <2>5, <3>2, TwoCounts DEF Account
    <3>3. CASE ~Live(vec'[Dest]) /\ heap' = heap - LastBlocks - 1
      <4>1. heap' = heap - (One(vec[Dest]) + One(vec["last"]))
        BY <2>2, <2>5, <3>1, <3>3
      <4> QED BY <1>2, <2>1, <2>3, <2>4, <3>3, <4>1, TwoCounts DEF Account
    <3> QED BY <2>3, <3>2, <3>3
  <2> QED BY <2>3, <2>4, <2>6 DEF Account, Locals
<1>13. CASE ThreadEnd
  <2>1. Account /\ pc = "idle" /\ pc' = pc /\ call' = call
    BY <1>1, <1>13 DEF ThreadEnd, Ready
  <2>2. /\ vec'["now"] = Null /\ vec'["diff"] = Null /\ Kept({"now", "diff"})
        /\ heap' = heap - Freed({"now", "diff"})
    BY <1>1, <1>13, ThreadEndMoves
  <2>3. Freed({"now", "diff"}) = One(vec["now"]) + One(vec["diff"])
    BY <1>2, FreedTwo, "now" # "diff", Zenon
  <2>4. Counts
    BY <1>2, <2>1, <2>2, <2>3, RoomyIsLive, TwoCounts DEF Account
  <2>5. vec'["last"] = vec["last"] /\ vec'["list"] = vec["list"]
    BY <1>2, <2>2 DEF Kept
  <2> QED BY <2>1, <2>4, <2>5 DEF Account, Locals, Comparing
<1>14. ASSUME NEW u \in Users, pc = "idle", ub = "none", pc' # "valid",
              \/ vec' = vec /\ heap' = heap
              \/ /\ Kept({u}) /\ \/ heap' = heap + 1 /\ vec[u] = Null /\ Roomy(vec'[u])
                                 \/ heap' = heap - 1 /\ Live(vec[u]) /\ vec'[u] = Null
       PROVE  Account'
  <2>1. Account /\ ~Live(vec["last"]) /\ ~Live(vec["list"])
    BY <1>1, <1>14 DEF Account, Locals, Comparing
  <2>2. vec'["last"] = vec["last"] /\ vec'["list"] = vec["list"]
    BY <1>2, <1>14 DEF Kept
  <2>3. Counts
    BY <1>2, <1>14, <2>1, RoomyIsLive, OneCounts DEF Account
  <2> QED BY <1>14, <2>1, <2>2, <2>3 DEF Account, Locals
<1>15. ASSUME NEW u \in Users, CallGetR(u) PROVE Account'
  <2>1. pc = "idle" /\ ub = "none" /\ pc' # "valid"
    BY <1>15 DEF CallGetR, Ready, GatherInto, FailMalloc, Return
  <2>2. \/ vec' = vec /\ heap' = heap
        \/ Kept({u}) /\ heap' = heap + 1 /\ vec[u] = Null /\ Roomy(vec'[u])
    BY <1>1, <1>15, CallGetRMoves, Zenon
  <2> QED BY <1>14, <2>1, <2>2, Zenon
<1>16. ASSUME NEW u \in Users, FreeBuf(u) PROVE Account'
  <2>1. pc = "idle" /\ ub = "none" /\ pc' # "valid"
    BY <1>16 DEF FreeBuf, Ready
  <2> QED BY <1>1, <1>14, <1>16, <2>1, FreeBufMoves
<1>17. ASSUME NEW u \in Users, NEW c \in Results, NEW l \in Results, CallBetween(u, c, l)
       PROVE  Account'
  <2>1. pc = "idle" /\ ub = "none" /\ pc' # "valid"
    BY <1>17 DEF CallBetween, Ready, Goto, FailMalloc, Return
  <2>2. \/ vec' = vec /\ heap' = heap
        \/ Kept({u}) /\ heap' = heap + 1 /\ vec[u] = Null /\ Roomy(vec'[u])
    BY <1>1, <1>17, CallBetweenMoves, Zenon
  <2> QED BY <1>14, <2>1, <2>2, Zenon
<1> QED
  BY <1>3, <1>4, <1>5, <1>6, <1>7, <1>8, <1>9, <1>10, <1>11, <1>12, <1>13, <1>15, <1>16,
     <1>17 DEF Next

\* Between calls every vector on the heap belongs to the thread-local buffer or to the
\* application, on every path of every call: the clone `last' and the result of a failed
\* gatherer are freed, a failed sg_vector_compute_diff() frees its target and the caller
\* forgets it.  The gatherer of file systems is included as long as its last allocation
\* does not fail; when it does, its list is lost (FsValid).
THEOREM NoLeakHolds ==
    ASSUME Kind = "each" => MinItems > 0, Kind = "each" \/ ~OOM
    PROVE  Spec => []NoLeak
<1>1. Init => Accounting
  <2>1. Init => Account
    <3> SUFFICES ASSUME Init PROVE Account
      OBVIOUS
    <3>1. Alive(vec) = {}
      BY RoomyIsLive DEF Init, Alive
    <3>2. Cardinality({}) = 0
      BY FS_EmptySet
    <3>3. ~Live(vec["last"]) /\ ~Live(vec["list"])
      BY SlotsDiffer, RoomyIsLive DEF Init
    <3> QED BY <3>1, <3>2, <3>3 DEF Init, Account, Locals
  <2> QED BY <2>1, LastingInit DEF Accounting
<1>2. Accounting /\ [Next]_vars => Accounting'
  BY AccountingNext
<1>3. Accounting => NoLeak
  <2> SUFFICES ASSUME Accounting, pc = "idle", ub = "none"
               PROVE  heap = Cardinality({s \in {"now", "diff"} \cup Users : Live(vec[s])})
    BY DEF NoLeak
  <2>1. Account /\ ~Live(vec["last"]) /\ ~Live(vec["list"])
    BY DEF Accounting, Account, Locals, Comparing
  <2>2. Alive(vec) = {s \in {"now", "diff"} \cup Users : Live(vec[s])}
    BY <2>1 DEF Alive, Slots
  <2> QED BY <2>1, <2>2 DEF Account
<1> QED BY <1>1, <1>2, <1>3, PTL DEF Spec
=============================================================================
