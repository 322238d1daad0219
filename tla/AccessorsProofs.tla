-------------------------- MODULE AccessorsProofs --------------------------
(***************************************************************************)
(* Proofs about Accessors, for every number of items, every set of block   *)
(* sizes and every number of results the application holds.                *)
(***************************************************************************)
EXTENDS Accessors, TLAPS

\* A vector whose header never claims more room than its heap block has.
Roomy(v) ==
    /\ v \in Vectors(MaxItems)
    /\ v.alloc >= 1 /\ v.alloc <= MaxItems + v.block
    /\ v.alloc <= v.cap /\ v.used <= v.cap

\* The sizes the other lemmas use.
LEMMA Sizes ==
    /\ MaxItems \in Nat /\ SizeMod \in Nat /\ SizeMod > 0
    /\ \A b \in Blocks : b \in Nat /\ b >= 1 /\ MaxItems + 2 * b <= SizeMod
<1>1. MaxItems \in Nat /\ \A b \in Blocks : MaxItems + 2 * b <= SizeMod
  BY AccessorsAssumption
<1>2. SizeMod \in Nat /\ SizeMod > 0
  BY SizeModAssumption
<1>3. \A b \in Blocks : b \in Nat /\ b >= 1
  BY BlocksAssumption
<1> QED BY <1>1, <1>2, <1>3

\* NEXT_POWER2_IN() of a count that is not 0 is not below the count, nor below a block,
\* and less than a block above it.
LEMMA RoundUpBounds ==
    ASSUME NEW x \in Nat, x >= 1, NEW b \in Blocks, x + b <= SizeMod
    PROVE  /\ RoundUp(x, b) \in Nat /\ RoundUp(x, b) >= x
           /\ RoundUp(x, b) >= b /\ RoundUp(x, b) < x + b
<1> DEFINE q == (x - 1) \div b
           r == (x - 1) % b
<1>1. b \in Nat /\ b >= 1 /\ SizeMod \in Nat /\ SizeMod > 0
  BY BlocksAssumption, SizeModAssumption
<1>2. (x - 1) % SizeMod = x - 1
  BY <1>1
<1>3. q \in Nat /\ r \in Nat /\ r < b /\ x - 1 = b * q + r
  BY <1>1
<1> HIDE DEF q, r
<1>4. (q + 1) * b = b * q + b
  BY <1>1, <1>3
<1>5. (q + 1) * b >= x /\ (q + 1) * b < x + b /\ (q + 1) * b \in Nat
  BY <1>1, <1>3, <1>4
<1>6. b * q >= 0
  BY <1>1, <1>3
<1>7. (q + 1) * b >= b
  BY <1>1, <1>3, <1>4, <1>6
<1>8. (q + 1) * b < SizeMod
  BY <1>1, <1>5
<1>9. ((q + 1) * b) % SizeMod = (q + 1) * b
  BY <1>1, <1>5, <1>8
<1>10. RoundUp(x, b) = (q + 1) * b
  BY <1>2, <1>9 DEF RoundUp, q
<1> QED
  BY <1>5, <1>7, <1>10

\* The loop of sg_vector_create() ends with a block that holds the block size asked for.
LEMMA BlockOfFits ==
    ASSUME NEW n \in 0..MaxItems
    PROVE  BlockOf(n) \in Blocks /\ BlockOf(n) >= n
BY AccessorsAssumption DEF BlockOf

\* What sg_vector_create_int() returns has the room its header claims, unless it is asked
\* for no room at all.
LEMMA AllocatedIsRoomy ==
    ASSUME NEW b \in Blocks, NEW n \in Nat, NEW u \in 0..MaxItems,
           n <= MaxItems + b, n >= 1 \/ u >= 1
    PROVE  Roomy(Allocated(b, n, u)) /\ Allocated(b, n, u).used = u
<1>1. Larger(n, u) \in Nat /\ Larger(n, u) >= 1 /\ Larger(n, u) >= u
      /\ Larger(n, u) <= MaxItems + b
  BY Sizes DEF Larger
<1>2. Larger(n, u) + b <= SizeMod
  BY <1>1, Sizes
<1>3. /\ RoundUp(Larger(n, u), b) \in Nat /\ RoundUp(Larger(n, u), b) >= Larger(n, u)
      /\ RoundUp(Larger(n, u), b) >= b
  BY <1>1, <1>2, RoundUpBounds
<1>4. b \in Nat /\ b >= 1 /\ MaxItems \in Nat
  BY Sizes
<1> QED
  BY <1>1, <1>3, <1>4 DEF Allocated, Roomy, Vectors

\* sg_vector_create() with a block size that is not 0.
LEMMA CreatedIsRoomy ==
    ASSUME NEW n \in Nat, n >= 1, n <= MaxItems \/ n \in Blocks, NEW u \in 0..MaxItems
    PROVE  Roomy(Created(n, n, u)) /\ Created(n, n, u).used = u
<1>1. BlockOf(n) \in Blocks /\ BlockOf(n) >= n
  <2>1. CASE n <= MaxItems
    BY <2>1, BlockOfFits, Sizes
  <2>2. CASE n \in Blocks
    <3>1. n >= n /\ \A c \in Blocks : c >= n => n <= c
      BY Sizes
    <3> QED BY <2>2, <3>1 DEF BlockOf
  <2> QED BY <2>1, <2>2
<1>2. n <= MaxItems + BlockOf(n)
  BY <1>1, Sizes
<1>3. Roomy(Allocated(BlockOf(n), n, u)) /\ Allocated(BlockOf(n), n, u).used = u
  BY <1>1, <1>2, AllocatedIsRoomy
<1> QED
  BY <1>3 DEF Created

\* sg_vector_resize() keeps the property, realloc() called or not.
LEMMA ResizedIsRoomy ==
    ASSUME NEW v, Roomy(v), NEW n \in 1..MaxItems
    PROVE  Roomy(Resized(v, n)) /\ Resized(v, n).used = n /\ Live(Resized(v, n))
<1> DEFINE r == RoundUp(n, v.block)
<1>1. /\ v = [st |-> "live", block |-> v.block, alloc |-> v.alloc, cap |-> v.cap,
              used |-> v.used]
      /\ v.block \in Blocks /\ v.alloc \in Nat /\ v.cap \in Nat /\ v.alloc <= v.cap
      /\ v.alloc >= 1 /\ v.alloc <= MaxItems + v.block
  BY DEF Roomy, Vectors
<1>2. /\ n \in Nat /\ n >= 1 /\ n <= MaxItems /\ n + v.block <= SizeMod
      /\ v.block \in Nat /\ v.block >= 1 /\ MaxItems \in Nat
  BY <1>1, Sizes
<1>3. r \in Nat /\ r >= n /\ r >= v.block /\ r < n + v.block
  BY <1>1, <1>2, RoundUpBounds
<1> DEFINE c == IF Reallocates(v, n) THEN r ELSE v.cap
<1>4. Resized(v, n) = [st |-> "live", block |-> v.block, alloc |-> r, cap |-> c, used |-> n]
  BY <1>1 DEF Resized
<1>5. c \in Nat /\ c >= r
  BY <1>1, <1>3 DEF Reallocates
<1> HIDE DEF r, c
<1> QED
  BY <1>1, <1>2, <1>3, <1>4, <1>5 DEF Roomy, Vectors, Live

\* sg_vector_clone() makes room for as many items as its source has.
LEMMA CloneIsRoomy ==
    ASSUME NEW v, Roomy(v)
    PROVE  Roomy(CloneOf(v)) /\ CloneOf(v).used = v.used
<1>1. v.block \in Blocks /\ v.alloc \in Nat /\ v.used \in 0..MaxItems
      /\ v.alloc >= 1 /\ v.alloc <= MaxItems + v.block
  BY DEF Roomy, Vectors
<1> QED
  BY <1>1, AllocatedIsRoomy DEF CloneOf

\* sg_vector_clear() leaves the room alone.
LEMMA ClearedIsRoomy ==
    ASSUME NEW v, Roomy(v)
    PROVE  Roomy(Cleared(v)) /\ Live(Cleared(v)) /\ Cleared(v).used = 0
BY Sizes DEF Roomy, Vectors, Cleared, Live

----------------------------------------------------------------------------
(* The room of every vector, through every call.                           *)

\* A pointer is NULL, dangling, or points to a vector with the room it needs.
Pointer(v) == v = Null \/ v = Gone \/ Roomy(v)

Shape ==
    /\ vec = [s \in Slots |-> vec[s]] /\ \A s \in Slots : Pointer(vec[s])
    /\ tgt \in Slots /\ cur \in Slots \cup {NoSlot}

\* Which vectors exist where in a call, and that the thread's last sample has items
\* unless it is being gathered: its size becomes a block size in sg_get_X_stats_diff().
Where ==
    /\ pc \in {"gather", "valid"} => Live(vec[tgt])
    /\ pc \in {"gather", "valid", "gathered"} =>
         \/ tgt = "now" /\ call \in {"get", "diff"}
         \/ tgt \in Users /\ call = "get_r"
    /\ pc = "get" => call \in {"get", "diff"}
    /\ pc = "clone" => call = "diff" /\ Live(vec["now"])
    /\ pc = "compute" => call = "diff" \/ (call = "between" /\ tgt \in Users /\ Live(vec[tgt]))
    /\ call = "diff" /\ pc # "idle" => Live(vec["diff"])
    /\ Live(vec["now"]) => vec["now"].used >= 1 \/ (pc \in {"gather", "valid"} /\ tgt = "now")

Room == Shape /\ (ub = "none" => Where)

\* The slots of the thread are none of the application's.
LEMMA SlotsDiffer ==
    /\ \A s \in {"now", "diff", "last", "list"} : s \in Slots /\ s \notin Users
    /\ \A u \in Users : u \in Slots
    /\ NoSlot \notin Slots
BY AccessorsAssumption DEF Slots

\* What a pointer of the right kind has.
LEMMA PointerFacts ==
    ASSUME NEW v, Pointer(v)
    PROVE  /\ v.used \in 0..MaxItems /\ v.used <= v.cap
           /\ Live(v) <=> Roomy(v)
           /\ v = Null => ~Live(v)
<1>1. CASE v = Null
  BY <1>1, Sizes DEF Null, Live, Roomy, Vectors
<1>2. CASE v = Gone
  BY <1>2, Sizes DEF Gone, Null, Live, Roomy, Vectors
<1>3. CASE Roomy(v)
  BY <1>3, Sizes DEF Null, Live, Roomy, Vectors
<1> QED BY <1>1, <1>2, <1>3 DEF Pointer

\* The pointers that the calls store.
LEMMA NullIsPointer == Pointer(Null) /\ Pointer(Gone) /\ ~Live(Null) /\ ~Live(Gone)
BY DEF Pointer, Null, Gone, Live

\* A slot that gets a pointer leaves every slot with one.
LEMMA StorePointer ==
    ASSUME Shape, NEW s \in Slots, NEW v, Pointer(v), vec' = [vec EXCEPT ![s] = v]
    PROVE  /\ vec' = [x \in Slots |-> vec'[x]]
           /\ \A x \in Slots : Pointer(vec'[x])
           /\ vec'[s] = v /\ \A x \in Slots \ {s} : vec'[x] = vec[x]
BY DEF Shape

\* The vector sg_get_X_stats() starts with.
LEMMA FreshIsRoomy == Roomy(Fresh)
<1>1. Chunk \in Blocks
  BY AccessorsAssumption
<1>2. Chunk \in Nat /\ Chunk >= 1 /\ 0 \in 0..MaxItems
  BY <1>1, Sizes
<1> QED BY <1>1, <1>2, CreatedIsRoomy DEF Fresh

\* Every slot is empty before the first call.
LEMMA RoomInit == Init => Room
BY SlotsDiffer, NullIsPointer DEF Init, Room, Shape, Where

\* sg_get_X_stats(), up to the gatherer.
LEMMA RoomGetStart ==
    ASSUME Room, GetStart PROVE Room'
<1>1. Shape /\ Where /\ ub = "none" /\ pc = "get" /\ ub' = ub /\ call' = call
  BY DEF GetStart, Ready, Room
<1>2. "now" \in Slots /\ "diff" \in Slots /\ "now" # "diff"
  BY SlotsDiffer
<1>3. CASE FailMalloc /\ vec' = vec /\ vec["now"] = Null
  BY <1>1, <1>2, <1>3, NullIsPointer DEF FailMalloc, Return, Room, Shape, Where
<1>4. CASE \E v : Set("now", v) /\ Roomy(v) /\ GatherInto("now")
  <2>1. PICK v : Set("now", v) /\ Roomy(v) /\ GatherInto("now")
    BY <1>4
  <2>2. Pointer(v) /\ Live(v)
    BY <2>1, PointerFacts DEF Pointer
  <2>3. Shape' /\ vec'["now"] = v /\ \A x \in Slots \ {"now"} : vec'[x] = vec[x]
    BY <1>1, <1>2, <2>1, <2>2, StorePointer DEF Set, GatherInto, Shape
  <2> QED
    BY <1>1, <1>2, <2>1, <2>2, <2>3 DEF GatherInto, Room, Where
<1>5. Roomy(Fresh)
  BY FreshIsRoomy
<1>6. Live(vec["now"]) => Roomy(Cleared(vec["now"]))
  BY <1>1, <1>2, PointerFacts, ClearedIsRoomy DEF Shape
<1> QED
  BY <1>3, <1>4, <1>5, <1>6 DEF GetStart

\* sg_get_X_stats_r(), up to the gatherer.
LEMMA RoomCallGetR ==
    ASSUME Room, NEW u \in Users, CallGetR(u) PROVE Room'
<1>1. Shape /\ Where /\ ub = "none" /\ pc = "idle" /\ ub' = ub /\ call' = "get_r"
  BY DEF CallGetR, Ready, Room
<1>2. "now" \in Slots /\ u \in Slots /\ "now" # u
  BY SlotsDiffer
<1>3. CASE FailMalloc /\ vec' = vec
  BY <1>1, <1>2, <1>3 DEF FailMalloc, Return, Room, Shape, Where
<1>4. CASE Set(u, Fresh) /\ GatherInto(u)
  <2>1. Pointer(Fresh) /\ Live(Fresh)
    BY FreshIsRoomy, PointerFacts DEF Pointer
  <2>2. Shape' /\ vec'[u] = Fresh /\ \A x \in Slots \ {u} : vec'[x] = vec[x]
    BY <1>1, <1>2, <1>4, <2>1, StorePointer DEF Set, GatherInto, Shape
  <2> QED
    BY <1>1, <1>2, <1>4, <2>1, <2>2 DEF GatherInto, Room, Where
<1> QED
  BY <1>3, <1>4 DEF CallGetR

\* VECTOR_UPDATE(): the vector grows into room it has, or into room it gets.
LEMMA RoomGatherItem ==
    ASSUME Room, GatherItem PROVE Room'
<1> DEFINE v == vec[Into]
           n == v.used + 1
<1>1. Shape /\ Where /\ ub = "none" /\ pc = "gather" /\ UNCHANGED <<pc, call, tgt, cur>>
  BY DEF GatherItem, Ready, Room, locals
<1>2. Into \in Slots /\ (Into = tgt \/ Into = "list") /\ tgt \in Slots
      /\ tgt # "list" /\ "now" \in Slots /\ "diff" \in Slots /\ Into # "diff"
      /\ "now" # "list"
  BY <1>1, SlotsDiffer DEF Into, Where
<1>3. Pointer(v) /\ v.used \in 0..MaxItems /\ (Live(v) => Roomy(v))
  BY <1>1, <1>2, PointerFacts DEF Shape
<1>4. CASE Set(Into, Updated(v, n)) /\ n <= MaxItems /\ ub' = ub
  <2>1. n \in Nat /\ n >= 1 /\ n \in 1..MaxItems /\ n \in 0..MaxItems
    BY <1>3, <1>4, Sizes
  <2>2. Roomy(Updated(v, n))
    <3>1. CASE Live(v)
      BY <1>3, <2>1, <3>1, ResizedIsRoomy DEF Updated
    <3>2. CASE ~Live(v)
      BY <1>4, <2>1, <3>2, CreatedIsRoomy DEF Updated
    <3> QED BY <3>1, <3>2
  <2>3. Pointer(Updated(v, n)) /\ Live(Updated(v, n))
    BY <2>2, PointerFacts DEF Pointer
  <2>4. /\ Shape' /\ vec'[Into] = Updated(v, n)
        /\ \A x \in Slots \ {Into} : vec'[x] = vec[x]
    BY <1>1, <1>2, <1>4, <2>3, StorePointer DEF Set, Shape
  <2> QED
    BY <1>1, <1>2, <1>4, <2>3, <2>4 DEF Room, Where
<1>5. CASE Set(Into, Null) /\ ub' = "null pointer"
  <2>1. Shape'
    BY <1>1, <1>2, <1>5, NullIsPointer, StorePointer DEF Set, Shape
  <2> QED
    BY <1>5, <2>1 DEF Room
<1> QED
  BY <1>4, <1>5 DEF GatherItem

\* A gatherer ends with an item in the vector it was given, or in its list.
LEMMA RoomGatherEnd ==
    ASSUME Kind = "each" => MinItems > 0, Room, GatherEnd PROVE Room'
<1>1. /\ Shape /\ Where /\ ub = "none" /\ pc = "gather"
      /\ UNCHANGED <<vec, call, tgt, cur, ub>>
      /\ vec[Into].used >= MinItems
      /\ pc' = IF Kind = "fs" THEN "valid" ELSE "gathered"
  BY DEF GatherEnd, Ready, Room, Goto
<1>2. Kind \in {"each", "fs"} /\ MinItems \in Nat
  BY AccessorsAssumption
<1>3. vec[tgt].used \in 0..MaxItems
  BY <1>1, PointerFacts DEF Shape
<1>4. CASE Kind = "fs"
  BY <1>1, <1>4 DEF Room, Shape, Where
<1>5. CASE Kind = "each"
  <2>1. vec[tgt].used >= 1 /\ pc' = "gathered"
    BY <1>1, <1>2, <1>3, <1>5, Sizes DEF Into
  <2> QED
    BY <1>1, <2>1 DEF Room, Shape, Where
<1> QED BY <1>2, <1>4, <1>5

\* Two slots that get pointers leave every slot with one.
LEMMA StorePointers ==
    ASSUME Shape, NEW s \in Slots, NEW x \in Slots, s # x, NEW v, NEW w,
           Pointer(v), Pointer(w), vec' = [[vec EXCEPT ![s] = v] EXCEPT ![x] = w]
    PROVE  /\ vec' = [z \in Slots |-> vec'[z]]
           /\ \A z \in Slots : Pointer(vec'[z])
           /\ vec'[s] = v /\ vec'[x] = w
           /\ \A z \in Slots \ {s, x} : vec'[z] = vec[z]
BY DEF Shape

\* sg_get_fs_stats_int() leaves its caller no vector, or one with an item.
LEMMA RoomFsValid ==
    ASSUME Room, FsValid PROVE Room'
<1>1. /\ Shape /\ Where /\ ub = "none" /\ pc = "valid" /\ pc' = "gathered"
      /\ UNCHANGED <<call, tgt, cur, ub>>
  BY DEF FsValid, Ready, Room, Goto
<1>2. tgt \in Slots /\ "list" \in Slots /\ "now" \in Slots /\ "diff" \in Slots
      /\ tgt # "list" /\ "now" # "list" /\ "diff" # "list" /\ tgt # "diff"
  BY <1>1, SlotsDiffer DEF Where
<1>3. Roomy(vec[tgt])
  BY <1>1, <1>2, PointerFacts DEF Shape, Where
<1>4. \E v : /\ vec' = [vec EXCEPT ![tgt] = v, !["list"] = Null]
             /\ v = Null \/ (Roomy(v) /\ v.used >= 1)
  <2>1. PICK n \in 0..MaxItems :
          \/ vec' = [vec EXCEPT ![tgt] = Emptied, !["list"] = Null]
          \/ n > 0 /\ vec' = [vec EXCEPT ![tgt] = Resized(@, n), !["list"] = Null]
          \/ vec' = [vec EXCEPT ![tgt] = Null, !["list"] = Null]
    BY DEF FsValid
  <2>2. n > 0 => Roomy(Resized(vec[tgt], n)) /\ Resized(vec[tgt], n).used >= 1
    <3>1. n > 0 => n \in 1..MaxItems
      BY Sizes
    <3> QED BY <3>1, <1>3, ResizedIsRoomy
  <2>3. CASE vec' = [vec EXCEPT ![tgt] = Emptied, !["list"] = Null]
    BY <2>3 DEF Emptied
  <2>4. CASE n > 0 /\ vec' = [vec EXCEPT ![tgt] = Resized(@, n), !["list"] = Null]
    <3>1. vec' = [vec EXCEPT ![tgt] = Resized(vec[tgt], n), !["list"] = Null]
      BY <1>1, <1>2, <2>4 DEF Shape
    <3> QED BY <3>1, <2>2, <2>4
  <2>5. CASE vec' = [vec EXCEPT ![tgt] = Null, !["list"] = Null]
    BY <2>5
  <2> QED BY <2>1, <2>3, <2>4, <2>5
<1>5. PICK v : /\ vec' = [[vec EXCEPT ![tgt] = v] EXCEPT !["list"] = Null]
               /\ v = Null \/ (Roomy(v) /\ v.used >= 1)
  BY <1>4
<1>6. Pointer(v) /\ (Live(v) => v.used >= 1)
  BY <1>5, NullIsPointer DEF Pointer
<1>7. /\ Shape' /\ vec'[tgt] = v /\ \A x \in Slots \ {tgt, "list"} : vec'[x] = vec[x]
  BY <1>1, <1>2, <1>5, <1>6, NullIsPointer, StorePointers DEF Shape
<1> QED
  BY <1>1, <1>2, <1>6, <1>7 DEF Room, Where

\* After the gatherer.
LEMMA RoomGathered ==
    ASSUME Room, Gathered PROVE Room'
<1>1. /\ Shape /\ Where /\ ub = "none" /\ pc = "gathered"
      /\ UNCHANGED <<call, ub>>
  BY DEF Gathered, Ready, Room
<1>2. tgt \in Slots /\ "now" \in Slots /\ "diff" \in Slots
  BY <1>1, SlotsDiffer DEF Where
<1>3. CASE call = "get_r" /\ Set(tgt, Null)
  <2>1. pc' = "idle" /\ tgt' \in Slots /\ cur' \in Slots \cup {NoSlot} /\ tgt # "now"
    BY <1>1, <1>3, SlotsDiffer DEF Gathered, Return, Where
  <2>2. Shape' /\ vec'["now"] = vec["now"]
    BY <1>1, <1>2, <1>3, <2>1, NullIsPointer, StorePointer DEF Set, Shape
  <2> QED
    BY <1>1, <1>2, <1>3, <2>1, <2>2 DEF Room, Where
<1>4. CASE vec' = vec
  BY <1>1, <1>2, <1>4 DEF Gathered, Return, Goto, locals, Room, Shape, Where
<1> QED BY <1>3, <1>4 DEF Gathered

\* The vector for the difference is made only from a sample with items.
LEMMA RoomCallDiff ==
    ASSUME Room, CallDiff PROVE Room'
<1>1. Shape /\ Where /\ ub = "none" /\ pc = "idle" /\ ub' = ub
  BY DEF CallDiff, Ready, Room
<1>2. "now" \in Slots /\ "diff" \in Slots /\ "now" # "diff"
  BY SlotsDiffer
<1>3. CASE Set("diff", Created(vec["now"].used, vec["now"].used, 0)) /\ Live(vec["now"])
           /\ call' = "diff" /\ Goto("clone") /\ UNCHANGED locals
  <2> DEFINE v == Created(vec["now"].used, vec["now"].used, 0)
  <2>1. vec["now"].used \in 0..MaxItems /\ vec["now"].used >= 1
    BY <1>1, <1>2, <1>3, PointerFacts DEF Shape, Where
  <2>2. Roomy(v)
    BY <2>1, Sizes, CreatedIsRoomy
  <2>3. Pointer(v) /\ Live(v)
    BY <2>2, PointerFacts DEF Pointer
  <2>4. Shape' /\ vec'["diff"] = v /\ \A x \in Slots \ {"diff"} : vec'[x] = vec[x]
    BY <1>1, <1>2, <1>3, <2>3, StorePointer DEF Set, Shape, locals
  <2> QED
    BY <1>1, <1>2, <1>3, <2>3, <2>4 DEF Goto, Room, Where, locals
<1>4. CASE FailMalloc /\ vec' = vec
  BY <1>1, <1>2, <1>4 DEF FailMalloc, Return, Room, Shape, Where
<1>5. CASE call' = "get" /\ pc' = "get" /\ UNCHANGED <<vec, tgt, cur>>
  BY <1>1, <1>2, <1>5 DEF Room, Shape, Where
<1>6. CASE /\ Live(vec["now"]) /\ Live(vec["diff"])
           /\ call' = "diff" /\ pc' = "clone" /\ UNCHANGED <<vec, tgt, cur>>
  BY <1>1, <1>2, <1>6 DEF Room, Shape, Where
<1> QED BY <1>3, <1>4, <1>5, <1>6 DEF CallDiff, Goto, locals

\* sg_vector_clone() of the last sample.
LEMMA RoomCloneLast ==
    ASSUME Room, CloneLast PROVE Room'
<1>1. Shape /\ Where /\ ub = "none" /\ pc = "clone" /\ UNCHANGED <<call, ub>>
  BY DEF CloneLast, Ready, Room
<1>2. /\ "now" \in Slots /\ "diff" \in Slots /\ "last" \in Slots
      /\ "now" # "last" /\ "diff" # "last"
  BY SlotsDiffer
<1>3. CASE FailMalloc /\ vec' = vec
  BY <1>1, <1>2, <1>3 DEF FailMalloc, Return, Room, Shape, Where
<1>4. CASE Set("last", CloneOf(vec["now"])) /\ cur' = "now" /\ pc' = "get" /\ tgt' = tgt
  <2>1. Pointer(CloneOf(vec["now"]))
    BY <1>1, <1>2, PointerFacts, CloneIsRoomy DEF Shape, Where, Pointer
  <2>2. Shape' /\ \A x \in Slots \ {"last"} : vec'[x] = vec[x]
    BY <1>1, <1>2, <1>4, <2>1, StorePointer DEF Set, Shape
  <2> QED
    BY <1>1, <1>2, <1>4, <2>2 DEF Room, Where
<1> QED
  BY <1>3, <1>4 DEF CloneLast, Goto

\* sg_get_X_stats_diff_between(), up to the loop.
LEMMA RoomCallBetween ==
    ASSUME Room, NEW u \in Users, NEW c \in Results, NEW l \in Results, CallBetween(u, c, l)
    PROVE  Room'
<1>1. Shape /\ Where /\ ub = "none" /\ pc = "idle" /\ ub' = ub /\ call' = "between"
  BY DEF CallBetween, Ready, Room
<1>2. "now" \in Slots /\ u \in Slots /\ "now" # u /\ c \in Slots \cup {NoSlot}
  BY SlotsDiffer DEF Results
<1>3. CASE FailMalloc /\ vec' = vec
  BY <1>1, <1>2, <1>3 DEF FailMalloc, Return, Room, Shape, Where
<1>4. CASE Set(u, Created(1, 1, 0)) /\ tgt' = u /\ cur' = c /\ pc' = "compute"
  <2>1. Roomy(Created(1, 1, 0))
    BY CreatedIsRoomy, BlocksAssumption, Sizes
  <2>2. Pointer(Created(1, 1, 0)) /\ Live(Created(1, 1, 0))
    BY <2>1, PointerFacts DEF Pointer
  <2>3. Shape' /\ vec'[u] = Created(1, 1, 0) /\ \A x \in Slots \ {u} : vec'[x] = vec[x]
    BY <1>1, <1>2, <1>4, <2>2, StorePointer DEF Set, Shape
  <2> QED
    BY <1>1, <1>2, <1>4, <2>2, <2>3 DEF Room, Where
<1> QED
  BY <1>3, <1>4 DEF CallBetween, Goto

\* sg_vector_compute_diff(): its target keeps its room, grows, or is freed.
LEMMA RoomCompute ==
    ASSUME Room, Compute PROVE Room'
<1> DEFINE d == vec[Dest]
           c == vec[cur]
<1>1. Shape /\ Where /\ ub = "none" /\ pc = "compute" /\ call' = call
  BY DEF Compute, Ready, Room
<1>2. /\ Dest \in Slots /\ Dest # "last" /\ Dest # "now" /\ Roomy(d)
      /\ "now" \in Slots /\ "last" \in Slots /\ "now" # "last"
      /\ tgt \in Slots
  BY <1>1, SlotsDiffer, PointerFacts DEF Where, Shape, Dest
<1>3. CASE /\ \E v : Pointer(v) /\ vec' = LastFreed([vec EXCEPT ![Dest] = v])
           /\ pc' = "idle" /\ tgt' = "now" /\ cur' = NoSlot
  <2>1. PICK v : Pointer(v) /\ vec' = LastFreed([vec EXCEPT ![Dest] = v])
    BY <1>3
  <2>2. Shape' /\ vec'["now"] = vec["now"]
    <3>1. CASE call = "diff"
      <4>1. vec' = [[vec EXCEPT ![Dest] = v] EXCEPT !["last"] = Null]
        BY <2>1, <3>1 DEF LastFreed
      <4> QED
        BY <1>1, <1>2, <1>3, <2>1, <4>1, NullIsPointer, StorePointers DEF Shape
    <3>2. CASE call # "diff"
      <4>1. vec' = [vec EXCEPT ![Dest] = v]
        BY <2>1, <3>2 DEF LastFreed
      <4> QED
        BY <1>1, <1>2, <1>3, <2>1, <4>1, StorePointer DEF Shape
    <3> QED BY <3>1, <3>2
  <2> QED
    BY <1>1, <1>2, <1>3, <2>2 DEF Room, Where
<1>4. CASE Set(Dest, Gone) /\ ub' # "none" /\ UNCHANGED <<tgt, cur>>
  <2>1. Shape'
    BY <1>1, <1>2, <1>4, NullIsPointer, StorePointer DEF Set, Shape
  <2> QED BY <1>4, <2>1 DEF Room
<1>5. CurLive => c.used \in 0..MaxItems
  BY <1>1, PointerFacts DEF Shape, CurLive
<1>6. CurLive /\ c.used > 0 => Pointer(Resized(d, c.used))
  <2>1. CurLive /\ c.used > 0 => c.used \in 1..MaxItems
    BY <1>5, Sizes
  <2> QED BY <2>1, <1>2, ResizedIsRoomy DEF Pointer
<1>7. Pointer(d) /\ Pointer(Null)
  BY <1>2, NullIsPointer DEF Pointer
<1>8. \/ /\ CurLive /\ vec' = LastFreed([vec EXCEPT ![Dest] = d])
         /\ pc' = "idle" /\ tgt' = "now" /\ cur' = NoSlot
      \/ /\ CurLive /\ c.used > 0 /\ vec' = LastFreed([vec EXCEPT ![Dest] = Resized(d, c.used)])
         /\ pc' = "idle" /\ tgt' = "now" /\ cur' = NoSlot
      \/ /\ vec' = LastFreed([vec EXCEPT ![Dest] = Null])
         /\ pc' = "idle" /\ tgt' = "now" /\ cur' = NoSlot
      \/ Set(Dest, Gone) /\ ub' # "none" /\ UNCHANGED <<tgt, cur>>
  BY DEF Compute, Return, locals
<1> QED
  BY <1>3, <1>4, <1>6, <1>7, <1>8

\* The rest of the actions make no vector.
LEMMA RoomCleanup ==
    ASSUME Room, CallGet \/ ThreadEnd \/ (\E u \in Users : FreeBuf(u)) \/ UNCHANGED vars
    PROVE  Room'
<1>1. CASE CallGet
  BY <1>1 DEF CallGet, Ready, Goto, locals, Room, Shape, Where
<1>2. CASE ThreadEnd
  <2>1. /\ Shape /\ ub = "none" /\ pc = "idle" /\ UNCHANGED <<tgt, cur, pc, call, ub>>
        /\ vec' = [[vec EXCEPT !["now"] = Null] EXCEPT !["diff"] = Null]
    BY <1>2 DEF ThreadEnd, Ready, locals, Room, CleanedUp
  <2>2. "now" \in Slots /\ "diff" \in Slots /\ "now" # "diff"
    BY SlotsDiffer
  <2>3. Shape' /\ vec'["now"] = Null
    BY <2>1, <2>2, NullIsPointer, StorePointers DEF Shape
  <2> QED BY <2>1, <2>3, NullIsPointer DEF Room, Where
<1>3. ASSUME NEW u \in Users, FreeBuf(u) PROVE Room'
  <2>1. /\ Shape /\ Where /\ ub = "none" /\ pc = "idle"
        /\ UNCHANGED <<tgt, cur, pc, call, ub>> /\ vec' = [vec EXCEPT ![u] = Null]
    BY <1>3 DEF FreeBuf, Ready, locals, Room, Set
  <2>2. "now" \in Slots /\ u \in Slots /\ u # "now"
    BY SlotsDiffer
  <2>3. Shape' /\ vec'["now"] = vec["now"]
    BY <2>1, <2>2, NullIsPointer, StorePointer DEF Shape
  <2> QED BY <2>1, <2>3 DEF Room, Where
<1>4. CASE UNCHANGED vars
  BY <1>4 DEF vars, locals, Room, Shape, Where
<1> QED BY <1>1, <1>2, <1>3, <1>4

\* The inductive step.
LEMMA RoomNext ==
    ASSUME Kind = "each" => MinItems > 0, Room, [Next]_vars PROVE Room'
BY RoomGetStart, RoomCallGetR, RoomGatherItem, RoomGatherEnd, RoomFsValid, RoomGathered,
   RoomCallDiff, RoomCloneLast, RoomCallBetween, RoomCompute, RoomCleanup DEF Next

\* No call writes an item outside its vector: whatever sequence of get, diff and between
\* calls an application makes and whichever allocation fails, used_count stays within the
\* room malloc() gave, although sg_vector_create_int() writes a smaller alloc_count than
\* it allocates and sg_vector_resize() compares with that.  Gatherers that append straight
\* to the caller's vector must find an item before they end: the vector of a difference
\* made from a sample without items has no room, and a header that says one item.
THEOREM CapacityHolds ==
    ASSUME Kind = "each" => MinItems > 0
    PROVE  Spec => []CapacityCoversUse
<1>1. Init => Room
  BY RoomInit
<1>2. Room /\ [Next]_vars => Room'
  BY RoomNext
<1>3. Room => CapacityCoversUse
  BY PointerFacts DEF Room, Shape, CapacityCoversUse
<1> QED BY <1>1, <1>2, <1>3, PTL DEF Spec

----------------------------------------------------------------------------
(* Failures and their reasons.                                             *)

\* What the reason of a failure rests on inside a call: from the end of the gatherer to
\* the end of the accessor, nothing clears the gatherer's error.
Reasons ==
    /\ Kind = "each" => pc # "valid"
    /\ pc = "gathered" /\ rc # "NONE" => err # "NONE"
    /\ pc = "idle" /\ ~ok => err # "NONE"

\* Every step keeps the reason.
LEMMA ReasonsNext ==
    ASSUME Kind = "each", ub = "none" => Reasons, [Next]_vars PROVE (ub = "none" => Reasons)'
<1>1. CASE UNCHANGED vars
  BY <1>1 DEF vars, locals, Reasons
<1>2. CASE CallGet
  BY <1>2 DEF CallGet, Goto, Ready, locals, Reasons
<1>3. CASE GetStart
  BY <1>3 DEF GetStart, GatherInto, FailMalloc, Return, Ready, Reasons
<1>4. CASE GatherItem
  BY <1>4 DEF GatherItem, Ready, locals, Reasons
<1>5. CASE GatherEnd
  BY <1>5 DEF GatherEnd, Goto, Ready, Reasons
<1>6. CASE FsValid
  BY <1>6 DEF FsValid, Ready, Reasons
<1>7. CASE Gathered
  <2>1. CASE call = "diff"
    BY <1>7, <2>1 DEF Gathered, Goto, Ready, locals, Reasons
  <2>2. CASE call # "diff"
    BY <1>7, <2>2 DEF Gathered, ErrAfter, Return, Ready, Reasons
  <2> QED BY <2>1, <2>2
<1>8. CASE CallDiff
  BY <1>8 DEF CallDiff, Goto, FailMalloc, Return, Ready, locals, Reasons
<1>9. CASE CloneLast
  BY <1>9 DEF CloneLast, Goto, FailMalloc, Return, Ready, Reasons
<1>10. CASE Compute
  BY <1>10 DEF Compute, Return, Ready, locals, Reasons
<1>11. CASE ThreadEnd
  BY <1>11 DEF ThreadEnd, Ready, locals, Reasons
<1>12. ASSUME NEW u \in Users, CallGetR(u) PROVE (ub = "none" => Reasons)'
  BY <1>12 DEF CallGetR, GatherInto, FailMalloc, Return, Ready, Reasons
<1>13. ASSUME NEW u \in Users, FreeBuf(u) PROVE (ub = "none" => Reasons)'
  BY <1>13 DEF FreeBuf, Ready, locals, Reasons
<1>14. ASSUME NEW u \in Users, NEW c \in Results, NEW l \in Results, CallBetween(u, c, l)
       PROVE  (ub = "none" => Reasons)'
  BY <1>14 DEF CallBetween, Goto, FailMalloc, Return, Ready, Reasons
<1> QED
  BY <1>1, <1>2, <1>3, <1>4, <1>5, <1>6, <1>7, <1>8, <1>9, <1>10, <1>11, <1>12, <1>13,
     <1>14 DEF Next

\* A call that fails has left its reason, for every gatherer that appends to the vector it
\* is given: the copies, resizes and differences that follow a failed gatherer never wipe
\* it out before the call returns.  The gatherer of file systems does: after a failure its
\* VECTOR_UPDATE(.., 0, ..) clears the error (FsValid).
THEOREM FailureHasErrorHolds ==
    ASSUME Kind = "each"
    PROVE  Spec => []FailureHasError
<1>1. Init => (ub = "none" => Reasons)
  BY DEF Init, Reasons
<1>2. (ub = "none" => Reasons) /\ [Next]_vars => (ub = "none" => Reasons)'
  BY ReasonsNext
<1>3. (ub = "none" => Reasons) => FailureHasError
  BY DEF Reasons, FailureHasError
<1> QED BY <1>1, <1>2, <1>3, PTL DEF Spec
============================================================================
