----------------------------- MODULE Accessors -----------------------------
(***************************************************************************)
(* What one thread does with the vectors of a component that reports a     *)
(* list of items: the functions MULTI_COMP_ACCESS and MULTI_COMP_DIFF      *)
(* generate (src/libstatgrab/globals.h), the vector operations they call   *)
(* (vector.c) and the shape of the two kinds of gatherers below them.      *)
(* Vectors belong to one thread, so calls do not interleave; what is hard  *)
(* is which call follows which, and which step of a call fails.            *)
(*                                                                         *)
(* Kind "each" is a gatherer that appends to the vector it is given, one   *)
(* VECTOR_UPDATE(n + 1) per item (sg_get_network_io_stats_int() and most   *)
(* others on Linux); Kind "fs" is sg_get_fs_stats_int(), which appends to  *)
(* a list of its own and then copies the valid items in one go.            *)
(*                                                                         *)
(* ub tells the first undefined behaviour a step ran into; nothing is      *)
(* known of the program after it, so nothing happens in the model either.  *)
(***************************************************************************)
EXTENDS Vector, FiniteSets

CONSTANTS
    Users,      \* variables of the application that hold results it must free
    NoSlot,     \* the argument NULL
    Kind,       \* "each" or "fs"
    Chunk,      \* block size of a fresh result vector (16 in the code)
    MinItems,   \* items a gatherer has appended before it may end or fail
    MaxItems,   \* bound: items on the system
    OOM,        \* TRUE: allocations may fail
    MaxHeap     \* bound: no list is lost when more vectors than this are on the heap

ASSUME AccessorsAssumption ==
    /\ NoSlot \notin Users \cup {"now", "diff", "last", "list"}
    /\ Users \cap {"now", "diff", "last", "list"} = {}
    /\ IsFiniteSet(Users)
    /\ Kind \in {"each", "fs"} /\ OOM \in BOOLEAN
    /\ Chunk \in Blocks
    /\ MaxHeap \in Nat
    /\ MinItems \in Nat /\ MaxItems \in Nat /\ MinItems <= MaxItems
    /\ \A b \in Blocks : MaxItems + 2 * b <= SizeMod
    /\ \A n \in 0..MaxItems :
         \E b \in Blocks : b >= n /\ \A c \in Blocks : c >= n => b <= c

\* The two vectors of the component in the thread-local buffer, the two local variables
\* `last' and `tmp', and the application's results.
Slots == {"now", "diff", "last", "list"} \cup Users

VARIABLES
    vec,     \* the pointer in each slot
    whole,   \* slots filled from complete samples only
    heap,    \* vectors malloc()ed and not freed
    pc,      \* program counter
    call,    \* the function called
    tgt, cur, old, rc,   \* its arguments and locals: rc is what the gatherer returned
    err,     \* sg_get_error()
    ok,      \* the last call reported success
    ub       \* undefined behaviour met

locals == <<tgt, cur, old, rc>>
vars == <<vec, whole, heap, pc, call, locals, err, ok, ub>>

Goto(label) == pc' = label
Ready(label) == pc = label /\ ub = "none"
Set(s, v) == vec' = [vec EXCEPT ![s] = v]

\* The function called returns to the application; its locals are dead.
Return(success) ==
    /\ pc' = "idle" /\ ok' = success
    /\ tgt' = "now" /\ cur' = NoSlot /\ old' = NoSlot /\ rc' = "NONE"

\* ... because an allocation failed.
FailMalloc == OOM /\ err' = "MALLOC" /\ Return(FALSE)

----------------------------------------------------------------------------
(* sg_get_X_stats()                                                        *)

Fresh == Created(Chunk, Chunk, 0)
GatherInto(s) == pc' = "gather" /\ tgt' = s /\ UNCHANGED <<cur, old, rc, ok>>

CallGet ==
    /\ Ready("idle")
    /\ call' = "get" /\ Goto("get")
    /\ UNCHANGED <<vec, whole, heap, locals, err, ok, ub>>

\* The vector of the last call is emptied, or a new one is made.
GetStart ==
    /\ Ready("get")
    /\ \/ /\ vec["now"] = Null
          /\ Set("now", Fresh) /\ heap' = heap + 1
          /\ GatherInto("now") /\ UNCHANGED err
       \/ vec["now"] = Null /\ FailMalloc /\ UNCHANGED <<vec, heap>>
       \/ /\ Live(vec["now"])
          /\ Set("now", Cleared(vec["now"]))
          /\ GatherInto("now") /\ UNCHANGED <<heap, err>>
    /\ whole' = whole \ {"now"}
    /\ UNCHANGED <<call, ub>>

\* sg_get_X_stats_r(): the same gathering into a vector the application will own.
CallGetR(u) ==
    /\ Ready("idle") /\ vec[u] = Null
    /\ call' = "get_r"
    /\ \/ Set(u, Fresh) /\ heap' = heap + 1 /\ GatherInto(u) /\ UNCHANGED err
       \/ FailMalloc /\ UNCHANGED <<vec, heap>>
    /\ UNCHANGED <<whole, ub>>

----------------------------------------------------------------------------
(* The gatherers                                                           *)

\* The vector items are appended to.
Into == IF Kind = "fs" THEN "list" ELSE tgt

\* VECTOR_CREATE_OR_RESIZE() with n > 0.
Updated(v, n) == IF Live(v) THEN Resized(v, n) ELSE Created(n, n, n)
Allocates(v, n) == Live(v) => Reallocates(v, n)

\* VECTOR_UPDATE(ptr, n + 1, data): the test !new_count of the macro becomes
\* !n + 1, which is never 0, so that a failed allocation is not returned as an error;
\* data is NULL and the item is written to.
GatherItem ==
    /\ Ready("gather")
    /\ LET v == vec[Into]
           n == v.used + 1
       IN  /\ n <= MaxItems
           /\ \/ /\ Set(Into, Updated(v, n))
                 /\ heap' = IF Live(v) THEN heap ELSE heap + 1
                 /\ UNCHANGED <<err, ub>>
              \/ /\ OOM /\ Allocates(v, n)
                 /\ Set(Into, Null)
                 /\ heap' = IF Live(v) THEN heap - 1 ELSE heap
                 /\ err' = "MALLOC" /\ ub' = "null pointer"
    /\ UNCHANGED <<whole, pc, call, locals, ok>>

\* The source is exhausted, or reading it fails.
GatherEnd ==
    /\ Ready("gather") /\ vec[Into].used >= MinItems
    /\ \/ rc' = "NONE" /\ UNCHANGED err
       \/ rc' = "GATHER" /\ err' = "GATHER"
    /\ whole' = IF Kind = "each" /\ rc' = "NONE" THEN whole \cup {tgt} ELSE whole
    /\ Goto(IF Kind = "fs" THEN "valid" ELSE "gathered")
    /\ UNCHANGED <<vec, heap, call, tgt, cur, old, ok, ub>>

\* Heap blocks given back with a list of slots.
Freed(ss) == Cardinality({s \in ss : Live(vec[s])})

\* Mutant: the NULL that sg_vector_resize(x, 0) returns is not stored.
Emptied_KeepsPointer == Gone
Emptied == Null

\* The tail of sg_get_fs_stats_int(): n items of the list are file systems to report and
\* VECTOR_UPDATE(ptr, n) makes room for them.  With n = 0 that frees the vector and
\* clears the error.  When it fails the list is lost.
FsValid ==
    /\ Ready("valid")
    /\ \E n \in 0..MaxItems :
         /\ n <= vec["list"].used /\ (rc # "NONE" => n = 0)
         /\ \/ /\ n = 0
               /\ vec' = [vec EXCEPT ![tgt] = Emptied, !["list"] = Null]
               /\ heap' = heap - Freed({tgt, "list"})
               /\ err' = "NONE" /\ UNCHANGED <<rc, whole>>
            \/ /\ n > 0
               /\ vec' = [vec EXCEPT ![tgt] = Resized(@, n), !["list"] = Null]
               /\ heap' = heap - Freed({"list"})
               /\ whole' = whole \cup {tgt}
               /\ UNCHANGED <<rc, err>>
            \/ /\ n > 0 /\ OOM /\ Reallocates(vec[tgt], n) /\ heap <= MaxHeap
               /\ vec' = [vec EXCEPT ![tgt] = Null, !["list"] = Null]
               /\ heap' = heap - Freed({tgt})
               /\ rc' = "MALLOC" /\ err' = "MALLOC"
               /\ UNCHANGED whole
    /\ Goto("gathered")
    /\ UNCHANGED <<call, tgt, cur, old, ok, ub>>

ErrAfter_Always(code) == "NONE"    \* mutant: sg_clear_error() on the error path as well
ErrAfter(code) == IF code = "NONE" THEN "NONE" ELSE err

\* Mutant: the vector of sg_get_X_stats_r() is kept when gathering has failed.
Gathered_Kept ==
    /\ Ready("gathered")
    /\ err' = ErrAfter(rc)
    /\ IF call = "diff"
       THEN Goto("compute") /\ UNCHANGED <<locals, ok>>
       ELSE Return(rc = "NONE")
    /\ UNCHANGED <<vec, heap, whole, call, ub>>

\* The gatherer has returned.  A vector made for the application is freed on failure; the
\* thread's own vector keeps whatever the gatherer has left in it, and inside
\* sg_get_X_stats_diff() nobody looks at the failure.
Gathered ==
    /\ Ready("gathered")
    /\ err' = ErrAfter(rc)
    /\ IF call = "get_r" /\ rc # "NONE"
       THEN Set(tgt, Null) /\ heap' = heap - Freed({tgt})
       ELSE UNCHANGED <<vec, heap>>
    /\ IF call = "diff"
       THEN Goto("compute") /\ UNCHANGED <<locals, ok>>
       ELSE Return(rc = "NONE")
    /\ UNCHANGED <<whole, call, ub>>

----------------------------------------------------------------------------
(* sg_get_X_stats_diff() and sg_get_X_stats_diff_between()                 *)

\* With nothing to compare with this is sg_get_X_stats(); otherwise the vector for the
\* difference is made with as many items as the last sample has for its block size.
CallDiff ==
    /\ Ready("idle")
    /\ \/ /\ vec["now"] = Null
          /\ call' = "get" /\ Goto("get") /\ UNCHANGED <<vec, heap, locals, err, ok>>
       \/ /\ Live(vec["now"]) /\ Live(vec["diff"])
          /\ call' = "diff" /\ Goto("clone") /\ UNCHANGED <<vec, heap, locals, err, ok>>
       \/ /\ Live(vec["now"]) /\ vec["diff"] = Null
          /\ Set("diff", Created(vec["now"].used, vec["now"].used, 0))
          /\ heap' = heap + 1
          /\ call' = "diff" /\ Goto("clone") /\ UNCHANGED <<locals, err, ok>>
       \/ /\ Live(vec["now"]) /\ vec["diff"] = Null
          /\ call' = "diff" /\ FailMalloc /\ UNCHANGED <<vec, heap>>
    /\ UNCHANGED <<whole, ub>>

\* last = sg_vector_clone(now)
CloneLast ==
    /\ Ready("clone")
    /\ \/ /\ Set("last", CloneOf(vec["now"])) /\ heap' = heap + 1
          /\ whole' = IF "now" \in whole THEN whole \cup {"last"} ELSE whole \ {"last"}
          /\ cur' = "now" /\ old' = "last"
          /\ Goto("get") /\ UNCHANGED <<tgt, rc, err, ok>>
       \/ FailMalloc /\ UNCHANGED <<vec, whole, heap>>
    /\ UNCHANGED <<call, ub>>

\* The vector that receives the difference.
Dest == IF call = "diff" THEN "diff" ELSE tgt

CallBetween(u, c, l) ==
    /\ Ready("idle") /\ vec[u] = Null
    /\ call' = "between"
    /\ \/ /\ Set(u, Created(1, 1, 0)) /\ heap' = heap + 1
          /\ tgt' = u /\ cur' = c /\ old' = l
          /\ Goto("compute") /\ UNCHANGED <<rc, err, ok>>
       \/ FailMalloc /\ UNCHANGED <<vec, heap>>
    /\ UNCHANGED <<whole, ub>>

CurLive == cur # NoSlot /\ Live(vec[cur])

\* sg_vector_free( last ) of sg_get_X_stats_diff(), and the heap blocks it gives back;
\* _between() leaves its arguments alone.
LastFreed(f) == IF call = "diff" THEN [f EXCEPT !["last"] = Null] ELSE f
LastBlocks_None == 0    \* mutant: last goes out of scope and is not freed
LastBlocks == IF call = "diff" THEN Freed({"last"}) ELSE 0

\* sg_vector_compute_diff(), with sg_vector_clone_into() inside it.
Compute ==
    /\ Ready("compute")
    /\ LET d == vec[Dest]
           c == vec[cur]
           isWhole == cur \in whole /\ (old # NoSlot => old \in whole)
           Done(v) ==
             /\ vec' = LastFreed([vec EXCEPT ![Dest] = v]) /\ heap' = heap - LastBlocks
             /\ err' = "NONE" /\ Return(TRUE) /\ UNCHANGED ub
             /\ whole' = IF isWhole THEN whole \cup {Dest} ELSE whole \ {Dest}
           Fail(code) ==
             /\ vec' = LastFreed([vec EXCEPT ![Dest] = Null]) /\ heap' = heap - LastBlocks - 1
             /\ err' = code /\ Return(FALSE) /\ UNCHANGED <<whole, ub>>
           Undefined(what) ==
             /\ Set(Dest, Gone) /\ heap' = heap - 1
             /\ ub' = what /\ UNCHANGED <<whole, pc, locals, err, ok>>
       IN  \/ ~CurLive /\ Fail("INVALID_ARGUMENT")
           \/ CurLive /\ d.used = c.used /\ Done(d)
           \/ CurLive /\ d.used # c.used /\ c.used > 0 /\ Done(Resized(d, c.used))
              \* copy_fn fails for some item
           \/ CurLive /\ c.used > 0 /\ OOM /\ Fail("MALLOC")
              \* sg_vector_resize(dest, 0) frees dest and reports no error; dest is read
           \/ CurLive /\ d.used # 0 /\ c.used = 0 /\ Undefined("use after free")
              \* sg_vector_resize() frees dest, the error return frees it again
           \/ /\ CurLive /\ d.used # c.used /\ c.used > 0
              /\ OOM /\ Reallocates(d, c.used) /\ Undefined("double free")
    /\ UNCHANGED call

----------------------------------------------------------------------------
\* sg_free_stats_buf()
FreeBuf(u) ==
    /\ Ready("idle") /\ Live(vec[u])
    /\ Set(u, Null) /\ heap' = heap - 1 /\ whole' = whole \ {u}
    /\ UNCHANGED <<pc, call, locals, err, ok, ub>>

CleanedUp_NoReset == Gone    \* mutant: the pointers are not zeroed
CleanedUp == Null

\* The component's cleanup_fn, when the thread ends or exit() is called.
ThreadEnd ==
    /\ Ready("idle")
    /\ vec' = [vec EXCEPT !["now"] = CleanedUp, !["diff"] = CleanedUp]
    /\ heap' = heap - Freed({"now", "diff"}) /\ whole' = whole \ {"now", "diff"}
    /\ UNCHANGED <<pc, call, locals, err, ok, ub>>

Init ==
    /\ vec = [s \in Slots |-> Null] /\ whole = {} /\ heap = 0
    /\ pc = "idle" /\ call = "get" /\ tgt = "now" /\ cur = NoSlot /\ old = NoSlot
    /\ rc = "NONE" /\ err = "NONE" /\ ok = TRUE /\ ub = "none"

\* What the application may pass to _between(): results it holds, or NULL.
Results == {u \in Users : Live(vec[u])} \cup {NoSlot}

Next ==
    \/ CallGet \/ GetStart \/ GatherItem \/ GatherEnd \/ FsValid \/ Gathered
    \/ CallDiff \/ CloneLast \/ Compute \/ ThreadEnd
    \/ \E u \in Users : CallGetR(u) \/ FreeBuf(u)
    \/ \E u \in Users : \E c, l \in Results : CallBetween(u, c, l)

Spec == Init /\ [][Next]_vars

----------------------------------------------------------------------------
(* Properties                                                              *)

Labels == {"idle", "get", "gather", "valid", "gathered", "clone", "compute"}

\* The variables stay in their types; a live vector has a power of two for its block.
TypeOK ==
    /\ vec \in [Slots -> Vectors(MaxItems) \cup {Null, Gone}]
    /\ whole \subseteq Slots
    /\ heap \in Int
    /\ pc \in Labels
    /\ call \in {"get", "get_r", "diff", "between"}
    /\ tgt \in Slots /\ cur \in Slots \cup {NoSlot} /\ old \in Slots \cup {NoSlot}
    /\ rc \in {"NONE", "GATHER", "MALLOC"}
    /\ err \in {"NONE", "GATHER", "MALLOC", "INVALID_ARGUMENT"}
    /\ ok \in BOOLEAN
    /\ ub \in {"none", "null pointer", "use after free", "double free"}

\* No item lies outside the heap block of its vector (docs/libstatgrab/
\* sg_vector_create.xml: "T elements[alloc_count]"), whatever create, clone, resize and
\* clear have been called before, although the header of a fresh vector does not say how
\* much room it has.
CapacityCoversUse == \A s \in Slots : vec[s].used <= vec[s].cap

\* Between calls every vector on the heap can be reached from the thread-local buffer
\* or belongs to the application: no path of a call, failed or not, loses one.
NoLeak ==
    pc = "idle" /\ ub = "none" =>
        heap = Cardinality({s \in {"now", "diff"} \cup Users : Live(vec[s])})

\* A call that fails has left its reason in sg_get_error() (docs/libstatgrab/
\* sg_intro.xml:116-120).
FailureHasError == pc = "idle" /\ ub = "none" /\ ~ok => err # "NONE"

\* No call goes on working with a vector that an earlier step of it has given back
\* (sg_vector_resize(), sg_vector_free()), and none leaves a pointer to one behind for the
\* next call.  The second free() after a failed realloc() is an outcome of its own.
NoDangling ==
    /\ ub # "use after free"
    /\ ub = "none" => \A s \in Slots : vec[s].st # "gone"

\* A failed allocation in VECTOR_UPDATE() ends the gatherer with the error
\* (docs/libstatgrab/sg_vector_create.xml:352-361); it never writes through NULL.
NoNullWrite == ub # "null pointer"

\* What a caller gets comes from a sample that was gathered to its end: the lists the
\* application owns, from sg_get_X_stats_r() and sg_get_X_stats_diff_between(), as long as it
\* keeps them, and the thread's own list after an sg_get_X_stats() that has succeeded.  (The
\* difference that the thread keeps need not: sg_get_X_stats_diff() does not look at the
\* result of its gatherer.)
CallersSamplesWhole ==
    pc = "idle" =>
        /\ \A u \in Users : Live(vec[u]) => u \in whole
        /\ call = "get" /\ ok /\ Live(vec["now"]) => "now" \in whole
============================================================================
