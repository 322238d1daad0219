----------------------------- MODULE Gathering -----------------------------
(***************************************************************************)
(* The vocabulary in which the gatherers of libstatgrab are written down:  *)
(* the functions sg_get_X_stats_int() that ask the operating system and    *)
(* fill a vector or a record.  Each has one branch per operating system,   *)
(* and each branch is a control-flow graph: a function from labels to the  *)
(* set of edges that leave them.  What a step does to the vector, to the   *)
(* error of the thread and to the files, buffers and locks it holds is     *)
(* said by the edge; module Gatherers gives the edges their meaning.       *)
(*                                                                         *)
(* Labels every graph shares: "start", and the two returns "ok" (the       *)
(* function returns SG_ERROR_NONE) and "failed" (it returns an error).     *)
(***************************************************************************)
EXTENDS Integers, TLC

\* An edge: where it leads, the resources it acquires and releases, the operation it
\* performs, and for a resize of the vector the new number of items.
Go(l) == [to |-> l, gets |-> {}, puts |-> {}, op |-> "none", by |-> "n"]
Get(r, l) == [Go(l) EXCEPT !.gets = {r}]
Put(R, l) == [Go(l) EXCEPT !.puts = R]
Do(o, l) == [Go(l) EXCEPT !.op = o]
GetDo(r, o, l) == [Get(r, l) EXCEPT !.op = o]
PutDo(R, o, l) == [Put(R, l) EXCEPT !.op = o]

\* The operations whose behaviour is undefined: an access through NULL, outside a block, to a block
\* that is freed, and the release of what is not held.
Crashes == {"null", "bounds", "stale", "free"}

\* Several ways on.
Either(L) == {Go(l) : l \in L}

\* Cleanup of R, then RETURN_WITH_SET_ERROR(): the function fails with an error it has set.
Fail(R) == PutDo(R, "error", "failed")

\* Cleanup of R, then RETURN_FROM_PREVIOUS_ERROR() where nothing has set an error: the
\* result is whatever sg_get_error() holds, success if that is SG_ERROR_NONE.
Quit(R) == PutDo(R, "quit", "failed")

\* Cleanup of R, then `return SG_ERROR_NONE'.
Return(R) == Put(R, "ok")

\* A call that may fail, after which R is cleaned up; and one that acquires r.
Check(l, R) == {Go(l), Fail(R)}
Open(r, l, R) == {Get(r, l), Fail(R)}

\* A loop over the items announced: the next item at l, and on at done after the last.
Each(l, done) == {Do("next", l), Do("end", done)}

\* The item at hand is written and counted, unless one of its strings cannot be copied.
Add(l, R) == {Do("add", l), Fail(R)}

\* VECTOR_UPDATE(.., new_count, ..) with VECTOR_UPDATE_ERROR_CLEANUP releasing R.  Without memory
\* it is left early, unless new_count is 0.
Resized(b, l) == {[Do("resize", l) EXCEPT !.by = b], [Do("lost_none", l) EXCEPT !.by = b]}
Update(b, l, R) == Resized(b, l) \cup {[PutDo(R, "lost", "failed") EXCEPT !.by = b]}

\* The same where new_count is written as a sum: in the macro, `!new_count' becomes `!a + b',
\* which holds whenever b is positive, so that running out of memory goes on with data = NULL.
UpdateSum(b, l) == Resized(b, l) \cup {[Do("lost", l) EXCEPT !.by = b]}

\* A file or a chain read entry by entry: those that are not wanted are passed over, and for the
\* others the vector grows by one.  R is released at the end and by every failure.
Entries(R) ==
    [loop  |-> {Do("next", "parse"), PutDo(R, "end", "ok")},
     parse |-> Either({"loop", "grow"}),
     grow  |-> UpdateSum("n+1", "item"),
     item  |-> Add("loop", R)]

Stream(r) == [start |-> {GetDo(r, "all", "loop"), Fail({})}] @@ Entries({r})

\* A list fetched as a whole into a buffer r, after asking how long it is.
Fetched(r) ==
    [start  |-> Check("malloc", {}),
     malloc |-> Open(r, "fetch", {}),
     fetch  |-> {Do("all", "fit"), Fail({r})},
     fit    |-> Update("n+known", "loop", {r}),
     loop   |-> {Do("next", "item"), PutDo({r}, "end", "ok")},
     item   |-> Add("loop", {r})]

\* The graph G of a function that is called: where its caller goes on when it returns.
Called(G, ok, failed) ==
    [l \in DOMAIN G |->
        {[e EXCEPT !.to = CASE @ = "ok" -> ok [] @ = "failed" -> failed [] OTHER -> @] : e \in G[l]}]
=============================================================================
