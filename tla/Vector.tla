------------------------------- MODULE Vector -------------------------------
(***************************************************************************)
(* The arithmetic of statgrab vectors (src/libstatgrab/vector.c).  A       *)
(* pointer to a vector is a record: st tells NULL from a live vector and   *)
(* from one that has been freed while the pointer was kept; block is       *)
(* 1 << block_shift; alloc is the alloc_count written in the header; cap   *)
(* is the number of items the heap block really has room for, which the    *)
(* program keeps nowhere; used is used_count.                              *)
(***************************************************************************)
EXTENDS Integers

CONSTANTS
    Blocks,     \* the block sizes 1 << block_shift in use
    SizeMod     \* 2^width of size_t

ASSUME BlocksAssumption ==
    1 \in Blocks /\ \A b \in Blocks : b \in Nat /\ b >= 1
ASSUME PowersAssumption == \A b \in Blocks : b = 1 \/ \E c \in Blocks : b = 2 * c
ASSUME SizeModAssumption ==
    SizeMod \in Nat \ {0} /\ \A b \in Blocks : b <= SizeMod /\ SizeMod % b = 0

Null == [st |-> "null", block |-> 0, alloc |-> 0, cap |-> 0, used |-> 0]
Gone == [Null EXCEPT !.st = "gone"]
Live(v) == v.st = "live"

Larger(a, b) == IF a >= b THEN a ELSE b

RoundUp_Truncates(x, b) == ((x \div b) * b) % SizeMod    \* mutant: rounds down
\* NEXT_POWER2_IN(x, bs), in the unsigned arithmetic of size_t: nothing rounds to nothing.
RoundUp(x, b) == ((((x - 1) % SizeMod) \div b + 1) * b) % SizeMod

BlockOf_Raw(n) == IF n = 0 THEN 1 ELSE n    \* mutant: takes block_size as it is
\* The loop of sg_vector_create(): the least power of two that is not below n.
BlockOf(n) == CHOOSE b \in Blocks : b >= n /\ \A c \in Blocks : c >= n => b <= c

\* sg_vector_create_int(): the heap block has room for the rounded count, the header
\* says one block.
Allocated(block, n, u) ==
    [st |-> "live", block |-> block, alloc |-> block,
     cap |-> RoundUp(Larger(n, u), block), used |-> u]

\* sg_vector_create()
Created(size, n, u) == Allocated(BlockOf(size), n, u)

\* sg_vector_clear(): items are destroyed, the room stays.
Cleared(v) == [v EXCEPT !.used = 0]

\* sg_vector_resize() to n > 0: whether realloc() is called, and what it returns when
\* it is not called or does not fail.
Reallocates(v, n) == RoundUp(n, v.block) # v.alloc
Resized(v, n) ==
    LET r == RoundUp(n, v.block)
    IN  [st |-> v.st, block |-> v.block, alloc |-> r,
         cap |-> IF Reallocates(v, n) THEN r ELSE v.cap, used |-> n]

\* sg_vector_clone() when nothing fails: sg_vector_create_int() with the source's counts.
CloneOf(v) == Allocated(v.block, v.alloc, v.used)

Vectors(max) ==
    [st : {"live"}, block : Blocks, alloc : Nat, cap : Nat, used : 0..max]
=============================================================================
