---------------------------- MODULE Differences ----------------------------
(***************************************************************************)
(* What sg_get_X_stats_diff() says: counters of the operating system that  *)
(* run and wrap, items that come and go, and the loop of                   *)
(* sg_vector_compute_diff() (src/libstatgrab/vector.c) that finds for each *)
(* item of the current sample its item in the last one.  The vectors that  *)
(* hold the samples are the subject of Accessors.                          *)
(*                                                                         *)
(* Style "network" is sg_network_io_stats_item_compute_diff(), which knows *)
(* of 32-bit counters; "disk" is sg_disk_io_stats_item_compute_diff(),     *)
(* which subtracts.                                                        *)
(*                                                                         *)
(* moved, was and is are in no program variable: the units really moved,   *)
(* at any time and when the two samples were taken.                        *)
(***************************************************************************)
EXTENDS Integers, Sequences, FiniteSets

CONSTANTS
    Names,      \* interfaces or disks
    Style,      \* "network" or "disk"
    Wrap,       \* 2^width of the operating system's counters
    MaxVal,     \* MAXVAL of transfer_diff()
    Wide,       \* 2^width of unsigned long long
    MaxMoved    \* bound: units moved by one item

ASSUME DifferencesAssumption ==
    /\ IsFiniteSet(Names) /\ Style \in {"network", "disk"}
    /\ Wrap \in Nat \ {0} /\ MaxVal \in Nat \ {0} /\ Wide \in Nat \ {0}
    /\ MaxMoved \in Nat
    /\ Wrap <= Wide /\ MaxVal <= Wide

VARIABLES
    present,          \* items that exist
    moved, was, is,   \* units moved since the item appeared
    cut,              \* items that went away after the last sample
    now, last,        \* samples: sequences of items
    diff,             \* the counters of the result, one for each item of now
    pc, i, j,         \* program counter; indexes of the two loops
    matched           \* the bits of last's items

system == <<present, moved, cut>>
samples == <<now, last, was, is>>
loop == <<diff, i, j, matched>>
vars == <<system, samples, loop, pc>>

----------------------------------------------------------------------------
(* The operating system                                                    *)

Transfer(n) ==
    /\ pc = "idle" /\ n \in present /\ moved[n] < MaxMoved
    /\ moved' = [moved EXCEPT ![n] = @ + 1]
    /\ UNCHANGED <<present, cut, samples, loop, pc>>

Disappear(n) ==
    /\ pc = "idle" /\ n \in present
    /\ present' = present \ {n} /\ cut' = cut \cup {n}
    /\ UNCHANGED <<moved, samples, loop, pc>>

\* An item that comes back counts from 0.
Appear(n) ==
    /\ pc = "idle" /\ n \notin present
    /\ present' = present \cup {n} /\ moved' = [moved EXCEPT ![n] = 0]
    /\ UNCHANGED <<cut, samples, loop, pc>>

\* The orders in which the operating system may list what exists.
Orders ==
    {s \in [1..Cardinality(present) -> present] :
       \A a, b \in DOMAIN s : s[a] = s[b] => a = b}

Listing(s) == [a \in DOMAIN s |-> [name |-> s[a], count |-> moved[s[a]] % Wrap]]

----------------------------------------------------------------------------
(* The library                                                             *)

\* Mutant: the wrap of a signed int, as in counter_diff() of cpu_stats.c.
TransferDiff_IntMax(new, old) ==
    IF new >= old THEN new - old ELSE (MaxVal \div 2 + new - old) % Wide
\* transfer_diff() of network_stats.c for 32-bit quantities
TransferDiff(new, old) == IF new >= old THEN new - old ELSE (MaxVal + new - old) % Wide

ComputeDiff_Signed(new, old) == new - old    \* mutant: no unsigned arithmetic, no wrap
\* compute_diff_fn for one counter
ComputeDiff(new, old) ==
    IF Style = "network" THEN TransferDiff(new, old) ELSE (new - old) % Wide

\* sg_get_X_stats(), also what a difference is when there is no last sample: the sample
\* becomes the base of the next difference.
Get ==
    /\ pc \in {"start", "idle"}
    /\ \E s \in Orders : now' = Listing(s)
    /\ is' = moved /\ cut' = {}
    /\ pc' = "idle"
    /\ UNCHANGED <<present, moved, last, was, loop>>

\* sg_get_X_stats_diff(): last = clone(now), a new sample, and its clone as the result.
CallDiff ==
    /\ pc = "idle"
    /\ \E s \in Orders : now' = Listing(s)
    /\ last' = now /\ was' = is /\ is' = moved
    /\ diff' = [a \in DOMAIN now' |-> now'[a].count]
    /\ i' = 1 /\ j' = 1 /\ matched' = {}
    /\ pc' = "loop"
    /\ UNCHANGED system

Matches_Unmatched(a, b) == a \notin matched    \* mutant: the items are not compared
\* The item of last with index a is not taken yet and is the item of diff with index b.
Matches(a, b) == a \notin matched /\ last[a].name = now[b].name

\* One turn of the inner loop.  It does not stop at a match.
Inner ==
    /\ pc = "loop" /\ i <= Len(diff) /\ j <= Len(last)
    /\ IF Matches(j, i)
       THEN /\ matched' = matched \cup {j}
            /\ diff' = [diff EXCEPT ![i] = ComputeDiff(@, last[j].count)]
       ELSE UNCHANGED <<matched, diff>>
    /\ j' = j + 1
    /\ UNCHANGED <<system, samples, pc, i>>

\* The inner loop is over.
Outer ==
    /\ pc = "loop" /\ i <= Len(diff) /\ j > Len(last)
    /\ i' = i + 1 /\ j' = 1
    /\ UNCHANGED <<system, samples, pc, diff, matched>>

\* So is the outer one.
Finish ==
    /\ pc = "loop" /\ i > Len(diff)
    /\ pc' = "done"
    /\ UNCHANGED <<system, samples, loop>>

\* The application has the difference.
Return ==
    /\ pc = "done"
    /\ pc' = "idle" /\ cut' = {}
    /\ diff' = <<>> /\ i' = 1 /\ j' = 1 /\ matched' = {} /\ last' = <<>> /\ was' = is
    /\ UNCHANGED <<present, moved, now, is>>

Init ==
    /\ present \in SUBSET Names
    /\ moved = [n \in Names |-> 0] /\ was = moved /\ is = moved
    /\ cut = {} /\ now = <<>> /\ last = <<>> /\ diff = <<>>
    /\ pc = "start" /\ i = 1 /\ j = 1 /\ matched = {}

Next ==
    \/ \E n \in Names : Transfer(n) \/ Disappear(n) \/ Appear(n)
    \/ Get \/ CallDiff \/ Inner \/ Outer \/ Finish \/ Return

Spec == Init /\ [][Next]_vars

----------------------------------------------------------------------------
(* Properties                                                              *)

Samples == {s \in UNION {[1..k -> [name : Names, count : 0..(Wrap - 1)]] :
                            k \in 0..Cardinality(Names)} :
              \A a, b \in DOMAIN s : s[a].name = s[b].name => a = b}

\* The variables stay in their types; no sample lists an item twice.
TypeOK ==
    /\ present \subseteq Names /\ cut \subseteq Names
    /\ {moved, was, is} \subseteq [Names -> 0..MaxMoved]
    /\ now \in Samples /\ last \in Samples
    /\ pc \in {"start", "idle", "loop", "done"}
    /\ pc \in {"loop", "done"} => diff \in [DOMAIN now -> 0..(Wide - 1)]
    /\ i \in 1..(Len(diff) + 1) /\ j \in 1..(Len(last) + 1)
    /\ matched \subseteq DOMAIN last

Listed(s, n) == \E a \in DOMAIN s : s[a].name = n

\* The difference of an item that both samples have, and that did not go away in
\* between, is what the item has moved in between, although its counter may have wrapped
\* and the system may list the items in another order (docs/libstatgrab/
\* sg_get_network_io_stats.xml:137-146).  A counter that wraps twice is beyond telling
\* (:281-285 of the same).
DifferenceIsWhatMoved ==
    pc = "done" =>
      \A a \in DOMAIN now :
        LET n == now[a].name
        IN  Listed(last, n) /\ n \notin cut /\ is[n] - was[n] < Wrap
              => diff[a] = is[n] - was[n]

\* "If an element exists in the current vector but not in the opposite one, it's cloned
\* into the result vector" (docs/libstatgrab/sg_vector_create.xml:126-131): a new item
\* is never charged with what another one has moved.
NewItemsAreCloned ==
    pc = "done" =>
      \A a \in DOMAIN now : ~Listed(last, now[a].name) => diff[a] = now[a].count
============================================================================
