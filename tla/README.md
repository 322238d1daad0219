# libstatgrab in TLA+

A verification development for libstatgrab: the C library that reports the
statistics of an operating system (cpu, memory, disks, network, processes,
users), with the tools `statgrab` and `saidar` on top of it. `Globals` models
the pthread build; the gatherers are modelled for every platform they are
written for. Paths below are relative to the repository's root, so the
library is `src/libstatgrab/`.

## 1. The system

### Inventory

| part | state it keeps | operations | hard behaviour |
|---|---|---|---|
| component manager, `globals.c`, `globals.h` | `glob_lock`, `initialized`, `glob_size`, `required_locks`, one thread-local buffer per thread | `sg_comp_init`, `sg_comp_destroy`, `sg_comp_get_tls`, `sg_lock_mutex`, `sg_unlock_mutex`, the key destructor, the atexit handler | threads initialise, use and shut down at the same time; two tables are read without the mutex; a component, an allocation or a mutex call fails half way |
| vectors, `vector.c`, `vector.h` | a heap block with a header (`block_shift`, `alloc_count`, `used_count`) and items | create, free, clear, resize, clone, clone_into, compute_diff | what the header says against what was allocated; size 0; failed `realloc` |
| list accessors, `globals.h` (`MULTI_COMP_ACCESS`, `MULTI_COMP_DIFF`) | per thread and list two vectors: the last sample and the last difference | `sg_get_X_stats`, `_r`, `_diff`, `_diff_between`, `sg_free_stats_buf` | long sequences of calls over the same vectors; a gatherer that fails in the middle of a difference |
| single-record accessors, `globals.h` (`EASY_COMP_ACCESS`, `EASY_COMP_DIFF`) | per thread one record and its difference | cpu, load, memory, page, swap, host | the base of a difference |
| error reporting, `error.c` | a thread-local record, and one static record before the buffer exists | set, clear, get | an error must outlive the cleaning up on its own path; the static record is shared |
| gatherers, `*_stats.c`, `os_info.c` | files, buffers and locks while they run; the list of valid file systems (`disk_stats.c`) | read `/proc`, `kstat`, `sysctl`, ... in one branch per platform | failures in the middle of a list, early returns between an open and its close, items that vanish, retries, counters that wrap |
| users and host, `user_stats.c`, `os_info.c` | the C library's position in the login records | the walk from `setutxent` to `endutxent` | the position is global to the process: the mutex `utmp` |
| tools, `tools.c` | none | `sg_init`, `sg_shutdown`, `sg_drop_privileges`, strings, regular expressions | ownership of strings |
| `statgrab`, `saidar` | pointers into the library's records, kept until a round of calls is over | print once, twice or for ever; poll, wait for a key, draw | records that change behind the pointers; a clock read in whole seconds |

How the parts meet: every accessor starts with `sg_comp_get_tls()`, which needs
the tables of the component manager and takes no mutex for them. Accessors own
vectors in the thread's buffer, which the key's destructor frees. Gatherers fill
the vectors through `VECTOR_UPDATE()`, report through the thread's error, and
two of them take `utmp` by name. A difference clones the last sample, takes a
new one by calling the accessor, and lets `sg_vector_compute_diff()` match the
items of the two.

### What makes each part correct

- Component manager: it is a reference-counted library. The first reference
  builds it completely before anybody uses it, the return of the last one and of
  no other dismantles it, a failure reaches the caller, the mutex always comes
  back, a thread that ends leaves nothing behind.
- Vectors and accessors: items stay inside their heap block, no vector is lost,
  used after `free` or freed twice, a failed call has left its reason, a
  difference is computed from complete samples.
- Differences: what the operating system has counted between two samples, for
  each item its own, although counters wrap, items come and go, and lists change
  their order.

- Gatherers: whatever the system refuses, what was opened is closed, every item
  reported was written whole and from one source, a record keeps nothing of the
  last sample, a failure leaves its own reason, and the call returns.
- Tools: the differences shown add up to the samples, percentages are of the
  interval they are shown beside, and a wait is followed by new numbers.

The hazards behind these properties are listed, each at its line, under
`hazards` in `PROJECT.json`.

## 2. Modules

| module | models |
|---|---|
| `RefCounted` | the abstract promise of `sg_init()`/`sg_shutdown()`: phases down, building, up, tearing, stuck |
| `Globals` | `globals.c` step by step, with the calls of using threads |
| `MCGlobals` | `Globals` for TLC |
| `GlobalsProofs`, `GlobalsRefines` | its theorems; that it implements `RefCounted` |
| `Vector` | the arithmetic of `vector.c`: no state, operators on vector records |
| `Accessors` | `MULTI_COMP_ACCESS`, `MULTI_COMP_DIFF` and the shape of the gatherers, over `Vector` |
| `MCAccessors`, `AccessorsProofs`, `AccessorsHeapProofs` | the same for `Accessors`: the room of vectors, then who owns them |
| `Differences` | the operating system's counters, samples, and the loops of `sg_vector_compute_diff()` with the `compute_diff_fn` of network and disk |
| `MCDifferences`, `DifferencesProofs` | the same for `Differences` |
| `Gathering` | the vocabulary for gatherers: edges of a control-flow graph, `VECTOR_UPDATE()`, the returns |
| `ProcessGatherers`, `RecordGatherers`, `DiskGatherers`, `NetworkGatherers` | one graph for each branch of `sg_get_X_stats_int()` and of `init_valid_fs_types()` |
| `Gatherers`, `MCGatherers` | the state a gatherer works on and what the edges do to it; a call from start to return |
| `GathererPaths`, `GatherersProofs` | what may be held, written and reported at each label, without the items; the theorems of `Gatherers` about that |
| `GathererItems`, `GathererItemsProofs` | which relations between counts, vector and slots are sure at each label; the theorems of `Gatherers` about items |
| `Monitor`, `MCMonitor`, `MonitorProofs` | `EASY_COMP_ACCESS`, `EASY_COMP_DIFF`, the cpu percentages, and the loops of `statgrab` and `saidar` over them |

### Globals

The variables are the program's (`globLock`, `initialized`, `globSize`, `names`
and `ready` for `required_locks`, `tls` for the buffers) plus a program counter
and the locals of each thread. `mtx` holds owner and depth of the named mutexes:
those are recursive, `glob_lock` is not. `refs` and `aborted` are no program
variables: what `initialized` is meant to count, and that some `sg_comp_init()`
has returned half way. A step is as fine as an unlocked read can observe: each
turn of the loop that adds up `glob_size`, each component, the table of names,
its mutexes. The guards of the application are the documented discipline:
statistics after some `sg_init()` has returned, one `sg_shutdown()` for each
`sg_init()`, the last one when no thread is inside.

The `init_fn` of a component may fail (`MayFail`), allocations may fail
(`AllocFails`), and the flag `ignore_init_errors` is an input. `ThreadExit` is
the destructor of `glob_key`; the identifier then stands for a new thread.
`ProcessExit` is the atexit handler. A `malloc()` that fails in
`sg_alloc_globals()` (`globals.c:431`) reports through `SET_ERROR`, which asks for the
buffer again (`error.c:72`): `GetTls` has the outcomes with and without a buffer, but not
a recursion that never gets one and exhausts the stack. `FailureReported` is about the
call that builds the library; a nested `sg_init()` is not told of a failure.

`Phase` and `PartsOf` map this state to `RefCounted`: the components that are up
and the names in the table are the parts.

### Vector and Accessors

A pointer to a vector is a record with `st` (NULL, live, freed and still
pointed to), `block`, `alloc`, `used` and `cap`, the room the heap block really
has. Sizes are computed modulo `SizeMod`, the width of `size_t`, because
`NEXT_POWER2_IN(0, bs)` relies on the wrap. Slots hold pointers: `now` and
`diff` in the thread's buffer, the locals `last` and `list`, and the
application's results. `heap` counts what `malloc` has given and nobody has
returned. `whole` (no program variable) is the set of slots filled from complete
samples, from which `CallersSamplesWhole` judges what `get`, `get_r` and `between`
return with success.
Vectors belong to one thread and calls do not interleave; the
difficulty is which call follows which and which step fails. When a step is
undefined in C the model records it in `ub` and stops: the properties say which
kinds must not happen. `Kind` chooses the gatherer: `each` appends to its
caller's vector item by item (`sg_get_network_io_stats_int()` on Linux), `fs`
gathers a list of its own and copies (`sg_get_fs_stats_int()`).

### Differences

`moved` counts what an item has really moved; a sample lists `moved % Wrap` of
everything present in any order. The library then runs the two loops turn by
turn. `was` and `is` remember `moved` at the two samples, `cut` the items that
went away in between. The vectors are taken for granted here, and so is that
both samples are complete: those are the subject of `Accessors`.

### Gatherers

A gatherer is straight-line code around one or two loops, written once per
platform. Its graph maps a label to the edges that leave it; an edge names the
files, buffers and locks it acquires (`gets`) and releases (`puts`) and one
operation on the state: look at the next item, resize the vector, write an item
or part of one, count it, set an error, return. What an edge does is defined once,
in `Gatherers`, by one action per kind of operation: `held` is what is open,
`left`, `known` and `seen` are the items of the system not yet announced,
announced and looked at, `used` is the vector's `used_count`, and `name` and
`rest` say for each slot of the vector which item of the system its name and its
other fields came from, so that a slot filled from two items can be told. Every
call of the system and every allocation may fail, and a batch may be of any
size. `Update` and `UpdateSum` are the two faces of `VECTOR_UPDATE()`: with
a plain count running out of memory leaves the function, with a sum (`n + 1`) it
goes on with a NULL pointer, the defect that `accessors_update_oom` shows. `ub`
records the first undefined step, after which nothing happens: an access through NULL,
outside a block (`bounds`), to what was freed (`stale`), or a release of what is
not held (`free`). `Repeat` is a local variable that is copied to the vector although the
call that should have filled it failed: it still has what it held for an item before. What
fields of an item mean, and the arithmetic on them, is data and left out.

An item or a record is whole when it has every field the branch has a source for: what a
platform never tells is not missing. What `sysconf()` returns, and a line that is found, is
taken to be readable. A resource that is acquired again while it is held counts once,
so that `NothingLeftBehind` would not see a handle overwritten by another. Branches for
platforms without any source (the last `#else`) set an error and return.

A property that holds for most branches and not for all names its exceptions in
a definition of its own, so that each is a statement about the code: see
"Known exceptions" below. `Forgotten`, `Hazardous` and `Incomplete` are tables that give for
each branch what it may leave behind, which kind of undefined behaviour it may meet, or
what its record may be instead of whole. A branch outside those lists that
starts to leak, to mix items or to fail silently is a violation, and so is one in a table
that does something else than the table says.

### Monitor

`now`, `diff` and `usage` are the three records a thread keeps for the cpu (two
for pages), each NULL, allocated and not written, or with a counter. The tools
hold pointers (`shown`) and follow them when the round is over. A sample may
fail, which leaves a record of zeros (the BSDs may keep the ticks they had written
when a later `sysctl()` fails, `cpu_stats.c:306`, `page_stats.c:98`; the one counter of the model
stands for those that are left at 0), and so may each allocation. The counter of
the cpu moves with the clock; the clock is finer than the seconds that `time()`
returns, and `phase` is where in a second the tool was started. `told` (no
program variable) adds up what the tool learnt; it is kept in the round that
`statgrab -o` and `saidar` do not print as well. The unsigned subtraction is that
of 64-bit counters.

## 3. Runs

| run | instance | shows |
|---|---|---|
| `globals_safety` | 2 threads, 3 components (one may fail, one needs `utmp`), 3 references, failing allocations, both flags | all safety and action properties of `Globals`, and that it implements `RefCounted` |
| `globals_liveness` | 2 threads, 2 components | the mutex comes back, teardown ends, `utmp` is reentrant |
| `globals_init_abort` (violation) | 2 threads, a component that fails with `ignore_init_errors == 0` | the next `sg_init()` never returns |
| `globals_named_statgrab` (violation) | 2 threads, the application takes `statgrab` by name | it waits for ever |
| `accessors_each` | 2 results, up to 3 items, at least 1, failing allocations | no leak, failures have a reason, room, no dangling pointer, samples returned are whole (a double free after a failed `realloc` is told apart and observed below) |
| `accessors_fs` | the same for file systems, samples may be empty | room, no dangling pointer |
| `accessors_clone_empty` (violation) | samples may be empty | the difference reads a vector it has freed |
| `accessors_update_oom` (violation) | failing allocations | the item is written through NULL |
| `differences_network` | 2 interfaces, counters modulo 3, 4 units per item | a difference is what has moved; new items are cloned |
| `differences_disk_wrap` (violation) | 2 disks, counters narrower than `unsigned long long` | a wrap becomes a huge difference |
| `gatherers_all` | every branch of every gatherer, up to 3 items on the system, any call may fail | nothing left behind, defined behaviour, whole items and records, failures have a reason, swap is a sum, every call returns; each up to the known exceptions |
| `monitor_tools` | both tools with all modes, delays 0 to 2 s, 3 seconds in half seconds | differences add up, percentages belong to the difference beside them and are of a written record, a wait is followed by a refresh |

Why the bounds suffice. Two threads and three references give every race of
`sg_init()` with `sg_init()` and `sg_shutdown()`, nested references included; of
three components one fails between two that do not. Three items with a block of
2 make vectors of one and two blocks, and samples that grow, shrink and repeat;
two results let the application pass the same or different ones to
`_diff_between()`. Two items in both orders with a counter that may wrap once
and move on give every way of matching, and 4 units with `Wrap` 3 make the wrap
happen at each offset. Three items on the system give a gatherer one that is
passed over between two that are not, and batches of one and of two; the graphs
have no other counters. Three seconds are three rounds a second apart, or any
number of rounds without a pause. `MaxRefs`, `MaxItems`, `MaxHeap`, `MaxMoved` and
`MaxClock` are the bounds, in the guards. Threads and results are interchangeable, so the runs use
symmetry where no liveness is checked.

Deadlock is not checked for `Globals` (a process may simply end, and an
early return of `sg_comp_init()` blocks everyone, which is a finding) and for
`Accessors` (a step with undefined behaviour stops); it is for `Differences`, `Gatherers`
and `Monitor`.

Fairness. `FairSpec` has weak fairness of each thread's steps inside the
library: a runnable thread is run. Nothing is assumed of the application's
calls. The violations of liveness are run under `StrongSpec`, strong fairness,
so that they cannot be blamed on an unfair mutex. In `Gatherers` the code runs on
(weak fairness of `Next`), and at each label where the code goes back to try
again there is strong fairness of getting past it: a process list that grows
between two `sysctl()`s, or a `comm` file that cannot be read, does not do so for
ever. The code itself has no bound on these retries: that `process_stats.c:485` may try
the same pid without end is assumed away, not excluded.

### What the violations show

- `globals.c:302` (and 277, 325, 355, 360): the early returns of
  `sg_comp_init()` keep the global mutex.
- `globals.c:279`: the table's entry `statgrab` is a copy of a locked mutex.
- `vector.c:232`: `sg_vector_resize(dest, 0)` returns NULL without an error and
  `sg_vector_clone_into()` answers success with a freed vector.
- `vector.h:152`: `!new_count` without parentheses, used with `n + 1`.
- `disk_stats.c:225`: no overflow detection where the manual promises it.

Further observations the models make without a run of their own:
the result of the gatherer inside a difference is ignored, so that a difference
of half a sample is a success (`globals.h:389`; `CallersSamplesWhole` therefore leaves the
thread's own difference out);
`sg_vector_create_int()` writes `alloc_count` 1 for a vector without room when
asked for nothing (`vector.c:111`, hence the assumption of `CapacityHolds`); a
failed `realloc` in `sg_vector_clone_into()` frees twice (`vector.c:281`,
disjunct "double free" of `Compute`); a failing `sg_get_fs_stats()` clears its
own error (`disk_stats.c:1246`, `FsValid`, hence the assumption of
`FailureHasErrorHolds`); a nested `sg_init()` answers `SG_ERROR_NONE` after a
failed component (`globals.c:258`); the atexit handler frees one thread's buffer
and does not shut the library down (`globals.c:262`).

### Known exceptions

What the properties of `Gatherers` leave out, by name, and why:

- `Forgotten` (`NothingLeftBehind`), only when the call fails: the list of pids
  when a file of a process cannot be handled (`process_stats.c:647`, Linux and
  Solaris); both buffers after a failing `sysctl()` on NetBSD
  (`process_stats.c:698`); the mounts and the temporary vector of the file systems
  (`disk_stats.c:1029`, 1246); the iterator of Darwin's disks and the directories
  of HP-UX (`disk_stats.c:1505`, 1570); the instance name of Windows disks; the
  interface list of the BSDs (`network_stats.c:742`); the kstat chain of Solaris
  memory, the array of swap devices, the mutex that could not be unlocked on
  AIX, and `/etc/vfs`.
- `Hazardous` (`DefinedBehaviour`), with the kind: a file closed twice after `asprintf()` fails
  (`process_stats.c:669`, free); `getprocs64()` returning -1 (`process_stats.c:1328`, bounds);
  properties released that were not created (`disk_stats.c:1514`, free); room for
  one interface of many on Windows (`network_stats.c:637`, bounds); a string literal that
  is freed, and a `strdup()` that is not checked (`os_info.c:68`, free and null); a
  `calloc()` that is not checked (`disk_stats.c:476`, null); the kstat chain of Solaris is closed
  before the load is looked up in it (`load_stats.c:63`, stale, met by every success of that
  branch); strings of a `psinfo` that was never read (`process_stats.c:387`) and of a user's name
  that could not be converted (`user_stats.c:127`) may have no end; disks beyond what the second
  `sysctl()` returned (`disk_stats.c:1671`); drive strings for a larger buffer than there is
  (`disk_stats.c:980`); a mount type used as an index (`disk_stats.c:906`); the first entry of an
  empty swap list (`swap_stats.c:281`), all of these bounds.
- `Patchy` (`ItemsWhole`): names of other processes on NetBSD and FreeBSD once one
  was passed over (`process_stats.c:721`, 962); on Solaris the data of the process before
  when `psinfo` or `usage` cannot be read (`process_stats.c:387`, 428), on Windows the name of
  the user before and the type of the drive before (`disk_stats.c:994`); interfaces whose
  flags could not be read stay in the list, unwritten (`network_stats.c:766`), and so do
  disks of NetBSD that went away between two `sysctl()`s (`disk_stats.c:1671`); counters a kstat
  does not have (`network_stats.c:556`); a disk of Darwin without a name; what is
  undefined on AIX and Windows anyway.
- `Speechless` (`FailureSaysWhy`): `scan_proc_dir()` without memory
  (`process_stats.c:209`), a line missing from `/proc/stat` (`page_stats.c`), a
  version that cannot be printed on Windows, and the file systems, where
  `VECTOR_UPDATE(.., 0, ..)` clears the error (`disk_stats.c:1246`).
- `Incomplete` (`RecordWhole`), with what the record may be: `getloadavg()` unchecked
  (`load_stats.c:43`) and a load the closed kstat chain does not name (`load_stats.c:65`), junk;
  lines missing from `/proc/meminfo` and the cache on HP-UX, mixed with the last sample; a
  Solaris swap list that has become shorter (`swap_stats.c:196`) and lines missing from
  `/proc/stat` (`page_stats.c`), zero; a processor without a readable kstat (`page_stats.c:79`,
  `cpu_stats.c:186`), lines missing from `/proc/stat` (`cpu_stats.c`), the vm counters of the BSDs,
  the cache on Windows (`memory_stats.c:349`), the processors on Windows (where the record
  may also stay zero) and under Cygwin (`os_info.c:465`), the width of an unknown machine of the
  BSDs (`os_info.c:513`), the boot time on AIX, part.
- `SwapSumsAll` is about HP-UX and `XSWDEV`; on Solaris every device overwrites
  the one before (`swap_stats.c:197`).

And in `Monitor`: after a failed sample the next difference is everything since
the system was started (`DifferencesAddUp` forgives that, its sum starts again);
`PercentsDefined` is about rounds in which a difference is shown, so not about the
first one of `statgrab -s -p`; `statgrab -p` then shows percentages of a record that was
never written if that was the first difference (`cpu_stats.c:527`); with `-t 0`, or
a key pressed at once in `saidar`, percentages may be of a total of 0
(`cpu_stats.c:445`); in `saidar` keys pressed more often than once a second
keep the old numbers, because `last_update` is set on every pass
(`saidar.c:921`).

## 4. Proofs

TLAPS checks the theorems for every value of the constants; the assumptions are
the named `ASSUME`s of the modules, which TLC evaluates in every run.

- `GlobalsProofs`. `IInv == TypeOK /\ GlobalExclusion /\ CounterCounts /\ Staging`
  is inductive. None of the first three is by itself: the counter is exact only
  because the mutex excludes, and that what is read without the mutex is
  complete (`UsableWhileReferenced`) needs `Staging`, which says how far the one
  thread that builds or dismantles has come and that between such threads the
  tables are complete or gone as the counter says. The proof counts threads: a
  step moves one thread from a label to another, and lemma `Move` says what that
  does to the number of threads whose reference is counted. `BInv` adds the
  buffers and the owners of `utmp`. From these: types, exclusion, the exact
  counter, completeness while referenced, emptiness when down, no change of
  the tables while referenced (an action property), whole buffers, no vector
  left behind, one walker of the login records.
- `GlobalsRefines`. `Refinement`: `Spec => RefCountedSpec`. Whoever has the mutex is
  the only thread that makes the phase anything but up or down (`OnlyWorker`), so
  its label and the counter are the phase (`PhaseAt`), before a step and after
  it; each step is then a step of `RefCounted` or changes neither the phase nor the
  references nor the parts. `FailureHolds` needs one more invariant, `Noting`: how
  `errc` and the components that are up belong together at each turn of the loop
  over `comp_info`.
- `AccessorsProofs`. `Room` is inductive: every live vector's room covers its
  items and is at least what its header says, rounded. `CapacityHolds` assumes
  that a gatherer which appends to its caller's vector finds an item;
  `FailureHasErrorHolds` that it is one of those.
- `AccessorsHeapProofs` builds on it, with the same hypothesis (an appending
  gatherer finds an item: the run `accessors_clone_empty` shows what happens
  otherwise). `Lasting` says that no slot is left pointing to a freed vector and
  which vectors a difference works on; with it `NoDanglingHolds`. `Completing` adds
  that every result of the application is whole, or is the one being filled right
  now, and `Latest` that the thread's own list is whole from the moment its gatherer has
  reported success; with both `SamplesWholeHolds`. `Accounting` adds that the number of blocks on the
  heap is the number of slots that hold a vector and that the local variables
  `last` and `tmp` hold one only between certain labels; each step changes two slots
  at most and the heap with them (`Balanced`), and at `idle` the locals are empty,
  which is `NoLeakHolds`. For file systems it assumes that allocations do not fail:
  one that does loses the list (`disk_stats.c:1246`). `AccessorsTypes` are the types.
- `DifferencesProofs`. `DInv` says that samples have no doubles and count
  `moved % Wrap`, that an item listed and not gone has only moved more, and how
  far the loops have come (`Progress`): what has been passed and matched is
  subtracted, the rest is still a clone, and only what was passed is marked.
  `WrapDiff` is the arithmetic. `DifferenceHolds` assumes `WidthsAgree`: the
  counters are as wide as `compute_diff_fn` takes them to be, which is what the
  run `differences_disk_wrap` gives up. `DifferencesTypes` needs no such assumption.
- `MonitorProofs`. `MInv` is inductive and all five properties follow from it:
  what the pointers may point to (`Pointers`), that no sample is from the future,
  that what the tool has been told and what it is about to learn are together
  the last sample (`Sums`), which record the percentages are of (`Beside`), that
  after a sleep the clock is past the last sample (`Moving`), and that saidar's wait
  ends in a later whole second than the last one it noted (`Waiting`). The sums are
  the delicate part: statgrab follows a pointer to the last sample only after
  the percentages may have taken another one, which does no harm because such a
  pointer is handed out only when nothing has been told yet. Any clock, any
  number of ticks in a second and any set of delays.
- `GatherersProofs`. What a gatherer holds, has written and has reported does not
  depend on how many items there are. `GathererPaths` therefore follows the graphs
  without the items: `Views` are the finitely many (3242) combinations of label,
  resources held and stale, record, error and vector pointer that edges lead to.
  The assumptions there have no parameter, they are closed formulas about the
  graphs: that `Views` starts at the starts and is closed under the edges
  (`ViewsAssumption`), and that no view is a bad one (`PathsAssumption`). TLC evaluates
  them whenever the run `gatherers_all` starts, and the proofs cite them. What TLAPS
  proves is that every action of `Gatherers` moves along an edge of the views
  (`TrackedInvariant`), for every `MaxItems`; with it `NothingLeftBehindHolds`,
  `FailureSaysWhyHolds`, `RecordWholeHolds` and `FreesHeldHolds`, the part of
  `DefinedBehaviour` about double releases. Each holds up to its table of known exceptions;
  `PathsAssumption` says of a branch in a table that it does nothing else. A change of a graph that opens a bad path
  makes `PathsAssumption` false; a change of an action that leaves the views
  violates the property in the run.
- `GathererItemsProofs`. With the items there are infinitely many states, but what the
  properties need of them are relations: `n` is below `seen`, `used` is `n + known`, the
  first `n` slots were written whole and in order (`Good`), the item at hand is not
  among them (`Fresh`). `GathererItems` names each such relation as a fact, says in
  `Counts`, `Size`, `Written`, `Pointer` and `Reason` what it means and in `Outcomes(F, e)`
  which facts are sure after edge `e` if those of `F` were before; `ItemViews` are the
  6098 pairs of a label and a set of facts that edges lead to. As before the
  assumptions are closed formulas that TLC evaluates: the views are closed
  under the edges (`ItemViewsAssumption`), and at each of them whatever is counted was
  looked at, whatever is written is inside the vector, a returned list is as long
  as what was written, and a sum is over all devices (`ItemsAssumption`). TLAPS
  proves, one lemma per action, that the facts of some view of the label are true in
  every state of every run (`Itemized`), for every `MaxItems`. `Itemized` needs
  `DefinedBehaviour` and the bounds on the counts as conjuncts: that a slot exists
  is known only because what was counted before was looked at. That releases are
  defined is taken from `Tracked`.
  From it `DefinedBehaviourHolds`, `ItemsWholeHolds`, `SwapSumsHold` and, with the
  values of the flags (`Flags`), `GathererTypes`.

Only model-checked: liveness (`LockReleased` and its companions in `Globals`, `Terminates` in
`Gatherers`), since fairness and `ENABLED` are out of this prover's reach. Every invariant
and every safety action property of the passing runs is a theorem.

## 5. Not modelled, and what is left

- Text: `sg_str_error`, `sg_strperror`, tracing, the names and formats of
  `statgrab`, the screen of `saidar`, the Perl scripts.
- `error.c`: the record is the thread's own and plainly assigned. `Accessors`
  and `Gatherers` keep what the accessors do with it.
- Windows counters (`win32.c`): a wrapper of the PDH library. The single-thread
  build of `globals.c`.
- `sg_set_valid_filesystems()` and its readers: no mutex protects the registry, and
  `disk_stats.c:599` leaves open who is to lock it ("XXX this must be locked -
  from caller ?"). The comparators of sorted lists.
- `sg_get_process_count_of()` and `_r()`: sums over a list of processes. The
  former goes on when gathering failed; both keep no state.
- The `_r` and `_between` variants of single records and `sg_get_cpu_percents_r()`:
  a record of the caller's own, no state.
- The counters of `VM_METER`, for which `counter_diff()` takes a wrap to be at
  2^31 (`cpu_stats.c:393`).
- In `Differences` an empty sample gives an empty difference; that the code reads
  a freed vector there is the subject of `accessors_clone_empty`. An item that goes
  away and comes back between two samples (`network_stats.c:65`) cannot be told
  from a wrap by two readings.

Left to do: the theorems of `Accessors` assume that an appending gatherer finds an item, and
`NoLeakHolds` for file systems that allocations do not fail, because the code violates
the properties otherwise; what remains true without these hypotheses could be stated
and proved by itself.
