----------------------------- MODULE Gatherers -----------------------------
(***************************************************************************)
(* One call of a gatherer, from the accessor that calls it to its return:  *)
(* the graphs of the gatherer modules, run against an operating system     *)
(* that has some items to report and may refuse any of the calls.          *)
(*                                                                         *)
(* ub is the first undefined behaviour a step runs into: an access through *)
(* a NULL pointer ("null"), outside the vector or a buffer ("bounds"), to  *)
(* what is freed ("stale"), or the release of what is not held ("free");   *)
(* nothing is known of the program after it, so nothing happens in the     *)
(* model either.                                                           *)
(***************************************************************************)
EXTENDS ProcessGatherers, RecordGatherers, DiskGatherers, NetworkGatherers, FiniteSets

CONSTANT MaxItems   \* bound: items on the system

ASSUME GatherersAssumption == MaxItems \in Nat \ {0}

\* The gatherers of a list, by operating system or by what configure found.
Lists ==
    [process_solaris |-> SolarisProcesses,
     process_linux   |-> LinuxProcesses,
     process_netbsd  |-> KernProc2,
     process_freebsd |-> KernProc,
     process_hpux    |-> HpuxProcesses,
     process_aix     |-> AixProcesses,
     process_other   |-> NoProcesses,
     user_windows    |-> WindowsUsers,
     user_utmpx      |-> UtmpUsers,
     user_file       |-> UtmpFileUsers,
     fs_vfsstat      |-> FsStats(VfsstatList),
     fs_mntctl       |-> FsStats(MntctlList),
     fs_mntent       |-> FsStats(MntentList),
     fs_windows      |-> WindowsFs,
     fs_other        |-> FsStats(NoList),
     disk_aix        |-> AixDisks,
     disk_darwin     |-> DarwinDisks,
     disk_hpux       |-> HpuxDisks,
     disk_netbsd     |-> SysctlDisks,
     disk_freebsd    |-> DevstatDisks,
     disk_solaris    |-> SolarisDisks,
     disk_linux      |-> LinuxDisks,
     disk_windows    |-> WindowsDisks,
     disk_other      |-> NoDisks,
     io_hpux         |-> HpuxTraffic,
     io_bsd          |-> BsdTraffic,
     io_aix          |-> AixTraffic,
     io_solaris      |-> SolarisTraffic,
     io_linux        |-> LinuxTraffic,
     io_windows      |-> WindowsTraffic,
     io_other        |-> NoTraffic,
     iface_bsd       |-> BsdIfaces @@ BsdMedia,
     iface_aix       |-> AixIfaces,
     iface_hpux      |-> HpuxIfaces,
     iface_solaris   |-> SolarisIfaces,
     iface_linux     |-> LinuxIfaces,
     iface_windows   |-> WindowsIfaces,
     iface_other     |-> NoIfaces]

\* Those of a record; the ones that ask the same questions in the same order share a graph.
Records ==
    [load_getloadavg |-> GetloadavgLoad, load_kstat |-> KstatLoad, load_hpux |-> HpuxLoad,
     load_aix |-> AixLoad, load_other |-> OtherLoad,
     mem_hpux |-> HpuxMem, mem_aix |-> AixMem, mem_sysconf |-> SysconfMem, mem_kstat |-> KstatMem,
     mem_linux |-> LinuxMem, mem_uvmexp2 |-> Uvmexp2Mem, mem_uvmexp |-> UvmexpMem,
     mem_mach |-> MachMem, mem_freebsd |-> FreeBsdMem, mem_windows |-> WindowsMem,
     mem_vmtotal |-> VmtotalMem,
     swap_hpux |-> HpuxSwap, swap_aix |-> AixSwap, swap_solaris |-> SolarisSwap,
     swap_anoninfo |-> AnoninfoSwap, swap_linux |-> LinuxSwap, swap_xswdev |-> XswdevSwap,
     swap_xsw_usage |-> XswUsageSwap, swap_uvmexp2 |-> Uvmexp2Swap, swap_uvmexp |-> UvmexpSwap,
     swap_kvm |-> KvmSwap, swap_windows |-> WindowsSwap,
     page_solaris |-> SolarisPage, page_linux |-> LinuxPage, page_mach |-> MachPage,
     page_uvmexp2 |-> Uvmexp2Page, page_uvmexp |-> UvmexpPage, page_freebsd |-> FreeBsdPage,
     page_aix |-> AixPage, page_hpux |-> HpuxPage,
     cpu_hpux |-> HpuxCpu, cpu_aix |-> AixCpu, cpu_solaris |-> SolarisCpu, cpu_linux |-> LinuxCpu,
     cpu_bsd |-> BsdCpu,
     host_windows |-> WindowsHost, host_hpux |-> HpuxHost, host_solaris |-> SolarisHost,
     host_linux |-> LinuxHost, host_cygwin |-> CygwinHost, host_bsd |-> BsdHost, host_aix |-> AixHost]

\* Those of the static list of file system types.
FsTypes ==
    [types_xvfsconf |-> XvfsconfFs, types_vfsconf |-> VfsconfFs, types_names |-> VfsNamesFs,
     types_sysfs |-> SysfsFs, types_aix |-> AixFs, types_linux |-> LinuxFs,
     types_builtin |-> BuiltinFs]

Graph == Lists @@ Records @@ FsTypes

VARIABLES
    g,       \* the gatherer that runs
    at,      \* the label it has reached
    held,    \* files, buffers and locks acquired and not released
    dead,    \* those released, whose variable still has the old value
    left,    \* items the system has not announced yet
    known,   \* items announced, not looked at yet
    seen,    \* items looked at
    n,       \* items counted
    live,    \* the vector pointer is not NULL
    used,    \* used_count of the vector
    name,    \* slot of the vector -> number of the item its name was copied from
    rest,    \* slot of the vector -> number of the item its other fields are from
    record,  \* what the record holds, for a gatherer of one
    error,   \* sg_get_error(): "none", "stale" (from before the call) or "set"
    ub

items == <<left, known, seen, n>>
vector == <<live, used, name, rest>>
vars == <<g, at, held, dead, items, vector, record, error, ub>>

Blank == MaxItems    \* not the number of an item
Slots == 0 .. MaxItems

TypeOK ==
    /\ g \in DOMAIN Graph
    /\ at \in DOMAIN Graph[g] \cup {"ok", "failed"}
    /\ held \cap dead = {}
    /\ left \in 0..MaxItems /\ known \in 0..MaxItems /\ seen \in 0..MaxItems /\ n \in 0..MaxItems
    /\ left + known + seen <= MaxItems
    /\ live \in BOOLEAN /\ used \in 0..MaxItems
    /\ name \in [Slots -> 0..Blank] /\ rest \in [Slots -> 0..Blank]
    /\ record \in {"old", "zero", "part", "mixed", "junk", "whole"}
    /\ error \in {"none", "stale", "set"}
    /\ ub \in {"none"} \cup Crashes

\* The accessor has created the vector, or has cleared the one of the last call; the record is
\* that of the last call.
Init ==
    /\ g \in DOMAIN Graph
    /\ at = "start"
    /\ held = {} /\ dead = {}
    /\ left \in 0..MaxItems /\ known = 0 /\ seen = 0 /\ n = 0
    /\ live = TRUE
    /\ used = IF g \in DOMAIN Records THEN 1 ELSE 0
    /\ name = [s \in Slots |-> Blank] /\ rest = [s \in Slots |-> Blank]
    /\ record = "old"
    /\ error \in {"none", "stale"}
    /\ ub = "none"

----------------------------------------------------------------------------

\* Mutant: the cleanup is left out where the function fails.
Follow_NoCleanup(e) ==
    /\ at' = e.to
    /\ held' = IF e.to = "failed" THEN held ELSE (held \ e.puts) \cup e.gets
    /\ dead' = IF e.to = "failed" THEN dead ELSE (dead \cup (held \cap e.puts)) \ e.gets
    /\ g' = g

\* The edge is followed: to its label, with what it acquires and releases.
Follow(e) ==
    /\ at' = e.to
    /\ held' = (held \ e.puts) \cup e.gets
    /\ dead' = (dead \cup (held \cap e.puts)) \ e.gets
    /\ g' = g

Releases(e) == ub' = IF e.puts \cap dead = {} THEN ub ELSE "free"

\* The edges with an operation of O that leave the label reached.
Running == at \notin {"ok", "failed"} /\ ub = "none"
Edges(O) == IF Running THEN {e \in Graph[g][at] : e.op \in O} ELSE {}

\* A statement that touches neither the items nor the vector.
Move ==
    \E e \in Edges({"none"}) :
        Follow(e) /\ Releases(e) /\ UNCHANGED <<items, vector, record, error>>

\* The code goes back to try again.
Retry ==
    \E e \in Edges({"again"}) :
        Follow(e) /\ Releases(e) /\ UNCHANGED <<items, vector, record, error>>

\* A test of the number of items there are, or that the vector has.
Test ==
    \E e \in Edges({"end", "dry", "some", "found", "none_found", "exact", "loose"}) :
        /\ e.op \in {"end", "dry"} => known = 0
        /\ e.op = "dry" => left = 0
        /\ e.op = "some" => left > 0
        /\ e.op = "found" => n > 0
        /\ e.op = "none_found" => n = 0
        /\ e.op = "exact" => ~live \/ used = n
        /\ e.op = "loose" => live /\ used # n
        /\ Follow(e) /\ Releases(e) /\ UNCHANGED <<items, vector, record, error>>

\* The system announces all its items, or some of them.
Announce ==
    \E e \in Edges({"all", "batch", "more"}) :
        /\ known = 0
        /\ e.op = "more" => left > 0
        /\ known' \in IF e.op = "all" \/ left = 0 THEN {left} ELSE 1..left
        /\ left' = left - known'
        /\ Follow(e) /\ Releases(e) /\ UNCHANGED <<seen, n, vector, record, error>>

Next_Item ==
    \E e \in Edges({"next"}) :
        /\ known > 0
        /\ known' = known - 1 /\ seen' = seen + 1
        /\ Follow(e) /\ Releases(e) /\ UNCHANGED <<left, n, vector, record, error>>

\* Mutant: no room for the item at hand.
NewCount_ButThis(e) ==
    CASE e.by \in {"n", "n+1"} -> n
      [] e.by = "n+known"      -> n + known
      [] e.by = "n-1"          -> n - 1

NewCount(e) ==
    CASE e.by = "n"       -> n
      [] e.by = "n+1"     -> n + 1
      [] e.by = "n+known" -> n + known
      [] e.by = "n-1"     -> n - 1

\* Mutant: and the last of those that are kept.
Cut_OneMore(f, c) == [s \in Slots |-> IF s + 1 < c THEN f[s] ELSE Blank]

\* The slots from c on are destroyed.
Cut(f, c) == [s \in Slots |-> IF s < c THEN f[s] ELSE Blank]

\* VECTOR_UPDATE() with enough memory: resizing to 0 frees the vector and clears the error, and
\* where there is no vector one is created.
Resize ==
    \E e \in Edges({"resize"}) :
        LET c == NewCount(e) IN
        /\ Follow(e)
        /\ live' = ~(live /\ c = 0)
        /\ used' = IF c < 0 THEN 0 ELSE c
        /\ name' = Cut(name, c) /\ rest' = Cut(rest, c)
        /\ error' = IF live /\ c = 0 THEN "none" ELSE error
        /\ ub' = IF c < 0 THEN "bounds" ELSE ub
        /\ UNCHANGED <<items, record>>

\* VECTOR_UPDATE() without: the vector is freed and its pointer is NULL.  One of the right size is
\* not reallocated.
Lose ==
    \E e \in Edges({"lost", "lost_none"}) :
        /\ IF e.op = "lost" THEN NewCount(e) > 0 ELSE NewCount(e) = 0
        /\ ~live \/ NewCount(e) \notin {0, used}
        /\ Follow(e) /\ Releases(e)
        /\ live' = FALSE /\ used' = 0
        /\ name' = Cut(name, 0) /\ rest' = Cut(rest, 0)
        /\ error' = "set"
        /\ UNCHANGED <<items, record>>

\* Fields of an item are written: from record i of the system to slot n, except that "name_i"
\* writes to slot i and "name_n" reads record n.
Write ==
    \E e \in Edges({"store", "add", "name", "name_i", "name_n", "rest"}) :
        LET i == seen - 1
            slot == IF e.op = "name_i" THEN i ELSE n
            from == IF e.op = "name_n" THEN n ELSE i
        IN
        /\ Follow(e)
        /\ name' = IF e.op = "rest" THEN name ELSE [name EXCEPT ![slot] = from]
        /\ rest' = IF e.op \in {"store", "add", "rest"} THEN [rest EXCEPT ![slot] = from] ELSE rest
        /\ n' = IF e.op = "add" THEN n + 1 ELSE n
        /\ ub' = IF ~live THEN "null" ELSE IF slot >= used THEN "bounds"
                 ELSE IF e.puts \cap dead = {} THEN ub ELSE "free"
        /\ UNCHANGED <<left, known, seen, live, used, record, error>>

\* A local variable is copied to slot n although the call that should have filled it has failed: it
\* has what a slot before got from it, or nothing.
Kept(f) == {f[s] : s \in 0 .. n - 1} \cup {Blank}
Repeat ==
    \E e \in Edges({"same_name", "same_rest"}) :
        /\ Follow(e)
        /\ \/ e.op = "same_name" /\ rest' = rest /\ \E v \in Kept(name) : name' = [name EXCEPT ![n] = v]
           \/ e.op = "same_rest" /\ name' = name /\ \E v \in Kept(rest) : rest' = [rest EXCEPT ![n] = v]
        /\ ub' = IF ~live THEN "null" ELSE IF n >= used THEN "bounds"
                 ELSE IF e.puts \cap dead = {} THEN ub ELSE "free"
        /\ UNCHANGED <<items, live, used, record, error>>

Count ==
    \E e \in Edges({"count"}) :
        /\ n' = n + 1
        /\ Follow(e) /\ Releases(e) /\ UNCHANGED <<left, known, seen, vector, record, error>>

\* sg_get_fs_stats_int() works on a vector of its own, which is NULL at first; then it turns to that
\* of its caller, with the items listed so far before it.
SetAside ==
    \E e \in Edges({"local"}) :
        /\ live' = FALSE
        /\ Follow(e) /\ Releases(e) /\ UNCHANGED <<items, used, name, rest, record, error>>

\* Mutant: the index of the items listed is not reset.
HandOver_NoReset ==
    \E e \in Edges({"handover"}) :
        /\ Follow([e EXCEPT !.gets = IF live THEN {"tmp"} ELSE {}])
        /\ known' = n /\ n' = 0
        /\ live' = TRUE /\ used' = 0
        /\ name' = Cut(name, 0) /\ rest' = Cut(rest, 0)
        /\ UNCHANGED <<left, seen, record, error, ub>>

HandOver ==
    \E e \in Edges({"handover"}) :
        /\ Follow([e EXCEPT !.gets = IF live THEN {"tmp"} ELSE {}])
        /\ known' = n /\ n' = 0 /\ seen' = 0
        /\ live' = TRUE /\ used' = 0
        /\ name' = Cut(name, 0) /\ rest' = Cut(rest, 0)
        /\ UNCHANGED <<left, record, error, ub>>

\* The n items found are copied to the vector; "copy_last" with fields of the item before.
Before(s) == IF s = 0 THEN Blank ELSE s - 1
Copy ==
    \E e \in Edges({"copy", "copy_last"}) :
        /\ name' = [s \in Slots |-> IF s < n THEN s ELSE name[s]]
        /\ rest' = [s \in Slots |-> IF s >= n THEN rest[s] ELSE IF e.op = "copy" THEN s ELSE Before(s)]
        /\ Follow(e) /\ Releases(e) /\ UNCHANGED <<items, live, used, record, error>>

\* Mutant: a field is not written, and only the reset before keeps its last value out.
WriteRecord_ButOne ==
    \E e \in Edges({"zero", "part", "junk", "fill"}) :
        /\ record' = CASE e.op = "zero" -> "zero"
                       [] e.op \in {"part", "fill"} /\ record = "old" -> "mixed"
                       [] e.op = "part" /\ record # "old" -> "part"
                       [] e.op = "junk" -> "junk"
                       [] e.op = "fill" /\ record # "old" -> "whole"
        /\ Follow(e) /\ Releases(e) /\ UNCHANGED <<items, vector, error>>

\* The record is reset or written; a part written over the values of the last call is a mixture.
WriteRecord ==
    \E e \in Edges({"zero", "part", "junk", "fill"}) :
        /\ record' = CASE e.op = "zero" -> "zero"
                       [] e.op = "part" -> IF record = "old" THEN "mixed" ELSE "part"
                       [] e.op = "junk" -> "junk"
                       [] e.op = "fill" -> "whole"
        /\ Follow(e) /\ Releases(e) /\ UNCHANGED <<items, vector, error>>

\* Mutant: every device takes the place of those before it.
Sum_Device_Last ==
    \E e \in Edges({"sum", "last"}) :
        /\ n' = 1
        /\ Follow(e) /\ Releases(e) /\ UNCHANGED <<left, known, seen, vector, record, error>>

\* One more device in the sum, or the last one in the place of it.
Sum_Device ==
    \E e \in Edges({"sum", "last"}) :
        /\ n' = IF e.op = "sum" THEN n + 1 ELSE 1
        /\ Follow(e) /\ Releases(e) /\ UNCHANGED <<left, known, seen, vector, record, error>>

\* A statement whose behaviour is undefined.
Crash ==
    \E e \in Edges(Crashes) :
        /\ ub' = e.op
        /\ Follow(e) /\ UNCHANGED <<items, vector, record, error>>

\* Mutant: an error that is there already is not replaced.
SetError_Once ==
    \E e \in Edges({"error", "clear"}) :
        /\ error' = IF e.op = "clear" THEN "none" ELSE IF error = "none" THEN "set" ELSE error
        /\ Follow(e) /\ Releases(e) /\ UNCHANGED <<items, vector, record>>

\* An error is set, and the function may go on; or the last one is cleared.
SetError ==
    \E e \in Edges({"error", "clear"}) :
        /\ error' = IF e.op = "error" THEN "set" ELSE "none"
        /\ Follow(e) /\ Releases(e) /\ UNCHANGED <<items, vector, record>>

\* The function returns sg_get_error() without having set one.
ReturnPrevious ==
    \E e \in Edges({"quit"}) :
        /\ Follow([e EXCEPT !.to = IF error = "none" THEN "ok" ELSE "failed"])
        /\ Releases(e) /\ UNCHANGED <<items, vector, record, error>>

\* The call is over.
Done == ~Running /\ UNCHANGED vars

Onward ==
    \/ Move \/ Test \/ Announce \/ Next_Item \/ Resize \/ Lose \/ Write \/ Repeat \/ Count
    \/ SetAside \/ HandOver \/ Copy \/ WriteRecord \/ Sum_Device \/ Crash
    \/ SetError \/ ReturnPrevious

Next == Onward \/ Retry \/ Done

Spec == Init /\ [][Next]_vars

\* The code runs on, and a system that is asked again and again does not refuse for ever: at every
\* label where the code goes back to try again, it eventually gets past.
Retries == {l \in UNION {DOMAIN Graph[x] : x \in DOMAIN Graph} :
              \E x \in DOMAIN Graph : l \in DOMAIN Graph[x] /\ \E e \in Graph[x][l] : e.op = "again"}
Fairness == WF_vars(Next) /\ \A l \in Retries : SF_vars(at = l /\ Onward)
FairSpec == Spec /\ Fairness

----------------------------------------------------------------------------
(* Properties                                                              *)

Returned == ~Running /\ ub = "none"
Succeeded == Returned /\ at = "ok"
Failed == Returned /\ at = "failed"

Static == {"valid_fs", "sys_fs_types"}    \* kept by the component on purpose

\* What a table of known exceptions allows a gatherer.
Allowed(table, x) == IF x \in DOMAIN table THEN table[x] ELSE {}

\* What failing gatherers are known to leave behind.
Forgotten ==
    [process_solaris |-> {"pids"},
     process_linux   |-> {"pids"},
     process_netbsd  |-> KinfoBuffers,
     fs_vfsstat      |-> {"mntbuf", "tmp"},
     fs_mntctl       |-> {"buf", "tmp"},
     fs_mntent       |-> {"f", "tmp"},
     fs_windows      |-> {"buf", "tmp"},
     disk_darwin     |-> {"drivelist", "drive", "properties"},
     disk_hpux       |-> {"dinfo", "dh"},
     disk_windows    |-> {"name"},
     io_bsd          |-> {"net"},
     iface_bsd       |-> {"net", "sock"},
     mem_kstat       |-> {"kc"},
     swap_xswdev     |-> {"xswbuf"},
     host_aix        |-> {"mutex"},
     types_aix       |-> {"fh"}]

\* A gatherer that succeeds has closed its files, freed its buffers and unlocked the user database;
\* one that fails has too, apart from what is known to be forgotten.
NothingLeftBehind ==
    Returned => held \subseteq Static \cup (IF at = "failed" THEN Allowed(Forgotten, g) ELSE {})

\* Gatherers with statements whose behaviour is undefined even when there is memory enough, and what
\* these do.
Hazardous ==
    [process_solaris |-> {"bounds"},
     process_linux   |-> {"free"},
     process_aix     |-> {"bounds"},
     user_windows    |-> {"bounds"},
     fs_mntctl       |-> {"bounds"},
     fs_windows      |-> {"bounds"},
     disk_darwin     |-> {"free"},
     disk_netbsd     |-> {"bounds"},
     io_windows      |-> {"bounds"},
     load_kstat      |-> {"stale"},
     swap_xswdev     |-> {"bounds"},
     host_windows    |-> {"null", "free"},
     types_linux     |-> {"null"}]

\* Apart from these, only an allocation that VECTOR_UPDATE() was refused is followed by undefined
\* behaviour, and that is a write through its NULL: no gatherer writes beyond its vector, none
\* releases what it does not hold, none reads what it has released.
DefinedBehaviour ==
    ub # "none" => ub \in Allowed(Hazardous, g) \/ (ub = "null" /\ ~live /\ error = "set")

\* Gatherers that may return items of which nothing or only a part was written, or that have fields
\* of another item.
Patchy == {"process_solaris", "process_netbsd", "process_freebsd", "process_aix", "user_windows",
           "fs_windows", "disk_darwin", "disk_netbsd", "io_solaris", "io_windows", "iface_bsd",
           "iface_aix", "iface_hpux"}

\* Unless an error was set on the way, every item of a list was written whole (with every field the
\* branch has a source for), from one and the same item of the system, and no item of the system
\* occurs twice: a list never mixes two processes, disks or interfaces.
ItemsWhole ==
    Succeeded /\ g \in DOMAIN Lists \ Patchy /\ live /\ error # "set" =>
        /\ used = n
        /\ \A s \in 0 .. n - 1 : name[s] = rest[s] /\ rest[s] # Blank
        /\ \A s, t \in 0 .. n - 1 : s < t => name[s] < name[t]

\* Where the calls of scan_proc_dir() and others fail without setting an error, and where
\* sg_get_fs_stats_int() clears it.
Speechless == {"process_solaris", "process_linux", "page_linux", "host_windows", "fs_vfsstat",
               "fs_mntctl", "fs_mntent", "fs_windows", "fs_other"}

\* A gatherer that fails has set an error of its own: the caller is told what went wrong, not what
\* went wrong some calls before.
FailureSaysWhy == Failed /\ g \notin Speechless => error = "set"

\* Records that may be returned as they were reset, filled in part, mixed with the last sample, or
\* with what an unchecked call left.
Incomplete ==
    [load_getloadavg |-> {"junk"},
     load_kstat      |-> {"junk"},
     mem_hpux        |-> {"mixed"},
     mem_linux       |-> {"mixed"},
     mem_windows     |-> {"part"},
     swap_solaris    |-> {"zero"},
     page_solaris    |-> {"part"},
     page_linux      |-> {"zero"},
     cpu_solaris     |-> {"part"},
     cpu_linux       |-> {"part"},
     cpu_bsd         |-> {"part"},
     host_windows    |-> {"zero", "part"},
     host_cygwin     |-> {"part"},
     host_bsd        |-> {"part"},
     host_aix        |-> {"part"}]

\* A record that is returned was written whole by this call, in every field the branch has a source
\* for.  In the exceptions, what is missing is 0; only two memory gatherers keep fields of the last
\* sample, and only two load gatherers return what a call without a result left.
RecordWhole ==
    Succeeded /\ g \in DOMAIN Records => record \in {"whole"} \cup Allowed(Incomplete, g)

\* Swap space is the sum over all devices, whatever the batches they are announced in.
SwapSumsAll == Succeeded /\ g \in {"swap_hpux", "swap_xswdev"} => n = left + known + seen

\* Every call returns, with or without undefined behaviour.
Terminates == <>(~Running)
=============================================================================
