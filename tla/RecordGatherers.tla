-------------------------- MODULE RecordGatherers ---------------------------
(***************************************************************************)
(* The gatherers that fill a single record: load, memory, swap, page, cpu  *)
(* and host statistics (src/libstatgrab/load_stats.c, memory_stats.c,      *)
(* swap_stats.c, page_stats.c, cpu_stats.c, os_info.c).                    *)
(*                                                                         *)
(* The record is reset ("zero"), written as a whole ("fill"), in part      *)
(* ("part") or with what an unchecked call left in a local ("junk").  It   *)
(* is whole when it has every field the branch has a source for; what      *)
(* sysconf() returns, and a line that is found, is taken to be readable.   *)
(* Where the record is a sum, "sum" adds a device or a processor and       *)
(* "last" puts one in the place of those before it.                        *)
(***************************************************************************)
EXTENDS Gathering

\* The record is set to 0 before the first call, or keeps what the last sample left there.
Reset == [start |-> {Do("zero", "first")}]
Keep == [start |-> {Go("first")}]

\* One call that fills the record, or fails.
Query == [first |-> {Do("fill", "ok"), Fail({})}]
Queries == [first |-> Check("second", {}), second |-> {Do("fill", "ok"), Fail({})}]

Unsupported == [first |-> {Fail({})}]

----------------------------------------------------------------------------
(* sg_get_load_stats_int()                                                 *)

\* The result of getloadavg() is not looked at.
GetloadavgLoad == Reset @@ [first |-> {Do("fill", "ok"), Do("junk", "ok")}]

\* The chain is closed before its data is looked up.
KstatLoad ==
    Reset @@
    [first  |-> Open("kc", "lookup", {}),
     lookup |-> Check("read", {"kc"}),
     read   |-> {Put({"kc"}, "data"), Fail({"kc"})},
     data   |-> {Do("stale", "ok"), Do("fill", "ok"), Do("junk", "ok"), Fail({})}]

HpuxLoad == Reset @@ Query
AixLoad == Reset @@ Query
OtherLoad == Reset @@ Unsupported

----------------------------------------------------------------------------
(* sg_get_mem_stats_int()                                                  *)

\* The size of the cache is not written.
HpuxMem == Keep @@ [first |-> Check("static", {}), static |-> {Do("part", "ok"), Fail({})}]

AixMem == Keep @@ Query
SysconfMem == Keep @@ Queries

\* No failure closes the kstat chain.
KstatMem ==
    Keep @@
    [first  |-> Open("kc", "lookup", {}),
     lookup |-> Check("read", {}),
     read   |-> Check("data", {}),
     data   |-> {PutDo({"kc"}, "fill", "ok"), Fail({})}]

\* A line that is missing from /proc/meminfo leaves its field alone.
LinuxMem ==
    Keep @@
    [first |-> Open("f", "lines", {}),
     lines |-> {PutDo({"f"}, "fill", "ok"), PutDo({"f"}, "part", "ok")}]

Uvmexp2Mem == Keep @@ Query
UvmexpMem == Keep @@ Query
MachMem == Keep @@ Query

FreeBsdMem ==
    Keep @@
    [first    |-> Check("free", {}),
     free     |-> Check("inactive", {}),
     inactive |-> Check("cache", {}),
     cache    |-> {Do("fill", "ok"), Fail({})}]

\* A counter that cannot be read makes the size of the cache 0.
WindowsMem ==
    Keep @@
    [first    |-> Check("cache", {}),
     cache    |-> {Do("fill", "ok"), Do("zero", "no_cache")},
     no_cache |-> {Do("part", "ok")}]

VmtotalMem ==
    Keep @@
    [first   |-> {Do("part", "physmem"), Fail({})},
     physmem |-> Check("usermem", {}),
     usermem |-> {Do("fill", "ok"), Fail({})}]

----------------------------------------------------------------------------
(* sg_get_swap_stats_int()                                                 *)

\* Batches of devices; the disabled ones are not announced.
HpuxSwap ==
    Reset @@
    [first  |-> {Do("more", "loop"), Do("dry", "whole"), Fail({})},
     loop   |-> Each("device", "first"),
     device |-> {Do("sum", "loop")},
     whole  |-> {Do("fill", "ok")}]

AixSwap == Reset @@ Query

SwapTable == {"buf", "swtbl"}

\* Every device overwrites the numbers of the one before; when the list has become shorter, so do
\* the entries left over, which are 0.
SolarisSwap ==
    Reset @@
    [first  |-> {Do("some", "buf"), Do("dry", "whole"), Fail({})},
     buf    |-> Open("buf", "table", {}),
     table  |-> Open("swtbl", "list", {"buf"}),
     list   |-> {Do("all", "loop"), PutDo(SwapTable, "zero", "ok"),
                 PutDo(SwapTable, "again", "first"), Fail(SwapTable)},
     loop   |-> {Do("next", "device"), PutDo(SwapTable, "end", "whole")},
     device |-> {Do("last", "loop")},
     whole  |-> {Do("fill", "ok")}]

AnoninfoSwap == Reset @@ Query

LinuxSwap ==
    Reset @@
    [first |-> Open("f", "lines", {}),
     lines |-> {PutDo({"f"}, "fill", "ok"), Fail({"f"})}]

\* Device by device, or an array of all of them whose buffer a failing sysctl() leaves behind.  The
\* size of an entry is read from the first one, also when there is none.
XswdevSwap ==
    Reset @@
    [first   |-> {Do("all", "loop"), Go("size")},
     size    |-> Check("buf", {}),
     buf     |-> Open("xswbuf", "fetch", {}),
     fetch   |-> {Do("all", "loop"), Do("dry", "no_entry"), Fail({})},
     no_entry |-> {Do("bounds", "loop")},
     loop    |-> {Do("next", "version"), PutDo({"xswbuf"}, "end", "whole"), Fail({"xswbuf"})},
     version |-> {Do("sum", "loop"), Fail({"xswbuf"})},
     whole   |-> {Do("fill", "ok")}]

XswUsageSwap == Reset @@ Query
Uvmexp2Swap == Reset @@ Query
UvmexpSwap == Reset @@ Query

KvmSwap ==
    Reset @@
    [first |-> Open("kvmd", "info", {}),
     info  |-> {PutDo({"kvmd"}, "fill", "ok"), Fail({"kvmd"})}]

WindowsSwap == Reset @@ Query

----------------------------------------------------------------------------
(* sg_get_page_stats_int()                                                 *)

\* One kstat per processor; one that cannot be read is passed over, and is missing from the sum.
KstatSum ==
    [first |-> {GetDo("kc", "all", "loop"), Fail({})},
     loop  |-> {Do("next", "cpu_stat"), PutDo({"kc"}, "end", "whole")},
     cpu_stat |-> {Do("sum", "loop"), Go("short")},
     whole |-> {Do("fill", "ok")},
     short |-> {Do("next", "others"), PutDo({"kc"}, "end", "partly")},
     others |-> {Do("sum", "short"), Go("short")},
     partly |-> {Do("part", "ok")}]

SolarisPage == Reset @@ KstatSum

\* sg_f_read_line() finds no line "page" and sets no error.
LinuxPage ==
    Reset @@
    [first  |-> {Get("f", "vmstat"), Go("stat")},
     vmstat |-> {PutDo({"f"}, "fill", "ok"), Fail({"f"})},
     stat   |-> Open("f", "line", {}),
     line   |-> {Put({"f"}, "page"), Quit({"f"})},
     page   |-> {Do("fill", "ok"), Fail({})}]

MachPage == Reset @@ Query
Uvmexp2Page == Reset @@ Query
UvmexpPage == Reset @@ Query
FreeBsdPage == Reset @@ Queries
AixPage == Reset @@ Query
HpuxPage == Reset @@ Query

----------------------------------------------------------------------------
(* sg_get_cpu_stats_int()                                                  *)

HpuxCpu == Reset @@ Queries
AixCpu == Reset @@ Query
SolarisCpu == Reset @@ KstatSum

\* One of the four lines of /proc/stat is enough.
LinuxCpu ==
    Reset @@
    [first |-> Open("f", "lines", {}),
     lines |-> {PutDo({"f"}, "fill", "ok"), PutDo({"f"}, "part", "ok"), Fail({"f"})}]

\* The ticks, then the counters of the virtual memory system, whose failure is an error or is
\* passed over (VM_METER).
BsdTicks == Reset @@ [first |-> {Do("part", "counters"), Fail({})}]
BsdCounters == [counters |-> {Do("fill", "ok"), Go("ok"), Fail({})}]
BsdCpu == BsdTicks @@ BsdCounters

----------------------------------------------------------------------------
(* sg_get_host_info_int()                                                  *)

\* get_os_name(): "Unknown" is a string literal, and the caller frees it; two of the strdup()s
\* are not checked.
GetOsName ==
    [os_name   |-> {Get("tmp_name", "suffix"), Go("unknown"), Fail({}), Do("null", "suffix"),
                    Quit({})},
     suffix    |-> Check("os_string", {"tmp_name"}),
     os_string |-> {Put({"tmp_name"}, "platform"), Fail({"tmp_name"})},
     unknown   |-> {Do("free", "platform")}]

\* A failing snprintf() of the version sets no error.  The numbers of processors stay 0.
WindowsHost ==
    Reset @@ GetOsName @@
    [first    |-> Open("name", "hostname", {}),
     hostname |-> {Put({"name"}, "version"), Fail({"name"})},
     version  |-> Check("digits", {}),
     digits   |-> {Go("os_name"), Quit({}), Fail({})},
     platform |-> Check("uptime", {}),
     uptime   |-> {Do("part", "ok"), Fail({})}]

\* uname() and its five strings.
Uname == [first |-> Check("strings", {}), strings |-> {Do("part", "uptime"), Fail({})}]

HpuxHost ==
    Reset @@ Uname @@ [uptime |-> Check("dynamic", {}), dynamic |-> {Do("fill", "ok"), Fail({})}]

SolarisHost ==
    Reset @@ Uname @@
    [uptime  |-> Open("kc", "lookup", {}),
     lookup  |-> {Put({"kc"}, "isabuf"), Fail({"kc"})},
     isabuf  |-> Open("isainfo", "sysinfo", {}),
     sysinfo |-> {PutDo({"isainfo"}, "fill", "ok"), Do("again", "sysinfo"), Fail({"isainfo"})}]

LinuxHost ==
    Reset @@ Uname @@
    [uptime |-> Open("f", "scan", {}),
     scan   |-> {PutDo({"f"}, "fill", "ok"), Fail({"f"})}]

\* The same branch under Cygwin, without the processors, their width and the state of the host.
CygwinHost ==
    Reset @@ Uname @@
    [uptime |-> Open("f", "scan", {}),
     scan   |-> {PutDo({"f"}, "part", "ok"), Fail({"f"})}]

\* A machine that cannot be read sets an error, and the function goes on without its width.
BsdHost ==
    Reset @@ Uname @@
    [uptime  |-> Check("ncpu", {}),
     ncpu    |-> Check("machine", {}),
     machine |-> {Go("online"), Do("error", "unknown")},
     online  |-> {Do("fill", "ok"), Fail({})},
     unknown |-> {Do("part", "ok"), Fail({})}]

\* The boot time is searched in the user database.
AixHost ==
    Reset @@ Uname @@
    [uptime |-> Check("string", {}),
     string |-> Check("lock", {}),
     lock   |-> Open("mutex", "setutxent", {}),
     setutxent |-> {Get("utmpx", "search")},
     search |-> {PutDo({"utmpx"}, "fill", "unlock"), Put({"utmpx"}, "unlock")},
     unlock |-> {Return({"mutex"}), Fail({})}]
=============================================================================
