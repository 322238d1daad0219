-------------------------- MODULE ProcessGatherers --------------------------
(***************************************************************************)
(* sg_get_process_stats_int() and sg_get_user_stats_int(): one graph per   *)
(* operating system (src/libstatgrab/process_stats.c, user_stats.c).       *)
(***************************************************************************)
EXTENDS Gathering

\* scan_proc_dir(): the list of pids, kept in chunks of a page.  Running out of memory sets no
\* error; a failing readdir_r() sets one and the pids read so far are still used.
ScanProcDir(l) ==
    [scan    |-> {Get("pids", "dirent"), Quit({})},
     dirent  |-> {Get("dir_entry", "opendir"), Quit({"pids"})},
     opendir |-> Open("proc_dir", "readdir", {"pids", "dir_entry"}),
     readdir |-> {Put({"dir_entry", "proc_dir"}, l),
                  PutDo({"dir_entry", "proc_dir"}, "error", l),
                  Quit({"pids", "dir_entry", "proc_dir"})}]

\* A chunk at a time: make room for its pids, look at each, free it.
Chunks(item) ==
    [first |-> {Do("batch", "fit")},
     fit   |-> UpdateSum("n+known", "loop"),
     loop  |-> {Do("next", item), Do("more", "fit"), PutDo({"pids"}, "dry", "tail")}]

\* The end of sg_get_process_stats_int(): items that were not filled are dropped.
TrimProcesses ==
    [tail |-> {Do("exact", "ok"), Do("loose", "trim")},
     trim |-> Update("n", "ok", {})]

\* Neither fread() is looked at: when it reads nothing, process_info and process_usage are still
\* those of a process before, or were never written, in which case their strings may have no end.
\* The name stands for what psinfo tells, the rest for the counts of usage, which is not always there.
SolarisProcess ==
    [psinfo  |-> {Go("loop"), Get("f", "read")},
     read    |-> {Put({"f"}, "names"), Put({"f"}, "no_info")},
     names   |-> {Do("name", "usage"), Fail({})},
     no_info |-> {Do("same_name", "usage"), Do("bounds", "usage"), Fail({})},
     usage   |-> {Go("done"), Get("f", "counts")},
     counts  |-> {PutDo({"f"}, "rest", "done"), PutDo({"f"}, "same_rest", "done")},
     done    |-> {Do("count", "loop")}]

SolarisProcesses ==
    ScanProcDir("first") @@ Chunks("psinfo") @@ SolarisProcess @@ TrimProcesses @@
    [start |-> {Go("scan")}]

\* /proc/<pid>/comm, stat and status; a process that vanished in between is passed over.  When
\* comm opens but cannot be read, the same pid is tried again.
LinuxProcess ==
    [comm   |-> {Go("stat"), Get("f", "fgets")},
     fgets  |-> {Put({"f"}, "stat"), PutDo({"f"}, "again", "comm")},
     stat   |-> {Go("loop"), Get("f", "grow")},
     grow   |-> UpdateSum("n+1", "fscanf"),
     fscanf |-> {PutDo({"f"}, "rest", "loop"), Do("rest", "name")},
     name   |-> {PutDo({"f"}, "name", "status"), Fail({"f"})},
     status |-> {Go("loop"), Get("f", "ids")},
     ids    |-> {Put({"f"}, "loop"), Put({"f"}, "cmdline")}]

\* /proc/<pid>/cmdline; the cleanup after asprintf() closes f, which is closed already.
LinuxProctitle ==
    [cmdline  |-> {Go("loop"), Get("fd", "read")},
     read     |-> {Put({"fd"}, "asprintf"), Put({"fd"}, "loop"), Fail({"fd"})},
     asprintf |-> {Do("count", "loop"), Fail({"f"})}]

LinuxProcesses ==
    ScanProcDir("first") @@ Chunks("comm") @@ LinuxProcess @@ LinuxProctitle @@ TrimProcesses @@
    [start  |-> Open("f", "uptime", {}),
     uptime |-> {Put({"f"}, "scan"), Fail({"f"})}]

KinfoBuffers == {"kp_stats", "proctitle"}

\* CTL_KERN.KERN_PROC2 (NetBSD, OpenBSD): the failing sysctl()s free nothing.  The name and the
\* title go to slot i, the other fields to slot proc_items, which lags behind once a process
\* has been passed over.
KernProc2Fetch ==
    [start   |-> Open("proctitle", "size", {}),
     size    |-> Check("realloc", {}),
     realloc |-> Open("kp_stats", "fetch", KinfoBuffers),
     fetch   |-> {Do("all", "fit"), Do("again", "size"), Fail({})},
     fit     |-> Update("n+known", "loop", KinfoBuffers)]

KernProc2Item ==
    [loop   |-> Each("name", "cut"),
     name   |-> {Do("name_i", "fields"), Fail(KinfoBuffers)},
     fields |-> {Do("rest", "argv"), Do("rest", "kernel")}]

KernProc2Title ==
    [argv   |-> {Do("again", "argv"), Fail(KinfoBuffers)} \cup Either({"loop", "kernel", "title"}),
     title  |-> {Do("count", "loop"), Fail(KinfoBuffers)},
     kernel |-> {Do("count", "loop"), Fail(KinfoBuffers)},
     cut    |-> Update("n", "free", KinfoBuffers),
     free   |-> {Put(KinfoBuffers, "tail")}]

KernProc2 == KernProc2Fetch @@ KernProc2Item @@ KernProc2Title @@ TrimProcesses

\* CTL_KERN.KERN_PROC (FreeBSD, DragonFly, Darwin): every failure frees both buffers.  The name
\* is that of record proc_items of the kernel's list, the other fields are those of record i.
KernProcFetch ==
    [start   |-> Open("proctitle", "size", {}),
     size    |-> Check("realloc", KinfoBuffers),
     realloc |-> Open("kp_stats", "fetch", KinfoBuffers),
     fetch   |-> {Do("all", "fit"), Do("again", "size"), Fail(KinfoBuffers)},
     fit     |-> Update("n+known", "loop", KinfoBuffers)]

\* Records with state 0 are padding and passed over.
KernProcName ==
    [loop |-> Each("junk", "cut"),
     junk |-> Either({"loop", "name"}),
     name |-> {Do("name_n", "ids"), Fail(KinfoBuffers)},
     ids  |-> {Do("rest", "fields")}]

\* Times, sizes and state, a switch over what configure found.
KernProcFields == [fields |-> Either({"argv", "kernel"})]

KernProcTitle ==
    [argv   |-> Either({"loop", "kernel", "title"}),
     title  |-> {Do("count", "loop"), Fail(KinfoBuffers)},
     kernel |-> {Do("count", "loop"), Fail(KinfoBuffers)},
     cut    |-> Update("n", "free", KinfoBuffers),
     free   |-> {Put(KinfoBuffers, "tail")}]

KernProc == KernProcFetch @@ KernProcName @@ KernProcFields @@ KernProcTitle @@ TrimProcesses

HpuxProcesses ==
    TrimProcesses @@
    [start   |-> Open("procinfo", "getproc", {}),
     getproc |-> {Do("more", "fit"), PutDo({"procinfo"}, "dry", "tail"), Fail({"procinfo"})},
     fit     |-> UpdateSum("n+known", "loop"),
     loop    |-> Each("item", "getproc"),
     item    |-> Add("loop", {"procinfo"})]

AixProcessBuffers == {"procs", "cmndlinebuf"}

\* A result of -1 from getprocs64() is taken for a number of processes; a batch smaller than
\* the buffer, possibly an empty one, is the last.
AixProcesses ==
    TrimProcesses @@
    [start    |-> Open("procs", "buffer", {}),
     buffer   |-> Open("cmndlinebuf", "getprocs", {"procs"}),
     getprocs |-> {Do("more", "fit"), Do("dry", "empty"), Go("minus")},
     fit      |-> UpdateSum("n+known", "loop"),
     empty    |-> Update("n", "free", AixProcessBuffers),
     minus    |-> UpdateSum("n-1", "free"),
     loop     |-> {Do("next", "item"), Do("end", "getprocs"),
                   PutDo(AixProcessBuffers, "dry", "tail")},
     item     |-> Add("loop", AixProcessBuffers),
     free     |-> {Put(AixProcessBuffers, "tail")}]

NoProcesses == [start |-> {Fail({})}]

----------------------------------------------------------------------------
(* sg_get_user_stats_int()                                                 *)

\* NetWkstaUserEnum() may return no buffer and say that there is more to come.  A name that cannot
\* be converted leaves the one of the user before in the buffer, or a string without an end.
WindowsUsers ==
    [start |-> {GetDo("buf", "batch", "loop"), Do("again", "while"), Fail({})},
     loop  |-> Each("grow", "free"),
     grow  |-> UpdateSum("n+1", "item"),
     item  |-> Add("loop", {"buf"}) \cup {Do("same_name", "now"), Do("bounds", "now")},
     now   |-> {Do("rest", "count")},
     count |-> {Do("count", "loop")},
     free  |-> {Put({"buf"}, "while")},
     while |-> {Do("dry", "ok"), Do("some", "start")}]

\* One pass over the user database, which is global to the process: hence the mutex, whose
\* result is not looked at.
UtmpxPass ==
    [start |-> {Get("mutex", "setutxent"), Do("error", "setutxent")},
     setutxent |-> {GetDo("utmpx", "batch", "xloop")},
     xloop |-> {Do("next", "xtype"), PutDo({"utmpx"}, "end", "any")},
     xtype |-> Either({"xloop", "xgrow"}),
     xgrow |-> UpdateSum("n+1", "xitem"),
     xitem |-> Add("xloop", {"utmpx", "mutex"}),
     any   |-> {Do("found", "unlock"), Do("none_found", "setutent")}]

\* The second pass, over utmp, for when utmpx has no user.
UtmpPass ==
    [setutent |-> {GetDo("utmp", "all", "loop")},
     loop   |-> {Do("next", "type"), PutDo({"utmp"}, "end", "unlock")},
     type   |-> Either({"loop", "grow"}),
     grow   |-> UpdateSum("n+1", "item"),
     item   |-> Add("loop", {"utmp", "mutex"}),
     unlock |-> {Return({"mutex"})}]

UtmpUsers == UtmpxPass @@ UtmpPass

UtmpFileUsers ==
    [start |-> {GetDo("f", "all", "loop"), Fail({})},
     loop  |-> {Do("next", "type"), PutDo({"f"}, "end", "ok")},
     type  |-> Either({"loop", "grow"}),
     grow  |-> UpdateSum("n+1", "item"),
     item  |-> Add("loop", {"f"})]
=============================================================================
