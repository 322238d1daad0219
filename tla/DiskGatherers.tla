--------------------------- MODULE DiskGatherers ---------------------------
(***************************************************************************)
(* The functions of src/libstatgrab/disk_stats.c that ask the operating    *)
(* system: init_valid_fs_types(), sg_get_fs_stats_int() with the list of   *)
(* mounts it works on, and sg_get_disk_io_stats_int(); one graph for each  *)
(* way configure can choose.                                               *)
(***************************************************************************)
EXTENDS Gathering

\* init_valid_fs_types(): the list `valid_fs' stays when the function returns.
FillValidFs(R) ==
    [array   |-> Open("valid_fs", "strings", R),
     strings |-> {Return(R), Fail(R)}]

XvfsconfFs ==
    FillValidFs({"vfsp"}) @@
    [start  |-> Check("malloc", {}),
     malloc |-> Open("vfsp", "fetch", {}),
     fetch  |-> Check("array", {"vfsp"})]

\* Every failure sets an error and goes on with the builtin list.
VfsconfFs ==
    FillValidFs({"vfsp"}) @@
    [start  |-> {Go("calloc"), Do("error", "calloc")},
     calloc |-> {Get("vfsp", "conf"), Do("error", "array")},
     conf   |-> {Go("array"), PutDo({"vfsp"}, "error", "builtin")},
     builtin |-> Open("valid_fs", "names", {}),
     names  |-> Check("ok", {})]

VfsNamesFs ==
    FillValidFs({"fsnamebuf"}) @@
    [start  |-> Check("malloc", {}) \cup {Go("array")},
     malloc |-> Open("fsnamebuf", "fetch", {}),
     fetch  |-> Check("array", {"fsnamebuf"})]

SysfsFs == FillValidFs({"valid_sysfs"}) @@ [start |-> {Get("valid_sysfs", "array"), Go("array")}]

\* sys_fs_types stays as well.  When it cannot be enlarged /etc/vfs is left open.
AixFs ==
    FillValidFs({}) @@
    [start   |-> Open("sys_fs_types", "builtin", {}),
     builtin |-> Check("vfs", {"sys_fs_types"}),
     vfs     |-> {Get("fh", "lines"), Go("array")},
     lines   |-> {Put({"fh"}, "array"), Fail({}), Fail({"fh", "sys_fs_types"})}]

\* The first calloc() is not checked: without memory the first name is written through NULL.
LinuxFs ==
    [start   |-> {Get("fh", "calloc"), Go("builtin")},
     calloc  |-> {Get("valid_fs", "regcomp"), Go("no_list")},
     no_list |-> {Put({"fh"}, "builtin"), Return({"fh"}), Do("null", "lines")},
     regcomp |-> {Get("re", "lines"), Put({"valid_fs", "fh"}, "builtin")},
     lines   |-> {Return({"re", "fh"}), Fail({"re", "fh", "valid_fs"})},
     builtin |-> Open("valid_fs", "strings", {}),
     strings |-> Check("ok", {})]

BuiltinFs == FillValidFs({}) @@ [start |-> {Go("array")}]

----------------------------------------------------------------------------
(* sg_get_fs_list_int()                                                    *)

\* One mount: its strings, then its device through all symbolic links; neither failure releases
\* anything.  errno is looked at after the cleanup of R.
MountItem(R) ==
    [item  |-> {Do("store", "link"), Fail({})},
     link  |-> {Do("count", "loop"), Fail({})},
     close |-> {Put(R, "errno")},
     errno |-> Check("ok", {})]

\* The mounts are counted, then fetched; a mount in between is an error.
VfsstatList ==
    MountItem({"mntbuf"}) @@
    [list  |-> {Do("dry", "none"), Do("some", "malloc"), Fail({})},
     none  |-> UpdateSum("n", "ok"),
     malloc |-> Open("mntbuf", "fetch", {}),
     fetch |-> {Do("all", "fit"), Fail({"mntbuf"})},
     fit   |-> Update("n+known", "loop", {"mntbuf"}),
     loop  |-> Each("item", "close")]

\* A list that has outgrown the second buffer too is taken for an empty one.  The type of a mount is
\* an index to sys_fs_types that is not checked.
MntctlList ==
    [item |-> {Do("bounds", "link"), Do("store", "link"), Fail({})}] @@ MountItem({"buf"}) @@
    [list  |-> Open("buf", "query", {}),
     query |-> {Do("all", "fit"), Go("fit"), Fail({"buf"})},
     fit   |-> Update("n+known", "loop", {"buf"}),
     loop  |-> Each("item", "close")]

MntentList ==
    MountItem({"f"}) @@
    [list |-> {GetDo("f", "all", "loop"), Fail({})},
     loop |-> Each("grow", "close"),
     grow |-> UpdateSum("n+1", "item")]

\* The third GetLogicalDriveStrings() is told a size the buffer may not have, and frees nothing when
\* it fails; unformatted drives are skipped.
DrivesList ==
    MountItem({"buf"}) @@
    [list    |-> Open("buf", "strings", {}),
     strings |-> {Do("all", "again"), Fail({"buf"})},
     again   |-> {Go("loop"), Do("bounds", "loop"), Fail({})},
     loop    |-> Each("volume", "close"),
     volume  |-> Either({"loop", "grow"}),
     grow    |-> UpdateSum("n+1", "item")]

NoList == [list |-> {Fail({})}]

\* sg_fill_fs_stat_int(): the numbers of one mount; its error stays set.
FillFsStat == [fill |-> {Do("count", "scan"), Do("error", "scan")}]

\* sg_get_fs_stats_int(): the list goes to a vector `tmp' of its own, and those of its items that
\* are of a valid type and can be filled are copied.  When listing failed, VECTOR_UPDATE(.., 0, ..)
\* is run all the same.
FsStats(List) ==
    Called(List, "listed", "unlisted") @@ FillFsStat @@
    [start    |-> {Do("local", "list")},
     listed   |-> {Do("handover", "scan")},
     scan     |-> Each("valid", "update"),
     valid    |-> Either({"scan", "fill"}),
     update   |-> Update("n", "copy", {}),
     copy     |-> {Do("copy", "free"), Do("error", "free")},
     free     |-> {Return({"tmp"})},
     unlisted |-> {Do("handover", "drop")},
     drop     |-> Update("n", "dropped", {}),
     dropped  |-> {Put({"tmp"}, "failed")}]

\* The result of getdrvent() is not looked at: a drive it says nothing of has the type of the drive
\* before it.
WindowsFs ==
    [copy |-> {Do("copy", "free"), Do("copy_last", "free"), Do("error", "free")}] @@
    FsStats(DrivesList)

----------------------------------------------------------------------------
(* sg_get_disk_io_stats_int()                                              *)

AixDisks == Fetched("dskperf")

\* IOKit: no failure releases the iterator, and properties that were not created are released.
DarwinDisks ==
    [start   |-> {GetDo("drivelist", "all", "loop"), Fail({})},
     loop    |-> {Do("next", "drive"), PutDo({"drivelist"}, "end", "ok")},
     drive   |-> {Get("drive", "parent")},
     parent  |-> Open("parent", "class", {}),
     class   |-> Either({"release", "grow"}),
     grow    |-> UpdateSum("n+1", "create"),
     create  |-> {Get("properties", "name"), PutDo({"parent", "drive"}, "free", "failed")},
     name    |-> {PutDo({"properties"}, "name", "again"), Put({"properties"}, "again"),
                  Fail({"parent", "drive"})},
     again   |-> {Get("properties", "stats"), PutDo({"parent", "drive"}, "free", "failed")},
     stats   |-> {PutDo({"properties"}, "rest", "count")},
     count   |-> {Do("count", "release")},
     release |-> {Put({"parent", "drive"}, "loop")}]

\* Batches of disks, the disabled ones among them being passed over.  The name is searched in the
\* directories of devices, and a failure to copy it leaves them and the entry buffer behind.
HpuxDisks ==
    [start  |-> {Do("more", "fit"), Do("again", "fit"), Do("dry", "ok"), Fail({})},
     fit    |-> UpdateSum("n+known", "dinfo"),
     dinfo  |-> Open("dinfo", "loop", {}),
     loop   |-> {Do("next", "bytes"), PutDo({"dinfo"}, "end", "index")},
     bytes  |-> {Do("rest", "dir")},
     dir    |-> {Get("dh", "search"), Go("hw_path")},
     search |-> {PutDo({"dh"}, "name", "count"), Put({"dh"}, "hw_path"), Fail({})},
     hw_path |-> {Do("name", "count"), Fail({})},
     count  |-> {Do("count", "loop")},
     index  |-> Check("start", {})]

\* The number of disks is that of the first sysctl(): when the second one returns fewer, what the
\* buffer holds behind them, which nothing has written, is reported as disks.
SysctlDisks ==
    [item |-> Add("loop", {"stats"}) \cup Either({"gone"}),
     gone |-> {Do("count", "rest"), Do("bounds", "rest"), Fail({"stats"})},
     rest |-> {Do("next", "gone"), PutDo({"stats"}, "end", "ok")}] @@ Fetched("stats")

\* The devices that are no disks are passed over by both passes.
DevstatDisks ==
    [start   |-> Open("dinfo", "getdevs", {}),
     getdevs |-> {GetDo("mem_ptr", "all", "fit"), Fail({"dinfo"})},
     fit     |-> Update("n+known", "loop", {"mem_ptr", "dinfo"}),
     loop    |-> {Do("next", "item"), PutDo({"mem_ptr", "dinfo"}, "end", "ok")},
     item    |-> Add("loop", {"mem_ptr", "dinfo"})]

SolarisDisks ==
    [parse |-> Either({"loop", "read"}), read |-> Check("grow", {"kc"})] @@ Stream("kc")

LinuxDisks == Stream("f")

\* A counter that cannot be read ends the list: an error is set, and success returned.
WindowsDisks ==
    [start |-> {Do("clear", "count")},
     count |-> {Do("all", "loop")},
     loop  |-> {Do("next", "read"), Do("end", "ok")},
     read  |-> {Get("name", "grow"), Do("error", "ok")},
     grow  |-> UpdateSum("n+1", "item"),
     item  |-> {PutDo({"name"}, "add", "loop"), Fail({})}]

NoDisks == [start |-> {Fail({})}]
=============================================================================
