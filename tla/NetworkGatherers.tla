-------------------------- MODULE NetworkGatherers --------------------------
(***************************************************************************)
(* sg_get_network_io_stats_int() and sg_get_network_iface_stats_int(): one *)
(* graph per operating system (src/libstatgrab/network_stats.c).           *)
(***************************************************************************)
EXTENDS Gathering

Dlpi == {"fd", "areas"}

\* Messages to /dev/dlpi: every interface is attached, asked and detached, one that is down is
\* passed over without being detached.
HpuxTraffic ==
    [start  |-> Open("areas", "open", {}),
     open   |-> Open("fd", "ppa_req", {"areas"}),
     ppa_req |-> {Do("all", "loop"), Fail(Dlpi)},
     loop   |-> {Do("next", "attach"), PutDo(Dlpi, "end", "ok")},
     attach |-> Check("statistics", Dlpi),
     statistics |-> Check("oper", Dlpi),
     oper   |-> Either({"loop", "grow"}),
     grow   |-> UpdateSum("n+1", "item"),
     item   |-> Add("detach", Dlpi),
     detach |-> Check("loop", Dlpi)]

\* getifaddrs(): the list is lost when a name cannot be copied.
BsdTraffic ==
    [start |-> {GetDo("net", "all", "fit"), Fail({})},
     fit   |-> Update("n+known", "loop", {"net"}),
     loop  |-> {Do("next", "item"), PutDo({"net"}, "end", "ok")},
     item  |-> Add("loop", {})]

AixTraffic == Fetched("statp")

\* Of the counters, all that a kstat lacks are left out, but for the bytes received.
SolarisTraffic ==
    [item |-> {Do("name", "data"), Fail({"kc"})},
     data |-> {Go("count"), Do("rest", "count")},
     count |-> {Do("count", "loop")}] @@ Stream("kc")

\* /proc/net/dev: whether the name could be copied is not looked at.
LinuxTraffic ==
    [start  |-> Open("f", "title", {}),
     title  |-> {Do("all", "loop"), Fail({"f"})},
     item   |-> {Do("add", "loop"), Do("error", "unnamed")},
     unnamed |-> {Do("rest", "count")},
     count  |-> {Do("count", "loop")}] @@ Entries({"f"})

\* win32_get_devices(): the table of interfaces, with room asked for first.
WindowsDevices ==
    [start |-> Open("if_table", "size", {}),
     size  |-> Check("table", {"if_table"}),
     table |-> {Do("all", "fit"), Fail({"if_table"})}]

\* The rows of the table, then " #2" and so on appended to names that occur twice.
WindowsRows ==
    [loop  |-> {Do("next", "item"), PutDo({"if_table"}, "end", "renumber")},
     item  |-> Add("loop", {"if_table"}),
     renumber |-> Check("ok", {})]

\* Room for one interface is made, and the whole table is written.
WindowsTraffic == WindowsDevices @@ WindowsRows @@ [fit |-> UpdateSum("n+1", "loop")]

NoTraffic == [start |-> {Fail({})}]

----------------------------------------------------------------------------
(* sg_get_network_iface_stats_int()                                        *)

\* Interfaces whose flags cannot be read are passed over, after room was made for all of them.
Flagged(R) ==
    [fit   |-> Update("n+known", "loop", R),
     loop  |-> {Do("next", "flags"), PutDo(R, "end", "ok")},
     flags |-> Either({"loop", "item"})]

\* socket() is taken to have failed when it returns 0.
BsdIfaces ==
    Flagged({"sock", "net"}) @@
    [start  |-> {GetDo("net", "all", "socket"), Fail({})},
     socket |-> {Get("sock", "fit"), Go("fit"), GetDo("sock", "error", "failed")},
     item   |-> {Do("store", "media"), Fail({"sock", "net"})}]

\* Speed and duplex, by the type of the medium; not all interfaces have one.
BsdMedia == [media |-> {Do("count", "loop")}]

\* Mutant: the buffer is never enlarged, and the list never fits.
AixIfaces_SameBuffer ==
    Flagged({"fd", "ifr"}) @@
    [start  |-> Open("fd", "malloc", {}),
     malloc |-> Open("ifr", "conf", {"fd"}),
     conf   |-> {Do("again", "conf")},
     item   |-> Add("loop", {"fd", "ifr"})]

\* The buffer is doubled until the list fits.
AixIfaces ==
    Flagged({"fd", "ifr"}) @@
    [start  |-> Open("fd", "malloc", {}),
     malloc |-> Open("ifr", "conf", {"fd"}),
     conf   |-> {Do("all", "fit"), Do("again", "conf"), Fail({"fd", "ifr"})},
     item   |-> Add("loop", {"fd", "ifr"})]

\* Room for an interface is made before its flags are read.
HpuxIfaces ==
    [start  |-> Open("fd", "num", {}),
     num    |-> Open("ifr", "conf", {"fd"}),
     conf   |-> {Do("all", "loop"), Fail({"fd", "ifr"})},
     loop   |-> {Do("next", "grow"), PutDo({"fd", "ifr"}, "end", "ok")},
     grow   |-> UpdateSum("n+1", "flags"),
     flags  |-> Either({"loop", "item"}),
     item   |-> Add("loop", {"fd", "ifr"})]

SolarisIfaces ==
    [start  |-> Open("kc", "socket", {}),
     socket |-> {GetDo("sock", "all", "loop"), Fail({"kc"})}] @@ Entries({"sock", "kc"})

LinuxIfaces ==
    [start  |-> Open("f", "socket", {}),
     socket |-> Open("sock", "title", {"f"}),
     title  |-> {Do("all", "loop"), Fail({"sock", "f"})}] @@ Entries({"sock", "f"})

WindowsIfaces ==
    WindowsDevices @@ WindowsRows @@ [fit |-> Update("n+known", "loop", {"if_table"})]

NoIfaces == [start |-> {Fail({})}]
=============================================================================
