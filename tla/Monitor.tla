------------------------------ MODULE Monitor ------------------------------
(***************************************************************************)
(* The tools statgrab and saidar over the accessors of single records      *)
(* (EASY_COMP_ACCESS, EASY_COMP_DIFF of globals.h) and the percentages of  *)
(* cpu_stats.c.                                                            *)
(*                                                                         *)
(* A component keeps two records per thread, the last sample and the last  *)
(* difference.  Callers get pointers to them, and both tools look at what  *)
(* they point to only when a whole round of calls is over.                 *)
(***************************************************************************)
EXTENDS Integers

CONSTANTS
    PerSecond,   \* parts of a second that a cpu's counters tell apart
    Boot,        \* the counters when the tool starts
    Delays,      \* arguments of -t and -d, in seconds
    MaxClock     \* bound: parts of a second

ASSUME MonitorAssumption ==
    /\ PerSecond \in Nat \ {0} /\ Boot \in Nat \ {0}
    /\ Delays \subseteq Nat /\ MaxClock \in Nat

Comps == {"cpu", "page"}

\* A record: not allocated, allocated and not written, or with a counter.
Null == [st |-> "null", v |-> 0]
Junk == [st |-> "junk", v |-> 0]
Value(c) == [st |-> "set", v |-> c]

\* The options of the command line; saidar insists on a delay.
Tools ==
    [prog : {"statgrab"}, repeat : {"none", "once", "forever"}, percent : BOOLEAN, delay : Delays]
    \cup [prog : {"saidar"}, repeat : {"forever"}, percent : {TRUE}, delay : Delays \ {0}]

VARIABLES
    tool, pc,
    clock,   \* parts of a second since the tool was started
    phase,   \* parts of a second the system's clock was ahead of a full second then
    now,     \* comp##_vectors[nowidx] of each component
    diff,    \* comp##_vectors[diffidx]
    usage,   \* cpu_vectors[SG_CPU_PERCENT_IDX]: what total the percentages are of
    shown,   \* what the tool has pointers to: "null", "now", "diff" or "usage"
    round,   \* of statgrab: 1, then 2
    wake,    \* when sleep() or getch() returns by itself
    woken,   \* whether getch() did
    lastUpdate,
    told     \* of each component, the sum of what the tool was told (no variable of the program)

records == <<now, diff, usage>>
waiting == <<wake, woken, lastUpdate>>
vars == <<tool, pc, clock, phase, records, shown, round, waiting, told>>

UseDiffs == tool.repeat # "none"

----------------------------------------------------------------------------
(* The library.  A call has a set of outcomes: the component's two records *)
(* afterwards and the pointer returned.                                    *)

Outcome(n, d, p) == [now |-> n, diff |-> d, ptr |-> p]

\* EASY_COMP_ACCESS.  The gatherers of cpu and page reset the record before they ask the system, so
\* that a failed sample is a record of zeros.  (Those of the BSDs may fail after they have
\* written some of the counters, which then stay; the one counter here stands for those that a
\* failure leaves at 0.)
Gets(c) ==
    {Outcome(Value(Boot + clock), diff[c], "now"), Outcome(Value(0), diff[c], "null")}
    \cup (IF now[c] = Null THEN {Outcome(Null, diff[c], "null")} ELSE {})

\* sg_get_X_stats_diff_int(): unsigned long long counters are subtracted plainly.
Moved_Swapped(new, last) == Value(last - new)    \* mutant: the operands are exchanged
Moved(new, last) == Value(new - last)

\* EASY_COMP_DIFF.  The record for the difference is allocated before the sample is taken, and
\* stays as it is when that fails.
Diffs(c) ==
    LET Into(d) ==
          {IF o.ptr = "now" THEN Outcome(o.now, Moved(o.now.v, now[c].v), "diff")
           ELSE Outcome(o.now, d, "null") : o \in Gets(c)}
    IN  IF now[c] = Null THEN Gets(c)
        ELSE IF diff[c] = Null THEN Into(Junk) \cup {Outcome(now[c], Null, "null")}
        ELSE Into(diff[c])

\* sg_get_cpu_percents_of(): the record whose total is taken; "last" without a difference falls
\* through to "new".
PercentsOf(source) ==
    CASE source = "entire" /\ now["cpu"] # Null -> {Outcome(now["cpu"], diff["cpu"], "now")}
      [] source = "entire" /\ now["cpu"] = Null -> Gets("cpu")
      [] source = "last" /\ diff["cpu"] # Null -> {Outcome(now["cpu"], diff["cpu"], "diff")}
      [] OTHER -> Diffs("cpu")

\* The record behind a pointer.
Deref(c, p) ==
    CASE p = "null" -> Null [] p = "now" -> now[c] [] p = "diff" -> diff[c] [] p = "usage" -> usage

----------------------------------------------------------------------------
(* A round of calls                                                        *)

Sampled(c, o) == now' = [now EXCEPT ![c] = o.now] /\ diff' = [diff EXCEPT ![c] = o.diff]

\* populate_cpu() of statgrab: the counters, and with -p the percentages after them.
PopulateCpu ==
    /\ pc = "cpu"
    /\ \E o \in IF UseDiffs THEN Diffs("cpu") ELSE Gets("cpu") :
         /\ Sampled("cpu", o)
         /\ shown' = [shown EXCEPT !["cpu"] = o.ptr]
    /\ pc' = IF tool.percent THEN "percents" ELSE "page"
    /\ UNCHANGED <<tool, clock, phase, usage, round, waiting, told>>

Source_New == "new"          \* mutant: statgrab asks for the percentages of a new difference
Source_Entire ==             \* mutant: it asks for those since the system was started
    IF tool.prog = "saidar" THEN "new" ELSE "entire"
Source == IF tool.prog = "saidar" THEN "new" ELSE IF UseDiffs THEN "last" ELSE "entire"

\* The percentages; the record for them may have to be allocated first.
PopulatePercents ==
    /\ pc = "percents"
    /\ \/ \E o \in PercentsOf(Source) :
            /\ Sampled("cpu", o)
            /\ usage' = CASE o.ptr = "now" -> o.now
                          [] o.ptr = "diff" -> o.diff
                          [] o.ptr = "null" -> IF usage = Null THEN Junk ELSE usage
            /\ shown' = [shown EXCEPT !["percents"] = IF o.ptr = "null" THEN "null" ELSE "usage"]
       \/ /\ usage = Null
          /\ shown' = [shown EXCEPT !["percents"] = "null"]
          /\ UNCHANGED records
    /\ pc' = "page"
    /\ UNCHANGED <<tool, clock, phase, round, waiting, told>>

PopulatePage ==
    /\ pc = "page"
    /\ \E o \in IF UseDiffs THEN Diffs("page") ELSE Gets("page") :
         /\ Sampled("page", o)
         /\ shown' = [shown EXCEPT !["page"] = o.ptr]
    /\ pc' = "ready"
    /\ UNCHANGED <<tool, clock, phase, usage, round, waiting, told>>

\* What the tool learns of a component in this round: saidar has the cpu's percentages only.
Learnt(c) ==
    Deref(c, shown[IF c = "cpu" /\ tool.prog = "saidar" THEN "percents" ELSE c])

\* The pointers are followed: print_stats() or display_data().  The sum starts again when the
\* tool got nothing.
Follow_Pointers ==
    told' = [c \in Comps |-> IF Learnt(c) = Null THEN now[c].v ELSE told[c] + Learnt(c).v]

----------------------------------------------------------------------------
(* The loop of statgrab                                                    *)

\* One round, or two of which the second is printed, or no end of them.
PrintStats ==
    /\ pc = "ready" /\ tool.prog = "statgrab"
    /\ Follow_Pointers
    /\ pc' = IF tool.repeat = "none" \/ (tool.repeat = "once" /\ round > 1) THEN "end" ELSE "sleep"
    /\ wake' = clock + tool.delay * PerSecond
    /\ UNCHANGED <<tool, clock, phase, records, shown, round, woken, lastUpdate>>

\* sleep() is over, and clear_stats() forgets the pointers.
Awake ==
    /\ pc = "sleep" /\ clock >= wake
    /\ round' = 2
    /\ shown' = [i \in DOMAIN shown |-> "null"]
    /\ pc' = "cpu"
    /\ UNCHANGED <<tool, clock, phase, records, waiting, told>>

----------------------------------------------------------------------------
(* The loop of saidar                                                      *)

Display ==
    /\ pc = "ready" /\ tool.prog = "saidar"
    /\ IF woken = "kept" THEN UNCHANGED told ELSE Follow_Pointers
    /\ wake' = clock + tool.delay * PerSecond
    /\ pc' = "getch"
    /\ UNCHANGED <<tool, clock, phase, records, shown, round, woken, lastUpdate>>

\* getch() returns a key (or is interrupted by SIGWINCH), or waits for as long as -d says.
Getch ==
    /\ pc = "getch"
    /\ \/ woken' = "key"
       \/ woken' = "timeout" /\ clock >= wake
    /\ pc' = "check"
    /\ UNCHANGED <<tool, clock, phase, records, shown, round, wake, lastUpdate, told>>

Time == (phase + clock) \div PerSecond + 1    \* time(NULL), far from 0

Due_OffByOne == Time - lastUpdate > 1    \* mutant
Due == Time - lastUpdate >= 1

\* get_stats() is called again, unless it was in this second; the time is noted in any case.
Check ==
    /\ pc = "check"
    /\ IF Due THEN pc' = "percents" /\ UNCHANGED woken ELSE pc' = "ready" /\ woken' = "kept"
    /\ lastUpdate' = Time
    /\ UNCHANGED <<tool, clock, phase, records, shown, round, wake, told>>

----------------------------------------------------------------------------

\* 'q', or an interrupt.
Stop ==
    /\ pc \in {"sleep", "getch"}
    /\ pc' = "end"
    /\ UNCHANGED <<tool, clock, phase, records, shown, round, waiting, told>>

Tick ==
    /\ pc # "end" /\ clock < MaxClock
    /\ clock' = clock + 1
    /\ UNCHANGED <<tool, pc, phase, records, shown, round, waiting, told>>

Done == pc = "end" /\ UNCHANGED vars

Init ==
    /\ tool \in Tools
    /\ pc = IF tool.prog = "saidar" THEN "percents" ELSE "cpu"
    /\ clock = 0 /\ phase \in 0 .. PerSecond - 1
    /\ now = [c \in Comps |-> Null] /\ diff = [c \in Comps |-> Null] /\ usage = Null
    /\ shown = [i \in Comps \cup {"percents"} |-> "null"]
    /\ round = 1 /\ wake = 0 /\ woken = "key" /\ lastUpdate = 0
    /\ told = [c \in Comps |-> 0]

Next ==
    \/ PopulateCpu \/ PopulatePercents \/ PopulatePage
    \/ PrintStats \/ Awake \/ Display \/ Getch \/ Check \/ Stop \/ Tick \/ Done

Spec == Init /\ [][Next]_vars

----------------------------------------------------------------------------
(* Properties                                                              *)

Record == [st : {"null", "junk", "set"}, v : Nat]

TypeOK ==
    /\ tool \in Tools
    /\ pc \in {"cpu", "percents", "page", "ready", "sleep", "getch", "check", "end"}
    /\ clock \in Nat /\ phase \in 0 .. PerSecond - 1
    /\ now \in [Comps -> Record] /\ diff \in [Comps -> Record] /\ usage \in Record
    /\ shown \in [Comps \cup {"percents"} -> {"null", "now", "diff", "usage"}]
    /\ round \in {1, 2} /\ wake \in Nat /\ woken \in {"key", "timeout", "kept"}
    /\ lastUpdate \in Nat /\ told \in [Comps -> Nat]

\* What a tool is told in round after round adds up to the last sample: no movement of a counter is
\* counted twice and none is lost between two differences, although statgrab follows its pointers
\* after further calls have changed the records.  (A failed sample is a record of zeros: the sum
\* starts again from there, and the next difference is everything since the system was started.)
DifferencesAddUp ==
    pc \in {"sleep", "getch"} => \A c \in Comps : told[c] = now[c].v

\* With -p statgrab prints percentages beside counters: once there is a difference to print, the
\* percentages are those of the very same one, not of another interval.
PercentsBesideCounts ==
    pc = "ready" /\ tool.prog = "statgrab" /\ shown["percents"] = "usage"
        /\ shown["cpu"] = (IF UseDiffs THEN "diff" ELSE "now")
    => usage = Deref("cpu", shown["cpu"])

\* Percentages are not of a total of 0 when statgrab has slept for a second and shows a
\* difference beside them, and saidar never shows those of a record that was not written.  (The
\* first round of statgrab shows no difference, and saidar may be woken by a key at once.)
PercentsDefined ==
    pc = "ready" /\ shown["percents"] = "usage" =>
        /\ tool.prog = "statgrab" /\ tool.delay > 0 /\ shown["cpu"] = "diff" =>
             usage.st = "set" /\ usage.v > 0
        /\ tool.prog = "saidar" => usage.st = "set"

\* When no key is pressed the screen of saidar is refreshed after every wait: that the clock is
\* read in whole seconds never makes it keep the old numbers.
TimeoutRefreshes == [][Check => (woken = "timeout" => pc' = "percents")]_vars
=============================================================================
