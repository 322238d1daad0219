--------------------------- MODULE MonitorProofs ---------------------------
(***************************************************************************)
(* Proofs about Monitor: for any clock, any resolution of the counters,    *)
(* any delay and any outcome of the library's calls.                       *)
(***************************************************************************)
EXTENDS Monitor, TLAPS

(* What is asked of the tool's options.                                     *)
Loops ==
    /\ tool.prog = "statgrab" => pc \notin {"getch", "check"}
    /\ tool.prog = "saidar" => pc \notin {"cpu", "sleep"}
    /\ ~tool.percent => pc # "percents" /\ shown["percents"] = "null"
    /\ tool.repeat = "none" /\ pc # "end" => pc # "sleep" /\ \A c \in Comps : told[c] = 0

(* What the pointers may point to, and that it was written.                 *)
Pointers ==
    /\ \A c \in Comps : /\ shown[c] \in {"null", "now", "diff"}
                        /\ shown[c] = "diff" => UseDiffs
    /\ shown["percents"] \in {"null", "usage"}
    /\ pc \in {"percents", "page", "ready"} /\ tool.prog = "statgrab" =>
         /\ shown["cpu"] = "now" => now["cpu"].st = "set"
         /\ shown["cpu"] = "diff" => diff["cpu"].st = "set"
    /\ tool.prog = "saidar" => /\ shown["percents"] = "usage" => usage.st = "set"
                               /\ shown["cpu"] = "null"

(* No sample is from the future.                                            *)
Samples == \A c \in Comps : now[c].v <= Boot + clock

(* Nothing has been sampled since the tool added up what it was told.       *)
Settled(c) == told[c] = now[c].v

(* What the tool will learn of the component is what is missing.            *)
Pending(c) == Learnt(c) = Null \/ told[c] + Learnt(c).v = now[c].v

(* The sums through a round.  A pointer to the last sample itself is only   *)
(* handed out when nothing has been told, so that it does not matter that   *)
(* the percentages may take another sample before the pointer is followed.  *)
Sums ==
    /\ pc \in {"cpu", "sleep", "getch", "check"} => \A c \in Comps : Settled(c)
    /\ pc = "percents" /\ tool.prog = "saidar" => Settled("cpu")
    /\ pc \in {"percents", "page"} => Settled("page")
    /\ pc \in {"percents", "page", "ready"} /\ tool.prog = "statgrab" =>
         /\ shown["cpu"] = "now" => told["cpu"] = 0
         /\ shown["cpu"] = "diff" => told["cpu"] + diff["cpu"].v = now["cpu"].v
    /\ pc = "page" /\ tool.prog = "saidar" => Pending("cpu")
    /\ pc = "ready" =>
         IF tool.prog = "saidar" /\ woken = "kept" THEN \A c \in Comps : Settled(c)
         ELSE \A c \in Comps : Pending(c)
    /\ pc \in {"percents", "page", "check"} /\ tool.prog = "saidar" => woken # "kept"

(* Statgrab's percentages are of the record whose counters it shows.        *)
Beside ==
    pc \in {"page", "ready"} /\ tool.prog = "statgrab" /\ shown["percents"] = "usage" =>
        /\ shown["cpu"] = "diff" => usage = diff["cpu"]
        /\ shown["cpu"] = "now" /\ ~UseDiffs => usage = now["cpu"]

(* Statgrab's clock has moved when it asks for a difference after a sleep.  *)
Moving ==
    tool.prog = "statgrab" /\ tool.delay > 0 =>
        /\ pc = "sleep" => now["cpu"].v < Boot + wake
        /\ pc = "cpu" => now["cpu"].v < Boot + clock
        /\ pc \in {"percents", "page", "ready"} /\ shown["cpu"] = "diff" => diff["cpu"].v > 0

(* time(NULL) when the clock shows n.                                       *)
Seconds(n) == (phase + n) \div PerSecond + 1

(* Saidar's wait ends in a later second than the last one it noted.         *)
Waiting ==
    /\ lastUpdate <= Seconds(clock)
    /\ pc \in {"getch", "check"} => lastUpdate + 1 <= Seconds(wake)
    /\ pc = "check" /\ woken = "timeout" => wake <= clock

MInv == TypeOK /\ Loops /\ Pointers /\ Samples /\ Sums /\ Beside /\ Moving /\ Waiting

----------------------------------------------------------------------------
(* Arithmetic of whole seconds.                                             *)
LEMMA WholeSeconds ==
    ASSUME NEW a \in Nat, NEW b \in Nat, NEW p \in Nat \ {0}
    PROVE  /\ a \div p \in Nat
           /\ a <= b => a \div p <= b \div p
           /\ a + p <= b => a \div p + 1 <= b \div p
OBVIOUS

(* A delay of at least a second is at least PerSecond parts of one.         *)
LEMMA DelayParts ==
    ASSUME NEW d \in Nat, NEW p \in Nat \ {0}
    PROVE  d * p \in Nat /\ (d > 0 => d * p >= p)
OBVIOUS

(* What an option record may hold.                                          *)
LEMMA Options ==
    ASSUME TypeOK
    PROVE  /\ tool.prog \in {"statgrab", "saidar"} /\ tool.delay \in Nat
           /\ tool.percent \in BOOLEAN
           /\ tool.prog = "saidar" => /\ tool.repeat = "forever" /\ tool.percent
                                      /\ tool.delay > 0 /\ UseDiffs
           /\ UseDiffs <=> tool.repeat # "none"
<1>1. CASE tool \in [prog : {"statgrab"}, repeat : {"none", "once", "forever"},
                     percent : BOOLEAN, delay : Delays]
  <2>1. tool.prog = "statgrab" /\ tool.delay \in Nat
    BY <1>1, MonitorAssumption
  <2>2. tool.percent \in BOOLEAN
    BY <1>1, Zenon
  <2> QED BY <2>1, <2>2 DEF UseDiffs
<1>2. CASE tool \in [prog : {"saidar"}, repeat : {"forever"}, percent : {TRUE},
                     delay : Delays \ {0}]
  <2>1. tool.prog = "saidar" /\ tool.repeat = "forever" /\ tool.delay \in Delays \ {0}
    BY <1>2, Zenon
  <2>2. tool.percent = TRUE
    BY <1>2, Zenon
  <2>3. \A d \in Delays \ {0} : d \in Nat /\ d > 0
    BY MonitorAssumption
  <2> QED BY <2>1, <2>2, <2>3 DEF UseDiffs
<1> QED BY <1>1, <1>2 DEF TypeOK, Tools

(* The records of two components, read one by one.                          *)
LEMMA Both == Comps = {"cpu", "page"} /\ "cpu" # "page"
BY DEF Comps

(* EASY_COMP_ACCESS: a new sample, or no pointer and a record of zeros, or  *)
(* no pointer and the record as it was (not allocated).                     *)
LEMMA GetsOutcome ==
    ASSUME NEW c \in Comps, NEW o \in Gets(c)
    PROVE  \/ o = Outcome(Value(Boot + clock), diff[c], "now")
           \/ o = Outcome(Value(0), diff[c], "null")
           \/ now[c] = Null /\ o = Outcome(now[c], diff[c], "null")
BY DEF Gets

(* EASY_COMP_DIFF: the first sample, or a difference to the last one, or no *)
(* pointer.                                                                 *)
LEMMA DiffsOutcome ==
    ASSUME NEW c \in Comps, NEW o \in Diffs(c)
    PROVE  \/ now[c] = Null /\ o = Outcome(Value(Boot + clock), diff[c], "now")
           \/ o = Outcome(Value(Boot + clock), Value((Boot + clock) - now[c].v), "diff")
           \/ \E n \in {Value(0), now[c]}, d \in {diff[c], Junk} : o = Outcome(n, d, "null")
<1>1. CASE now[c] = Null
  <2>1. o \in Gets(c)
    BY <1>1 DEF Diffs
  <2> QED BY <1>1, <2>1, GetsOutcome
<1>2. CASE now[c] # Null
  <2>1. ASSUME NEW d, NEW g \in Gets(c),
               o = IF g.ptr = "now" THEN Outcome(g.now, Moved(g.now.v, now[c].v), "diff")
                   ELSE Outcome(g.now, d, "null")
        PROVE  \/ o = Outcome(Value(Boot + clock), Value((Boot + clock) - now[c].v), "diff")
               \/ o = Outcome(Value(0), d, "null")
    <3>1. \/ g = Outcome(Value(Boot + clock), diff[c], "now")
          \/ g = Outcome(Value(0), diff[c], "null")
      BY <1>2, GetsOutcome
    <3>2. CASE g = Outcome(Value(Boot + clock), diff[c], "now")
      <4>1. g.ptr = "now" /\ g.now = Value(Boot + clock) /\ g.now.v = Boot + clock
        BY <3>2 DEF Outcome, Value
      <4>2. Moved(g.now.v, now[c].v) = Value((Boot + clock) - now[c].v)
        BY <4>1 DEF Moved
      <4>3. o = Outcome(g.now, Moved(g.now.v, now[c].v), "diff")
        BY <2>1, <4>1, Zenon
      <4> QED BY <4>1, <4>2, <4>3, Zenon
    <3>3. CASE g = Outcome(Value(0), diff[c], "null")
      <4>1. g.ptr = "null" /\ g.now = Value(0)
        BY <3>3 DEF Outcome
      <4> QED BY <2>1, <4>1
    <3> QED BY <3>1, <3>2, <3>3
  <2>2. CASE diff[c] = Null
    <3>1. \/ o = Outcome(now[c], Null, "null")
          \/ \E g \in Gets(c) :
               o = IF g.ptr = "now" THEN Outcome(g.now, Moved(g.now.v, now[c].v), "diff")
                   ELSE Outcome(g.now, Junk, "null")
      BY <1>2, <2>2 DEF Diffs
    <3>2. CASE o = Outcome(now[c], Null, "null")
      BY <2>2, <3>2
    <3>3. CASE o # Outcome(now[c], Null, "null")
      <4>1. PICK g \in Gets(c) :
               o = IF g.ptr = "now" THEN Outcome(g.now, Moved(g.now.v, now[c].v), "diff")
                   ELSE Outcome(g.now, Junk, "null")
        BY <3>1, <3>3
      <4>2. \/ o = Outcome(Value(Boot + clock), Value((Boot + clock) - now[c].v), "diff")
            \/ o = Outcome(Value(0), Junk, "null")
        BY <2>1, <4>1
      <4> QED BY <4>2
    <3> QED BY <3>2, <3>3
  <2>3. CASE diff[c] # Null
    <3>1. \E g \in Gets(c) :
               o = IF g.ptr = "now" THEN Outcome(g.now, Moved(g.now.v, now[c].v), "diff")
                   ELSE Outcome(g.now, diff[c], "null")
      BY <1>2, <2>3 DEF Diffs
    <3> QED BY <2>1, <3>1
  <2> QED BY <2>2, <2>3
<1> QED BY <1>1, <1>2

(* sg_get_cpu_percents_of(): what the library already has, or what the      *)
(* access falls back to.                                                    *)
LEMMA PercentsOutcome ==
    ASSUME NEW source \in {"entire", "last", "new"}, NEW o \in PercentsOf(source)
    PROVE  \/ source = "entire" /\ now["cpu"] # Null /\ o = Outcome(now["cpu"], diff["cpu"], "now")
           \/ source = "entire" /\ now["cpu"] = Null /\ o \in Gets("cpu")
           \/ source = "last" /\ diff["cpu"] # Null /\ o = Outcome(now["cpu"], diff["cpu"], "diff")
           \/ source = "last" /\ diff["cpu"] = Null /\ o \in Diffs("cpu")
           \/ source = "new" /\ o \in Diffs("cpu")
<1>1. CASE source = "entire" /\ now["cpu"] # Null
  BY <1>1 DEF PercentsOf
<1>2. CASE source = "entire" /\ now["cpu"] = Null
  BY <1>2 DEF PercentsOf
<1>3. CASE source = "last" /\ diff["cpu"] # Null
  BY <1>3 DEF PercentsOf
<1>4. CASE source = "last" /\ diff["cpu"] = Null
  BY <1>4 DEF PercentsOf
<1>5. CASE source = "new"
  BY <1>5 DEF PercentsOf
<1> QED BY <1>1, <1>2, <1>3, <1>4, <1>5

(* The fields of the records.                                               *)
LEMMA Fields ==
    /\ Null.st = "null" /\ Null.v = 0 /\ Null \in Record
    /\ Junk.st = "junk" /\ Junk.v = 0 /\ Junk \in Record
    /\ \A x : Value(x).st = "set" /\ Value(x).v = x
    /\ \A x \in Nat : Value(x) \in Record
    /\ \A n, d, p : /\ Outcome(n, d, p).now = n /\ Outcome(n, d, p).diff = d
                    /\ Outcome(n, d, p).ptr = p
BY DEF Null, Junk, Value, Outcome, Record

(* A call for a component that is settled leaves what the tool will learn   *)
(* just as far behind the sample as what it was told.                       *)
LEMMA RoundOutcome ==
    ASSUME TypeOK, Samples, NEW c \in Comps, Settled(c), ~UseDiffs => told[c] = 0,
           NEW o \in IF UseDiffs THEN Diffs(c) ELSE Gets(c)
    PROVE  /\ o.now \in Record /\ o.diff \in Record /\ o.ptr \in {"null", "now", "diff"}
           /\ o.now.v <= Boot + clock
           /\ o.ptr = "now" => o.now.st = "set" /\ told[c] = 0
           /\ o.ptr = "diff" => /\ UseDiffs /\ o.diff.st = "set"
                                /\ told[c] + o.diff.v = o.now.v
                                /\ now[c].v < Boot + clock => o.diff.v > 0
<1>1. /\ now[c] \in Record /\ diff[c] \in Record /\ now[c].v \in Nat
      /\ clock \in Nat /\ Boot \in Nat /\ now[c].v <= Boot + clock /\ told[c] = now[c].v
  BY MonitorAssumption DEF TypeOK, Record, Samples, Settled
<1>2. Boot + clock \in Nat /\ (Boot + clock) - now[c].v \in Nat
  BY <1>1
<1>3. CASE o = Outcome(Value(Boot + clock), diff[c], "now") /\ told[c] = 0
  BY <1>1, <1>2, <1>3, Fields
<1>4. CASE UseDiffs /\ o = Outcome(Value(Boot + clock), Value((Boot + clock) - now[c].v), "diff")
  <2>1. /\ o.now = Value(Boot + clock) /\ o.diff = Value((Boot + clock) - now[c].v)
        /\ o.ptr = "diff"
    BY <1>4, Fields
  <2>2. /\ o.now.v = Boot + clock /\ o.diff.v = (Boot + clock) - now[c].v
        /\ o.diff.st = "set" /\ o.now \in Record /\ o.diff \in Record
    BY <1>2, <2>1, Fields
  <2> QED BY <1>1, <1>4, <2>1, <2>2
<1>5. ASSUME NEW n \in {Value(0), now[c]}, NEW d \in {diff[c], Junk}, o = Outcome(n, d, "null")
      PROVE  /\ o.now \in Record /\ o.diff \in Record /\ o.ptr = "null"
             /\ o.now.v <= Boot + clock
  <2>1. o.now = n /\ o.diff = d /\ o.ptr = "null"
    BY <1>5, Fields
  <2>2. n \in Record /\ d \in Record
    BY <1>1, Fields
  <2>3. n.v <= Boot + clock
    BY <1>1, <1>2, Fields
  <2> QED BY <2>1, <2>2, <2>3
<1>6. CASE UseDiffs
  <2>1. o \in Diffs(c)
    BY <1>6
  <2>2. now[c] = Null => told[c] = 0
    BY <1>1, Fields
  <2> QED BY <1>3, <1>4, <1>5, <1>6, <2>1, <2>2, DiffsOutcome
<1>7. CASE ~UseDiffs
  <2>1. o \in Gets(c) /\ told[c] = 0
    BY <1>7
  <2> QED BY <1>3, <1>5, <2>1, GetsOutcome
<1> QED BY <1>6, <1>7

(* populate_cpu().                                                          *)
LEMMA PopulateCpuStep ==
    ASSUME MInv, PopulateCpu
    PROVE  MInv'
<1> USE DEF MInv
<1>1. /\ TypeOK /\ Samples /\ Settled("cpu") /\ Settled("page") /\ pc = "cpu"
      /\ tool.prog = "statgrab" /\ (~UseDiffs => told["cpu"] = 0)
      /\ tool' = tool /\ told' = told /\ clock' = clock /\ phase' = phase
      /\ UNCHANGED <<usage, round, waiting, told>>
  BY Options DEF PopulateCpu, Sums, Loops, Comps
<1>2. PICK o \in IF UseDiffs THEN Diffs("cpu") ELSE Gets("cpu") :
          Sampled("cpu", o) /\ shown' = [shown EXCEPT !["cpu"] = o.ptr]
  BY DEF PopulateCpu
<1>3. /\ o.now \in Record /\ o.diff \in Record /\ o.ptr \in {"null", "now", "diff"}
      /\ o.now.v <= Boot + clock
      /\ o.ptr = "now" => o.now.st = "set" /\ told["cpu"] = 0
      /\ o.ptr = "diff" => /\ UseDiffs /\ o.diff.st = "set"
                           /\ told["cpu"] + o.diff.v = o.now.v
                           /\ now["cpu"].v < Boot + clock => o.diff.v > 0
  BY <1>1, RoundOutcome DEF Comps
<1>4. /\ now'["cpu"] = o.now /\ now'["page"] = now["page"]
      /\ diff'["cpu"] = o.diff /\ diff'["page"] = diff["page"]
      /\ shown'["cpu"] = o.ptr /\ shown'["page"] = shown["page"]
      /\ shown'["percents"] = shown["percents"]
      /\ now' \in [Comps -> Record] /\ diff' \in [Comps -> Record]
      /\ shown' \in [Comps \cup {"percents"} -> {"null", "now", "diff", "usage"}]
  BY <1>1, <1>2, <1>3 DEF Sampled, TypeOK, Comps
<1>5. pc' \in {"percents", "page"} /\ (pc' = "percents" <=> tool.percent)
  BY DEF PopulateCpu
<1>6. TypeOK'
  BY <1>1, <1>4, <1>5 DEF TypeOK, waiting
<1>7. Loops'
  BY <1>1, <1>4, <1>5 DEF Loops
<1>8. Pointers'
  BY <1>1, <1>3, <1>4, <1>5 DEF Pointers, Comps, UseDiffs
<1>9. Samples'
  BY <1>1, <1>3, <1>4 DEF Samples, Comps
<1>10. Sums'
  BY <1>1, <1>3, <1>4, <1>5 DEF Sums, Settled
<1>11. Beside'
  BY <1>1, <1>3, <1>4, <1>5 DEF Beside, Loops
<1>12. Moving'
  BY <1>1, <1>3, <1>4, <1>5 DEF Moving
<1>13. Waiting'
  BY <1>1, <1>5 DEF Waiting, Seconds, waiting
<1> QED BY <1>6, <1>7, <1>8, <1>9, <1>10, <1>11, <1>12, <1>13

(* statgrab asks for percentages after the counters: of what it has already *)
(* got, if it has got anything.                                             *)
LEMMA StatgrabPercents ==
    ASSUME MInv, pc = "percents", tool.prog = "statgrab", NEW o \in PercentsOf(Source)
    PROVE  /\ o.now \in Record /\ o.diff \in Record /\ o.ptr \in {"null", "now", "diff"}
           /\ o.now.v <= Boot + clock
           /\ shown["cpu"] = "now" => o.now.st = "set"
           /\ shown["cpu"] = "now" /\ ~UseDiffs => o.now = now["cpu"] /\ o.ptr = "now"
           /\ shown["cpu"] = "diff" => /\ o.now = now["cpu"] /\ o.diff = diff["cpu"]
                                       /\ o.ptr = "diff"
<1> USE DEF MInv
<1>1. /\ now["cpu"] \in Record /\ diff["cpu"] \in Record /\ now["cpu"].v \in Nat
      /\ clock \in Nat /\ Boot \in Nat /\ now["cpu"].v <= Boot + clock
      /\ shown["cpu"] \in {"null", "now", "diff"} /\ (shown["cpu"] = "diff" => UseDiffs)
      /\ shown["cpu"] = "now" => now["cpu"].st = "set" /\ now["cpu"] # Null
      /\ shown["cpu"] = "diff" => diff["cpu"].st = "set" /\ diff["cpu"] # Null
  BY MonitorAssumption, Fields DEF TypeOK, Record, Samples, Pointers, Comps
<1>2. Source = (IF UseDiffs THEN "last" ELSE "entire") /\ "cpu" \in Comps
  BY DEF Source, Comps
<1>3. Boot + clock \in Nat /\ (Boot + clock) - now["cpu"].v \in Nat
  BY <1>1
<1>4. ASSUME NEW n \in {now["cpu"], Value(0), Value(Boot + clock)},
             NEW d \in {diff["cpu"], Junk, Value((Boot + clock) - now["cpu"].v)},
             NEW p \in {"null", "now", "diff"},
             o = Outcome(n, d, p)
      PROVE  /\ o.now = n /\ o.diff = d /\ o.ptr = p
             /\ o.now \in Record /\ o.diff \in Record /\ o.now.v <= Boot + clock
             /\ shown["cpu"] = "now" => o.now.st = "set"
  <2>1. o.now = n /\ o.diff = d /\ o.ptr = p
    BY <1>4, Fields
  <2>2. n \in Record /\ d \in Record
    BY <1>1, <1>3, Fields
  <2>3. n.v <= Boot + clock /\ (shown["cpu"] = "now" => n.st = "set")
    BY <1>1, <1>3, Fields
  <2> QED BY <2>1, <2>2, <2>3
<1>5. CASE UseDiffs
  <2>1. Source = "last"
    BY <1>2, <1>5
  <2>2. CASE diff["cpu"] # Null
    <3>1. o = Outcome(now["cpu"], diff["cpu"], "diff")
      BY <2>1, <2>2, PercentsOutcome
    <3> QED BY <1>4, <1>5, <3>1
  <2>3. CASE diff["cpu"] = Null
    <3>1. o \in Diffs("cpu") /\ shown["cpu"] # "diff"
      BY <1>1, <2>1, <2>3, PercentsOutcome
    <3> QED BY <1>2, <1>4, <1>5, <3>1, DiffsOutcome
  <2> QED BY <2>2, <2>3
<1>6. CASE ~UseDiffs
  <2>1. Source = "entire" /\ shown["cpu"] # "diff"
    BY <1>1, <1>2, <1>6
  <2>2. CASE now["cpu"] # Null
    <3>1. o = Outcome(now["cpu"], diff["cpu"], "now")
      BY <2>1, <2>2, PercentsOutcome
    <3> QED BY <1>4, <2>1, <3>1
  <2>3. CASE now["cpu"] = Null
    <3>1. o \in Gets("cpu") /\ shown["cpu"] # "now"
      BY <1>1, <2>1, <2>3, PercentsOutcome
    <3> QED BY <1>2, <1>4, <2>1, <3>1, GetsOutcome
  <2> QED BY <2>2, <2>3
<1> QED BY <1>5, <1>6

(* What a step that takes percentages changes.                              *)
LEMMA PercentsFrame ==
    ASSUME TypeOK, PopulatePercents
    PROVE  /\ pc = "percents" /\ pc' = "page"
           /\ tool' = tool /\ told' = told /\ clock' = clock /\ phase' = phase
           /\ UNCHANGED <<round, waiting>>
           /\ now'["page"] = now["page"] /\ diff'["page"] = diff["page"]
           /\ shown'["page"] = shown["page"] /\ shown'["cpu"] = shown["cpu"]
           /\ \/ /\ now' = now /\ diff' = diff /\ usage' = usage
                 /\ shown' = [shown EXCEPT !["percents"] = "null"]
                 /\ shown'["percents"] = "null"
              \/ \E o \in PercentsOf(Source) :
                   /\ Sampled("cpu", o) /\ now'["cpu"] = o.now /\ diff'["cpu"] = o.diff
                   /\ o.ptr = "now" => usage' = o.now
                   /\ o.ptr = "diff" => usage' = o.diff
                   /\ o.ptr = "null" => usage' \in {Junk, usage}
                   /\ shown' = [shown EXCEPT !["percents"] =
                                  IF o.ptr = "null" THEN "null" ELSE "usage"]
                   /\ shown'["percents"] = IF o.ptr = "null" THEN "null" ELSE "usage"
<1>1. /\ pc = "percents" /\ pc' = "page"
      /\ tool' = tool /\ told' = told /\ clock' = clock /\ phase' = phase
      /\ UNCHANGED <<round, waiting>>
  BY DEF PopulatePercents
<1>2. CASE /\ shown' = [shown EXCEPT !["percents"] = "null"]
           /\ UNCHANGED records
  BY <1>1, <1>2 DEF records, TypeOK, Comps
<1>3. ASSUME NEW o \in PercentsOf(Source), Sampled("cpu", o),
             usage' = CASE o.ptr = "now" -> o.now
                        [] o.ptr = "diff" -> o.diff
                        [] o.ptr = "null" -> IF usage = Null THEN Junk ELSE usage,
             shown' = [shown EXCEPT !["percents"] = IF o.ptr = "null" THEN "null" ELSE "usage"]
      PROVE  /\ now'["page"] = now["page"] /\ diff'["page"] = diff["page"]
             /\ now'["cpu"] = o.now /\ diff'["cpu"] = o.diff
             /\ shown'["page"] = shown["page"] /\ shown'["cpu"] = shown["cpu"]
             /\ shown'["percents"] = IF o.ptr = "null" THEN "null" ELSE "usage"
             /\ o.ptr = "now" => usage' = o.now
             /\ o.ptr = "diff" => usage' = o.diff
             /\ o.ptr = "null" => usage' \in {Junk, usage}
  <2>1. /\ now'["page"] = now["page"] /\ diff'["page"] = diff["page"]
        /\ now'["cpu"] = o.now /\ diff'["cpu"] = o.diff
        /\ shown'["page"] = shown["page"] /\ shown'["cpu"] = shown["cpu"]
        /\ shown'["percents"] = IF o.ptr = "null" THEN "null" ELSE "usage"
    BY <1>3 DEF Sampled, TypeOK, Comps
  <2>2. o.ptr = "now" => usage' = o.now
    BY <1>3
  <2>3. o.ptr = "diff" => usage' = o.diff
    BY <1>3
  <2>4. o.ptr = "null" => usage' \in {Junk, usage}
    BY <1>3
  <2> QED BY <2>1, <2>2, <2>3, <2>4
<1> QED BY <1>1, <1>2, <1>3 DEF PopulatePercents

(* The percentages of statgrab.                                             *)
LEMMA StatgrabPercentsStep ==
    ASSUME MInv, PopulatePercents, tool.prog = "statgrab"
    PROVE  MInv'
<1> USE DEF MInv
<1>1. /\ TypeOK /\ pc = "percents" /\ pc' = "page" /\ Settled("page")
      /\ tool' = tool /\ told' = told /\ clock' = clock /\ phase' = phase
      /\ UNCHANGED <<round, waiting>>
      /\ now'["page"] = now["page"] /\ diff'["page"] = diff["page"]
      /\ shown'["page"] = shown["page"] /\ shown'["cpu"] = shown["cpu"]
      /\ tool.prog # "saidar" /\ tool.percent
  BY PercentsFrame, Options DEF Sums, Loops
<1> DEFINE Result ==
          /\ now' \in [Comps -> Record] /\ diff' \in [Comps -> Record] /\ usage' \in Record
          /\ shown' \in [Comps \cup {"percents"} -> {"null", "now", "diff", "usage"}]
          /\ shown'["percents"] \in {"null", "usage"}
          /\ now'["cpu"].v <= Boot + clock
          /\ shown["cpu"] = "now" => now'["cpu"].st = "set"
          /\ shown["cpu"] = "diff" => now'["cpu"] = now["cpu"] /\ diff'["cpu"] = diff["cpu"]
          /\ shown'["percents"] = "usage" /\ shown["cpu"] = "diff" => usage' = diff'["cpu"]
          /\ shown'["percents"] = "usage" /\ shown["cpu"] = "now" /\ ~UseDiffs => usage' = now'["cpu"]
<1>2. Result
  <2>1. CASE /\ now' = now /\ diff' = diff /\ usage' = usage
             /\ shown' = [shown EXCEPT !["percents"] = "null"]
             /\ shown'["percents"] = "null"
    BY <1>1, <2>1 DEF TypeOK, Samples, Pointers, Comps
  <2>2. ASSUME NEW o \in PercentsOf(Source),
               Sampled("cpu", o), now'["cpu"] = o.now, diff'["cpu"] = o.diff,
               o.ptr = "now" => usage' = o.now,
               o.ptr = "diff" => usage' = o.diff,
               o.ptr = "null" => usage' \in {Junk, usage},
               shown' = [shown EXCEPT !["percents"] = IF o.ptr = "null" THEN "null" ELSE "usage"],
               shown'["percents"] = IF o.ptr = "null" THEN "null" ELSE "usage"
        PROVE  Result
    <3>1. /\ o.now \in Record /\ o.diff \in Record /\ o.ptr \in {"null", "now", "diff"}
          /\ o.now.v <= Boot + clock
          /\ shown["cpu"] = "now" => o.now.st = "set"
          /\ shown["cpu"] = "now" /\ ~UseDiffs => o.now = now["cpu"] /\ o.ptr = "now"
          /\ shown["cpu"] = "diff" => /\ o.now = now["cpu"] /\ o.diff = diff["cpu"]
                                      /\ o.ptr = "diff"
      BY <1>1, StatgrabPercents
    <3>2. /\ now' \in [Comps -> Record] /\ diff' \in [Comps -> Record]
          /\ shown' \in [Comps \cup {"percents"} -> {"null", "now", "diff", "usage"}]
      BY <1>1, <2>2, <3>1 DEF Sampled, TypeOK, Comps
    <3>3. usage' \in Record
      BY <1>1, <2>2, <3>1, Fields DEF TypeOK
    <3> QED BY <2>2, <3>1, <3>2, <3>3
  <2> QED BY <1>1, <2>1, <2>2, PercentsFrame
<1>3. TypeOK'
  BY <1>1, <1>2 DEF TypeOK, waiting
<1>4. Loops'
  BY <1>1, <1>2 DEF Loops
<1>5. Pointers'
  BY <1>1, <1>2 DEF Pointers, Comps, UseDiffs
<1>6. Samples'
  BY <1>1, <1>2 DEF Samples, Comps
<1>7. Sums'
  BY <1>1, <1>2 DEF Sums, Settled
<1>8. Beside'
  BY <1>1, <1>2 DEF Beside, UseDiffs
<1>9. Moving'
  BY <1>1, <1>2 DEF Moving
<1>10. Waiting'
  BY <1>1 DEF Waiting, Seconds, waiting
<1> QED BY <1>3, <1>4, <1>5, <1>6, <1>7, <1>8, <1>9, <1>10

(* The percentages of saidar: it has nothing else of the cpu.               *)
LEMMA SaidarPercentsStep ==
    ASSUME MInv, PopulatePercents, tool.prog = "saidar"
    PROVE  MInv'
<1> USE DEF MInv
<1>1. /\ TypeOK /\ Samples /\ pc = "percents" /\ pc' = "page"
      /\ Settled("page") /\ Settled("cpu") /\ woken # "kept"
      /\ tool' = tool /\ told' = told /\ clock' = clock /\ phase' = phase
      /\ UNCHANGED <<round, waiting>>
      /\ now'["page"] = now["page"] /\ diff'["page"] = diff["page"]
      /\ shown'["page"] = shown["page"] /\ shown'["cpu"] = shown["cpu"]
      /\ tool.prog # "statgrab" /\ tool.percent /\ UseDiffs /\ Source = "new"
  BY PercentsFrame, Options DEF Sums, Source
<1> DEFINE Result ==
          /\ now' \in [Comps -> Record] /\ diff' \in [Comps -> Record] /\ usage' \in Record
          /\ shown' \in [Comps \cup {"percents"} -> {"null", "now", "diff", "usage"}]
          /\ shown'["percents"] \in {"null", "usage"}
          /\ now'["cpu"].v <= Boot + clock
          /\ shown'["percents"] = "usage" =>
               usage'.st = "set" /\ told["cpu"] + usage'.v = now'["cpu"].v
<1>2. Result
  <2>1. CASE /\ now' = now /\ diff' = diff /\ usage' = usage
             /\ shown' = [shown EXCEPT !["percents"] = "null"]
             /\ shown'["percents"] = "null"
    BY <1>1, <2>1 DEF TypeOK, Samples, Comps
  <2>2. ASSUME NEW o \in PercentsOf(Source),
               Sampled("cpu", o), now'["cpu"] = o.now, diff'["cpu"] = o.diff,
               o.ptr = "now" => usage' = o.now,
               o.ptr = "diff" => usage' = o.diff,
               o.ptr = "null" => usage' \in {Junk, usage},
               shown' = [shown EXCEPT !["percents"] = IF o.ptr = "null" THEN "null" ELSE "usage"],
               shown'["percents"] = IF o.ptr = "null" THEN "null" ELSE "usage"
        PROVE  Result
    <3>1. o \in Diffs("cpu")
      BY <1>1, PercentsOutcome
    <3>2. /\ o.now \in Record /\ o.diff \in Record /\ o.ptr \in {"null", "now", "diff"}
          /\ o.now.v <= Boot + clock
          /\ o.ptr = "now" => o.now.st = "set" /\ told["cpu"] = 0
          /\ o.ptr = "diff" => /\ UseDiffs /\ o.diff.st = "set"
                               /\ told["cpu"] + o.diff.v = o.now.v
      BY <1>1, <3>1, RoundOutcome DEF Comps
    <3>3. /\ now' \in [Comps -> Record] /\ diff' \in [Comps -> Record]
          /\ shown' \in [Comps \cup {"percents"} -> {"null", "now", "diff", "usage"}]
      BY <1>1, <2>2, <3>2 DEF Sampled, TypeOK, Comps
    <3>4. usage' \in Record
      BY <1>1, <2>2, <3>2, Fields DEF TypeOK
    <3>5. o.ptr # "null" => usage'.st = "set" /\ told["cpu"] + usage'.v = o.now.v
      <4>1. o.now.v \in Nat
        BY <3>2 DEF Record
      <4> QED BY <2>2, <3>2, <4>1
    <3> QED BY <2>2, <3>2, <3>3, <3>4, <3>5
  <2> QED BY <1>1, <2>1, <2>2, PercentsFrame
<1>3. TypeOK'
  BY <1>1, <1>2 DEF TypeOK, waiting
<1>4. Loops'
  BY <1>1, <1>2 DEF Loops
<1>5. Pointers'
  BY <1>1, <1>2 DEF Pointers, Comps, UseDiffs
<1>6. Samples'
  BY <1>1, <1>2 DEF Samples, Comps
<1>7. Pending("cpu")'
  <2>1. CASE shown'["percents"] = "null"
    BY <1>1, <2>1 DEF Pending, Learnt, Deref
  <2>2. CASE shown'["percents"] = "usage"
    BY <1>1, <1>2, <2>2 DEF Pending, Learnt, Deref
  <2> QED BY <1>2, <2>1, <2>2
<1>8. Sums'
  BY <1>1, <1>2, <1>7 DEF Sums, Settled, waiting
<1>9. Beside' /\ Moving'
  BY <1>1 DEF Beside, Moving
<1>10. Waiting'
  BY <1>1 DEF Waiting, Seconds, waiting
<1> QED BY <1>3, <1>4, <1>5, <1>6, <1>8, <1>9, <1>10

(* The page statistics end the round.                                       *)
LEMMA PopulatePageStep ==
    ASSUME MInv, PopulatePage
    PROVE  MInv'
<1> USE DEF MInv
<1>1. /\ TypeOK /\ Samples /\ Settled("page") /\ pc = "page" /\ pc' = "ready"
      /\ (~UseDiffs => told["page"] = 0)
      /\ tool' = tool /\ told' = told /\ clock' = clock /\ phase' = phase
      /\ UNCHANGED <<usage, round, waiting>>
      /\ tool.prog \in {"statgrab", "saidar"}
  BY Options DEF PopulatePage, Sums, Loops, Comps
<1>2. PICK o \in IF UseDiffs THEN Diffs("page") ELSE Gets("page") :
          Sampled("page", o) /\ shown' = [shown EXCEPT !["page"] = o.ptr]
  BY DEF PopulatePage
<1>3. /\ o.now \in Record /\ o.diff \in Record /\ o.ptr \in {"null", "now", "diff"}
      /\ o.now.v <= Boot + clock
      /\ o.ptr = "now" => o.now.st = "set" /\ told["page"] = 0
      /\ o.ptr = "diff" => /\ UseDiffs /\ o.diff.st = "set"
                           /\ told["page"] + o.diff.v = o.now.v
  BY <1>1, RoundOutcome DEF Comps
<1>4. /\ now'["page"] = o.now /\ now'["cpu"] = now["cpu"]
      /\ diff'["page"] = o.diff /\ diff'["cpu"] = diff["cpu"]
      /\ shown'["page"] = o.ptr /\ shown'["cpu"] = shown["cpu"]
      /\ shown'["percents"] = shown["percents"]
      /\ now' \in [Comps -> Record] /\ diff' \in [Comps -> Record]
      /\ shown' \in [Comps \cup {"percents"} -> {"null", "now", "diff", "usage"}]
      /\ usage' = usage
  BY <1>1, <1>2, <1>3 DEF Sampled, TypeOK, Comps
<1>5. TypeOK'
  BY <1>1, <1>4 DEF TypeOK, waiting
<1>6. Loops'
  BY <1>1, <1>4 DEF Loops
<1>7. Pointers'
  BY <1>1, <1>3, <1>4 DEF Pointers, Comps, UseDiffs
<1>8. Samples'
  BY <1>1, <1>3, <1>4 DEF Samples, Comps
<1>9. Pending("page")'
  <2>1. Learnt("page")' = Deref("page", shown["page"])'
    BY DEF Learnt
  <2>2. CASE o.ptr = "null"
    BY <1>4, <2>1, <2>2 DEF Pending, Deref
  <2>3. CASE o.ptr = "now"
    <3>1. o.now.v \in Nat
      BY <1>3 DEF Record
    <3>2. Learnt("page")' = o.now
      BY <1>4, <2>1, <2>3 DEF Deref
    <3> QED BY <1>1, <1>3, <1>4, <2>3, <3>1, <3>2 DEF Pending
  <2>4. CASE o.ptr = "diff"
    <3>1. Learnt("page")' = o.diff
      BY <1>4, <2>1, <2>4 DEF Deref
    <3> QED BY <1>1, <1>3, <1>4, <2>4, <3>1 DEF Pending
  <2> QED BY <1>3, <2>2, <2>3, <2>4
<1>10. Pending("cpu")'
  <2>1. CASE tool.prog = "saidar"
    <3>1. Pending("cpu") /\ shown["percents"] \in {"null", "usage"}
      BY <1>1, <2>1 DEF Sums, Pointers
    <3>2. Learnt("cpu")' = Learnt("cpu")
      <4>1. CASE shown["percents"] = "null"
        BY <1>1, <1>4, <2>1, <4>1 DEF Learnt, Deref
      <4>2. CASE shown["percents"] = "usage"
        BY <1>1, <1>4, <2>1, <4>2 DEF Learnt, Deref
      <4> QED BY <3>1, <4>1, <4>2
    <3> QED BY <1>1, <1>4, <3>1, <3>2 DEF Pending
  <2>2. CASE tool.prog = "statgrab"
    <3>1. /\ shown["cpu"] \in {"null", "now", "diff"} /\ now["cpu"].v \in Nat
          /\ shown["cpu"] = "now" => told["cpu"] = 0
          /\ shown["cpu"] = "diff" => told["cpu"] + diff["cpu"].v = now["cpu"].v
      BY <1>1, <2>2 DEF Sums, Pointers, TypeOK, Record, Comps
    <3>2. Learnt("cpu")' = Deref("cpu", shown["cpu"])'
      BY <1>1, <2>2 DEF Learnt
    <3>3. CASE shown["cpu"] = "null"
      BY <1>4, <3>2, <3>3 DEF Pending, Deref
    <3>4. CASE shown["cpu"] = "now"
      <4>1. Learnt("cpu")' = now["cpu"]
        BY <1>4, <3>2, <3>4 DEF Deref
      <4> QED BY <1>1, <1>4, <3>1, <3>4, <4>1 DEF Pending
    <3>5. CASE shown["cpu"] = "diff"
      <4>1. Learnt("cpu")' = diff["cpu"]
        BY <1>4, <3>2, <3>5 DEF Deref
      <4> QED BY <1>1, <1>4, <3>1, <3>5, <4>1 DEF Pending
    <3> QED BY <3>1, <3>3, <3>4, <3>5
  <2> QED BY <1>1, <2>1, <2>2
<1>11. Sums'
  BY <1>1, <1>4, <1>9, <1>10 DEF Sums, Comps, waiting
<1>12. Beside'
  BY <1>1, <1>4 DEF Beside, UseDiffs
<1>13. Moving'
  BY <1>1, <1>4 DEF Moving
<1>14. Waiting'
  BY <1>1 DEF Waiting, Seconds, waiting
<1> QED BY <1>5, <1>6, <1>7, <1>8, <1>11, <1>12, <1>13, <1>14

(* The pointers are followed: the sums are settled again.                   *)
LEMMA Followed ==
    ASSUME TypeOK, \A c \in Comps : Pending(c), Follow_Pointers, now' = now
    PROVE  /\ told' \in [Comps -> Nat] /\ \A c \in Comps : Settled(c)'
           /\ \A c \in Comps : told'[c] = now[c].v
<1>1. \A c \in Comps : told'[c] = now[c].v
  BY DEF Follow_Pointers, Pending
<1>2. \A c \in Comps : now[c].v \in Nat
  BY DEF TypeOK, Record
<1>3. told' = [c \in Comps |-> told'[c]]
  BY DEF Follow_Pointers
<1> QED BY <1>1, <1>2, <1>3 DEF Settled

(* print_stats().                                                           *)
LEMMA PrintStatsStep ==
    ASSUME MInv, PrintStats
    PROVE  MInv'
<1> USE DEF MInv
<1>1. /\ TypeOK /\ pc = "ready" /\ tool.prog = "statgrab" /\ tool.prog # "saidar"
      /\ UNCHANGED <<tool, clock, phase, now, diff, usage, shown, round, woken, lastUpdate>>
      /\ pc' \in {"end", "sleep"} /\ (tool.repeat = "none" => pc' = "end")
      /\ wake' = clock + tool.delay * PerSecond /\ Follow_Pointers
      /\ \A c \in Comps : Pending(c)
  BY DEF PrintStats, Sums, records
<1>2. told' \in [Comps -> Nat] /\ \A c \in Comps : Settled(c)'
  BY <1>1, Followed
<1>3. /\ clock \in Nat /\ tool.delay \in Nat /\ tool.delay * PerSecond \in Nat
      /\ tool.delay > 0 => tool.delay * PerSecond > 0
  <2>1. tool.delay \in Nat /\ PerSecond \in Nat \ {0} /\ clock \in Nat
    BY <1>1, Options, MonitorAssumption DEF TypeOK
  <2> QED BY <2>1, DelayParts
<1>4. wake' \in Nat /\ (tool.delay > 0 => clock < wake')
  BY <1>1, <1>3
<1>5. TypeOK'
  BY <1>1, <1>2, <1>4 DEF TypeOK
<1>6. Loops'
  BY <1>1 DEF Loops
<1>7. Pointers' /\ Samples' /\ Beside'
  BY <1>1 DEF Pointers, Samples, Beside, UseDiffs
<1>8. Sums'
  BY <1>1, <1>2 DEF Sums
<1>9. Moving'
  <2>1. now["cpu"].v <= Boot + clock /\ Boot \in Nat /\ now["cpu"].v \in Nat
    BY MonitorAssumption DEF Samples, TypeOK, Comps, Record
  <2> QED BY <1>1, <1>3, <1>4, <2>1 DEF Moving
<1>10. Waiting'
  BY <1>1 DEF Waiting, Seconds
<1> QED BY <1>5, <1>6, <1>7, <1>8, <1>9, <1>10

(* sleep() is over.                                                         *)
LEMMA AwakeStep ==
    ASSUME MInv, Awake
    PROVE  MInv'
<1> USE DEF MInv
<1>1. /\ TypeOK /\ pc = "sleep" /\ pc' = "cpu" /\ clock >= wake /\ round' = 2
      /\ tool.prog = "statgrab" /\ tool.prog # "saidar" /\ tool.repeat # "none"
      /\ UNCHANGED <<tool, clock, phase, now, diff, usage, wake, woken, lastUpdate, told>>
      /\ shown' = [i \in Comps \cup {"percents"} |-> "null"]
  BY Options DEF Awake, Loops, records, waiting, TypeOK
<1>2. shown'["cpu"] = "null" /\ shown'["page"] = "null" /\ shown'["percents"] = "null"
  BY <1>1 DEF Comps
<1>3. TypeOK'
  BY <1>1 DEF TypeOK
<1>4. Loops' /\ Pointers' /\ Samples' /\ Beside'
  BY <1>1, <1>2 DEF Loops, Pointers, Samples, Beside, Comps
<1>5. Sums'
  BY <1>1 DEF Sums, Settled
<1>6. Moving'
  <2>1. Boot \in Nat /\ now["cpu"].v \in Nat /\ clock \in Nat /\ wake \in Nat
    BY MonitorAssumption DEF TypeOK, Comps, Record
  <2> QED BY <1>1, <2>1 DEF Moving
<1>7. Waiting'
  BY <1>1 DEF Waiting, Seconds
<1> QED BY <1>3, <1>4, <1>5, <1>6, <1>7

(* Seconds that saidar may have noted, and those it waits for.              *)
LEMMA LaterSeconds ==
    ASSUME TypeOK, NEW m \in Nat, NEW n \in Nat
    PROVE  /\ Seconds(m) \in Nat \ {0}
           /\ m <= n => Seconds(m) <= Seconds(n)
           /\ m + PerSecond <= n => Seconds(m) + 1 <= Seconds(n)
<1>1. phase + m \in Nat /\ phase + n \in Nat /\ PerSecond \in Nat \ {0} /\ phase \in Nat
  BY MonitorAssumption DEF TypeOK
<1>2. /\ (phase + m) \div PerSecond \in Nat /\ (phase + n) \div PerSecond \in Nat
      /\ phase + m <= phase + n => (phase + m) \div PerSecond <= (phase + n) \div PerSecond
      /\ (phase + m) + PerSecond <= phase + n =>
           (phase + m) \div PerSecond + 1 <= (phase + n) \div PerSecond
  BY <1>1, WholeSeconds
<1>3. /\ m <= n => phase + m <= phase + n
      /\ m + PerSecond <= n => (phase + m) + PerSecond <= phase + n
  BY <1>1
<1> QED BY <1>2, <1>3 DEF Seconds

(* display_data(), unless the numbers on the screen are kept.               *)
LEMMA DisplayStep ==
    ASSUME MInv, Display
    PROVE  MInv'
<1> USE DEF MInv
<1>1. /\ TypeOK /\ pc = "ready" /\ tool.prog = "saidar" /\ tool.prog # "statgrab"
      /\ UNCHANGED <<tool, clock, phase, now, diff, usage, shown, round, woken, lastUpdate>>
      /\ pc' = "getch" /\ wake' = clock + tool.delay * PerSecond
  BY DEF Display, records
<1>2. told' \in [Comps -> Nat] /\ \A c \in Comps : Settled(c)'
  <2>1. CASE woken = "kept"
    BY <1>1, <2>1 DEF Display, Sums, Settled, TypeOK
  <2>2. CASE woken # "kept"
    BY <1>1, <2>2, Followed DEF Display, Sums
  <2> QED BY <2>1, <2>2
<1>3. wake' \in Nat /\ clock \in Nat /\ clock + PerSecond <= wake'
  <2>1. /\ tool.delay \in Nat /\ tool.delay > 0 /\ PerSecond \in Nat \ {0} /\ clock \in Nat
    BY <1>1, Options, MonitorAssumption DEF TypeOK
  <2>2. tool.delay * PerSecond \in Nat /\ tool.delay * PerSecond >= PerSecond
    BY <2>1, DelayParts
  <2> QED BY <1>1, <2>1, <2>2
<1>4. TypeOK'
  BY <1>1, <1>2, <1>3 DEF TypeOK
<1>5. Loops'
  BY <1>1, Options DEF Loops
<1>6. Pointers' /\ Samples' /\ Beside' /\ Moving'
  BY <1>1 DEF Pointers, Samples, Beside, Moving, UseDiffs
<1>7. Sums'
  BY <1>1, <1>2 DEF Sums
<1>8. Waiting'
  <2>1. Seconds(clock) + 1 <= Seconds(wake') /\ Seconds(clock) \in Nat /\ Seconds(wake') \in Nat
    BY <1>1, <1>3, LaterSeconds
  <2>2. lastUpdate <= Seconds(clock) /\ lastUpdate \in Nat
    BY <1>1 DEF Waiting, TypeOK
  <2>3. Seconds(clock)' = Seconds(clock) /\ Seconds(wake)' = Seconds(wake')
    BY <1>1 DEF Seconds
  <2>4. lastUpdate + 1 <= Seconds(wake')
    BY <2>1, <2>2
  <2> QED BY <1>1, <2>2, <2>3, <2>4 DEF Waiting
<1> QED BY <1>4, <1>5, <1>6, <1>7, <1>8

(* getch().                                                                 *)
LEMMA GetchStep ==
    ASSUME MInv, Getch
    PROVE  MInv'
<1> USE DEF MInv
<1>1. /\ TypeOK /\ pc = "getch" /\ pc' = "check"
      /\ UNCHANGED <<tool, clock, phase, now, diff, usage, shown, round, wake, lastUpdate, told>>
      /\ woken' \in {"key", "timeout"} /\ (woken' = "timeout" => wake <= clock)
      /\ tool.prog = "saidar" /\ tool.prog # "statgrab" /\ clock \in Nat /\ wake \in Nat
  BY Options DEF Getch, records, TypeOK, Loops
<1>2. TypeOK'
  BY <1>1 DEF TypeOK
<1>3. Loops' /\ Pointers' /\ Samples' /\ Beside' /\ Moving'
  BY <1>1 DEF Loops, Pointers, Samples, Beside, Moving, UseDiffs
<1>4. Sums'
  BY <1>1 DEF Sums, Settled
<1>5. Waiting'
  BY <1>1 DEF Waiting, Seconds
<1> QED BY <1>2, <1>3, <1>4, <1>5

(* After a wait that nobody cut short a refresh is due.                     *)
LEMMA TimeoutIsDue ==
    ASSUME MInv, pc = "check", woken = "timeout"
    PROVE  Due
<1>1. /\ TypeOK /\ clock \in Nat /\ wake \in Nat /\ wake <= clock /\ lastUpdate \in Nat
      /\ lastUpdate + 1 <= Seconds(wake)
  BY DEF MInv, TypeOK, Waiting
<1>2. Seconds(wake) <= Seconds(clock) /\ Seconds(wake) \in Nat /\ Seconds(clock) \in Nat
  BY <1>1, LaterSeconds
<1>3. Time = Seconds(clock)
  BY DEF Time, Seconds
<1> QED BY <1>1, <1>2, <1>3 DEF Due

(* The check whether a second has passed.                                   *)
LEMMA CheckStep ==
    ASSUME MInv, Check
    PROVE  MInv'
<1> USE DEF MInv
<1>1. /\ TypeOK /\ pc = "check" /\ lastUpdate' = Time
      /\ UNCHANGED <<tool, clock, phase, now, diff, usage, shown, round, wake, told>>
      /\ (pc' = "percents" /\ woken' = woken) \/ (pc' = "ready" /\ woken' = "kept")
      /\ tool.prog = "saidar" /\ tool.prog # "statgrab" /\ clock \in Nat
      /\ tool.percent /\ tool.repeat # "none"
  <2>1. tool.prog = "saidar" /\ tool.prog # "statgrab"
    BY Options DEF Check, Loops
  <2>2. tool.percent /\ tool.repeat # "none"
    BY <2>1, Options
  <2> QED BY <2>1, <2>2 DEF Check, records, TypeOK
<1>2. Time = Seconds(clock) /\ Time \in Nat /\ Seconds(clock)' = Seconds(clock)
  BY <1>1, LaterSeconds DEF Time, Seconds
<1>3. TypeOK'
  BY <1>1, <1>2 DEF TypeOK
<1>4. Loops' /\ Samples' /\ Beside' /\ Moving'
  BY <1>1 DEF Loops, Samples, Beside, Moving
<1>5. Pointers'
  BY <1>1 DEF Pointers, UseDiffs
<1>6. Sums'
  BY <1>1 DEF Sums, Settled, Comps
<1>7. Waiting'
  BY <1>1, <1>2 DEF Waiting
<1> QED BY <1>3, <1>4, <1>5, <1>6, <1>7

(* The end of the tool.                                                     *)
LEMMA StopStep ==
    ASSUME MInv, Stop
    PROVE  MInv'
<1> USE DEF MInv
<1>1. /\ TypeOK /\ pc' = "end"
      /\ UNCHANGED <<tool, clock, phase, now, diff, usage, shown, round, wake, woken,
                     lastUpdate, told>>
  BY DEF Stop, records, waiting
<1>2. TypeOK'
  BY <1>1 DEF TypeOK
<1>3. Loops' /\ Pointers' /\ Samples' /\ Sums' /\ Beside' /\ Moving' /\ Waiting'
  BY <1>1 DEF Loops, Pointers, Samples, Sums, Beside, Moving, Waiting, Seconds, UseDiffs
<1> QED BY <1>2, <1>3

(* Time passes, at any moment of a round.                                   *)
LEMMA TickStep ==
    ASSUME MInv, Tick
    PROVE  MInv'
<1> USE DEF MInv
<1>1. /\ TypeOK /\ clock' = clock + 1 /\ clock \in Nat /\ Boot \in Nat
      /\ UNCHANGED <<tool, pc, phase, now, diff, usage, shown, round, wake, woken,
                     lastUpdate, told>>
  BY MonitorAssumption DEF Tick, records, waiting, TypeOK
<1>2. TypeOK'
  BY <1>1 DEF TypeOK
<1>3. Loops' /\ Pointers' /\ Beside'
  BY <1>1 DEF Loops, Pointers, Beside, UseDiffs
<1>4. \A c \in Comps : Learnt(c)' = Learnt(c)
  BY <1>1 DEF Learnt, Deref
<1>5. Sums'
  BY <1>1, <1>4 DEF Sums, Settled, Pending, Comps
<1>6. \A c \in Comps : now[c].v \in Nat
  BY <1>1 DEF TypeOK, Record
<1>7. Samples' /\ Moving'
  BY <1>1, <1>6 DEF Samples, Moving, Comps
<1>8. Waiting'
  <2>1. clock + 1 \in Nat /\ wake \in Nat /\ lastUpdate \in Nat
    BY <1>1 DEF TypeOK
  <2>2. /\ Seconds(clock) <= Seconds(clock + 1) /\ Seconds(clock) \in Nat
        /\ Seconds(clock + 1) \in Nat
    BY <1>1, <2>1, LaterSeconds
  <2>3. Seconds(clock)' = Seconds(clock + 1) /\ Seconds(wake)' = Seconds(wake)
    BY <1>1 DEF Seconds
  <2> QED BY <1>1, <2>1, <2>2, <2>3 DEF Waiting
<1> QED BY <1>2, <1>3, <1>5, <1>7, <1>8

(* The tool has just been started.                                          *)
LEMMA InitMInv == Init => MInv
<1> SUFFICES ASSUME Init PROVE MInv
  OBVIOUS
<1>1. /\ Boot \in Nat /\ Boot > 0 /\ PerSecond \in Nat \ {0} /\ clock = 0
  BY MonitorAssumption DEF Init
<1>2. /\ \A c \in Comps : now[c] = Null /\ diff[c] = Null /\ told[c] = 0 /\ shown[c] = "null"
      /\ shown["percents"] = "null" /\ usage = Null /\ "cpu" \in Comps
  BY DEF Init, Comps
<1>3. TypeOK
  BY <1>1, Fields DEF Init, TypeOK
<1>4. tool.prog \in {"statgrab", "saidar"} /\ pc = IF tool.prog = "saidar" THEN "percents" ELSE "cpu"
  BY <1>3, Options DEF Init
<1>5. tool.prog = "saidar" => tool.percent /\ UseDiffs
  BY <1>3, Options
<1>6. Loops
  BY <1>2, <1>4, <1>5 DEF Loops
<1>7. Pointers
  BY <1>2, <1>4 DEF Pointers
<1>8. Samples
  BY <1>1, <1>2, Fields DEF Samples
<1>9. Sums
  BY <1>2, <1>4, Fields DEF Sums, Settled, Init, Comps
<1>10. Beside
  BY <1>2 DEF Beside
<1>11. Moving
  BY <1>1, <1>2, <1>4, Fields DEF Moving
<1>12. Waiting
  <2>1. Seconds(clock) \in Nat
    BY <1>1, <1>3, LaterSeconds
  <2> QED BY <1>4, <2>1 DEF Waiting, Init
<1> QED BY <1>3, <1>6, <1>7, <1>8, <1>9, <1>10, <1>11, <1>12 DEF MInv

(* Every step of either tool keeps the invariant.                           *)
LEMMA MInvInductive == MInv /\ [Next]_vars => MInv'
<1> SUFFICES ASSUME MInv, [Next]_vars PROVE MInv'
  OBVIOUS
<1>1. CASE UNCHANGED vars
  <2>1. UNCHANGED <<tool, pc, clock, phase, now, diff, usage, shown, round, wake, woken,
                    lastUpdate, told>>
    BY <1>1 DEF vars, records, waiting
  <2>2. TypeOK'
    BY <2>1 DEF MInv, TypeOK
  <2>3. \A c \in Comps : Learnt(c)' = Learnt(c)
    BY <2>1 DEF Learnt, Deref
  <2> QED BY <2>1, <2>2, <2>3
      DEF MInv, Loops, Pointers, Samples, Sums, Settled, Pending, Beside, Moving, Waiting,
          Seconds, UseDiffs, Comps
<1>2. CASE PopulatePercents
  <2>1. tool.prog \in {"statgrab", "saidar"}
    BY Options DEF MInv
  <2> QED BY <1>2, <2>1, StatgrabPercentsStep, SaidarPercentsStep
<1>3. CASE Done
  BY <1>1, <1>3 DEF Done
<1> QED BY <1>1, <1>2, <1>3, PopulateCpuStep, PopulatePageStep, PrintStatsStep, AwakeStep,
           DisplayStep, GetchStep, CheckStep, StopStep, TickStep DEF Next

----------------------------------------------------------------------------
(* Where a round stands, what was told and what the clock shows, at every   *)
(* step of the loops of statgrab.c and saidar.c.                            *)
THEOREM MonitorInvariant == Spec => []MInv
BY InitMInv, MInvInductive, PTL DEF Spec

(* The types are right: no difference of two samples is negative.           *)
THEOREM MonitorTypes == Spec => []TypeOK
BY MonitorInvariant, PTL DEF MInv

(* What EASY_COMP_DIFF tells a tool adds up to the last sample, round after *)
(* round, with any failures in between.                                     *)
THEOREM SumsHold == Spec => []DifferencesAddUp
<1>1. MInv => DifferencesAddUp
  BY DEF MInv, Sums, Settled, DifferencesAddUp
<1> QED BY <1>1, MonitorInvariant, PTL

(* statgrab -p shows the percentages of the difference whose counters it    *)
(* shows beside them (populate_cpu() and sg_get_cpu_percents_of()).         *)
THEOREM BesideHolds == Spec => []PercentsBesideCounts
<1>1. MInv => PercentsBesideCounts
  <2> SUFFICES ASSUME MInv, pc = "ready", tool.prog = "statgrab", shown["percents"] = "usage",
                      shown["cpu"] = (IF UseDiffs THEN "diff" ELSE "now")
               PROVE  usage = Deref("cpu", shown["cpu"])
    BY DEF PercentsBesideCounts
  <2>1. CASE UseDiffs
    BY <2>1 DEF MInv, Beside, Deref
  <2>2. CASE ~UseDiffs
    BY <2>2 DEF MInv, Beside, Deref
  <2> QED BY <2>1, <2>2
<1> QED BY <1>1, MonitorInvariant, PTL

(* No percentage of a total of 0 after a sleep of at least a second, and    *)
(* none of memory that was not written.                                     *)
THEOREM DefinedHolds == Spec => []PercentsDefined
<1>1. MInv => PercentsDefined
  BY DEF MInv, Beside, Pointers, Moving, PercentsDefined
<1> QED BY <1>1, MonitorInvariant, PTL

(* A wait of saidar that no key cut short is followed by new numbers,       *)
(* wherever in a second it began.                                           *)
THEOREM TimeoutHolds == Spec => TimeoutRefreshes
<1>1. MInv => [Check => (woken = "timeout" => pc' = "percents")]_vars
  BY TimeoutIsDue DEF Check
<1> QED BY <1>1, MonitorInvariant, PTL DEF TimeoutRefreshes
=============================================================================
