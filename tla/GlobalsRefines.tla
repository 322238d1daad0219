--------------------------- MODULE GlobalsRefines --------------------------
(***************************************************************************)
(* The component manager implements the reference-counted library of       *)
(* RefCounted, for any number of threads and components and any failures;  *)
(* and sg_init() tells its caller of every component that did not start.   *)
(***************************************************************************)
EXTENDS GlobalsProofs

(* The labels at which a thread makes the library anything but up or down.  *)
Working == Building \cup Wrecking \cup {"s_unlock"}

PhaseAt(label, n) ==
    IF label \in Building THEN "building"
    ELSE IF label \in Wrecking \cup {"s_unlock"} /\ n = 0 THEN "tearing"
    ELSE IF n = 0 THEN "down" ELSE "up"

(* While at most one thread works on the library its label and the counter  *)
(* are the phase.                                                           *)
LEMMA PhaseOfWorker ==
    ASSUME NEW t \in Threads, aborted = 0, \A u \in Threads \ {t} : pc[u] \notin Working
    PROVE  Phase = PhaseAt(pc[t], initialized)
<1>1. (\E u \in Threads : Builder(u)) <=> pc[t] \in Building
  BY DEF Builder, Working
<1>2. (\E u \in Threads : Wrecker(u))
        <=> pc[t] \in Wrecking \cup {"s_unlock"} /\ initialized = 0
  BY DEF Wrecker, Working
<1>3. pc[t] \in Building => pc[t] \notin Wrecking \cup {"s_unlock"}
  BY DEF Building, Wrecking
<1> QED BY <1>1, <1>2, <1>3 DEF Phase, PhaseAt

(* The same of the state after a step.                                      *)
LEMMA PhaseOfWorkerNext ==
    ASSUME NEW t \in Threads, aborted' = 0, \A u \in Threads \ {t} : pc'[u] \notin Working
    PROVE  Phase' = PhaseAt(pc'[t], initialized')
<1>1. (\E u \in Threads : Builder(u)') <=> pc'[t] \in Building
  BY DEF Builder, Working
<1>2. (\E u \in Threads : Wrecker(u)')
        <=> pc'[t] \in Wrecking \cup {"s_unlock"} /\ initialized' = 0
  BY DEF Wrecker, Working
<1>3. pc'[t] \in Building => pc'[t] \notin Wrecking \cup {"s_unlock"}
  BY DEF Building, Wrecking
<1> QED BY <1>1, <1>2, <1>3 DEF Phase, PhaseAt

(* The thread that has the mutex is the only one that works.                *)
LEMMA OnlyWorker ==
    ASSUME IInv, NEW t \in Threads, NEW l \in Labels, pc[t] \in Inside, Goto(t, l)
    PROVE  /\ aborted = 0 /\ TypeOK /\ pc'[t] = l
           /\ Phase = PhaseAt(pc[t], initialized)
           /\ aborted' = 0 => Phase' = PhaseAt(l, initialized')
           /\ aborted' = 1 => Phase' = "stuck"
<1>1. TypeOK /\ aborted = 0 /\ \A u \in Threads \ {t} : pc[u] \notin Inside
  BY Facts DEF IInv
<1>2. Working \subseteq Inside
  BY DEF Working, Building, Wrecking, Inside, InitPcs, ShutPcs
<1>3. pc'[t] = l /\ \A u \in Threads \ {t} : pc'[u] = pc[u]
  BY <1>1 DEF Goto, TypeOK
<1>4. Phase = PhaseAt(pc[t], initialized)
  BY <1>1, <1>2, PhaseOfWorker
<1>5. aborted' = 0 => Phase' = PhaseAt(l, initialized')
  BY <1>1, <1>2, <1>3, PhaseOfWorkerNext
<1>6. aborted' = 1 => Phase' = "stuck"
  BY DEF Phase
<1> QED BY <1>1, <1>3, <1>4, <1>5, <1>6

(* What is built only grows, or only shrinks, with the two tables.          *)
LEMMA PartsMove ==
    ASSUME NEW cs, NEW ms, NEW ds, NEW ns,
           ds \subseteq Comps, ns \subseteq RequiredNames
    PROVE  /\ cs \subseteq ds /\ ms \subseteq ns =>
                \E ps \in SUBSET PartsOf(Comps, RequiredNames) :
                    PartsOf(ds, ns) = PartsOf(cs, ms) \cup ps
           /\ cs \subseteq ds /\ ms \subseteq ns =>
                \E ps \in SUBSET PartsOf(Comps, RequiredNames) :
                    PartsOf(cs, ms) = PartsOf(ds, ns) \ ps
<1>1. ASSUME cs \subseteq ds, ms \subseteq ns
      PROVE  /\ PartsOf(ds, ns) \in SUBSET PartsOf(Comps, RequiredNames)
             /\ PartsOf(ds, ns) = PartsOf(cs, ms) \cup PartsOf(ds, ns)
  BY <1>1 DEF PartsOf
<1>2. ASSUME cs \subseteq ds, ms \subseteq ns
      PROVE  /\ PartsOf(ds \ cs, ns \ ms) \in SUBSET PartsOf(Comps, RequiredNames)
             /\ PartsOf(cs, ms) = PartsOf(ds, ns) \ PartsOf(ds \ cs, ns \ ms)
  BY <1>2 DEF PartsOf
<1> QED BY <1>1, <1>2

Stutters == UNCHANGED <<Phase, initialized, PartsOf(up, names)>>

(* A step that changes none of what the phase is read from is invisible.    *)
LEMMA Invisible ==
    ASSUME IInv, NEW t \in Threads, NEW l \in Labels, Goto(t, l),
           pc[t] \notin Working, l \notin Working,
           UNCHANGED <<initialized, up, names, aborted>>
    PROVE  Stutters
<1>1. \A u \in Threads : (pc'[u] \in Building <=> pc[u] \in Building)
                      /\ (pc'[u] \in Wrecking \cup {"s_unlock"}
                            <=> pc[u] \in Wrecking \cup {"s_unlock"})
  BY DEF IInv, TypeOK, Goto, Working
<1>2. /\ (\E u \in Threads : Builder(u))' <=> (\E u \in Threads : Builder(u))
      /\ (\E u \in Threads : Wrecker(u))' <=> (\E u \in Threads : Wrecker(u))
  BY <1>1 DEF Builder, Wrecker
<1>3. Phase' = Phase
  BY <1>2 DEF Phase
<1> QED BY <1>3 DEF Stutters

(* Threads that call, use the library, wait for the mutex or end.           *)
LEMMA OutsideRefines ==
    ASSUME IInv, NEW t \in Threads,
           \/ Calls(t) \/ InitLock(t) \/ ShutLock(t) \/ GetTls(t) \/ Fill(t)
           \/ UtmpLock(t) \/ UtmpUnlock(t) \/ LockMutex(t)
    PROVE  Stutters
<1> DEFINE Quiet == {"idle", "i_lock", "i_count", "s_lock", "s_count"} \cup UsePcs
<1>1. Quiet \subseteq Labels /\ \A l \in Quiet : l \notin Working
  BY DEF Working, Building, Wrecking, UsePcs, Labels, InitPcs, ShutPcs
<1>2. ASSUME NEW l \in Quiet, Goto(t, l), pc[t] \in Quiet,
             UNCHANGED <<initialized, up, names, aborted>>
      PROVE  Stutters
  BY <1>1, <1>2, Invisible
<1> USE DEF tables, ghosts
<1>3. CASE CallInit(t) \/ CallShutdown(t) \/ CallStat(t) \/ CallLockMutex(t) \/ CallUnlockMutex(t)
  <2>1. /\ \E l \in Quiet : Goto(t, l)
        /\ pc[t] \in Quiet /\ UNCHANGED <<initialized, up, names, aborted>>
    BY <1>3
    DEF CallInit, CallShutdown, CallStat, CallLockMutex, CallUnlockMutex, NamedLabel, UsePcs
  <2> QED BY <1>2, <2>1
<1>4. CASE ThreadExit(t) \/ ProcessExit(t)
  <2>1. UNCHANGED <<pc, initialized, up, names, aborted>>
    BY <1>4 DEF ThreadExit, ProcessExit
  <2>2. Phase' = Phase
    <3>1. /\ (\E u \in Threads : Builder(u))' <=> (\E u \in Threads : Builder(u))
          /\ (\E u \in Threads : Wrecker(u))' <=> (\E u \in Threads : Wrecker(u))
      BY <2>1 DEF Builder, Wrecker
    <3> QED BY <2>1, <3>1 DEF Phase
  <2> QED BY <2>1, <2>2 DEF Stutters
<1>5. CASE InitLock(t) \/ ShutLock(t)
  <2>1. /\ \E l \in Quiet : Goto(t, l)
        /\ pc[t] \in Quiet /\ UNCHANGED <<initialized, up, names, aborted>>
    BY <1>5 DEF InitLock, ShutLock, GlobalLock
  <2> QED BY <1>2, <2>1
<1>6. CASE GetTls(t) \/ Fill(t) \/ UtmpLock(t) \/ UtmpUnlock(t) \/ LockMutex(t)
  <2>1. /\ \E l \in Quiet : Goto(t, l)
        /\ pc[t] \in Quiet /\ UNCHANGED <<initialized, up, names, aborted>>
    BY <1>6, InputsAssumption
    DEF GetTls, Fill, UtmpLock, UtmpUnlock, LockMutex, NamedLabel, Back, UsePcs
  <2> QED BY <1>2, <2>1
<1> QED BY <1>3, <1>4, <1>5, <1>6 DEF Calls

(* initialized++ : the first reference, or one more of a library that is up.*)
LEMMA InitCountRefines ==
    ASSUME IInv, IInv', NEW t \in Threads, InitCount(t)
    PROVE  Implements!FirstRef \/ Implements!AddRef
<1> DEFINE l == IF initialized # 0 THEN "i_unlock" ELSE "i_size"
<1>1. /\ Goto(t, l) /\ pc[t] = "i_count" /\ l \in Labels /\ pc[t] \in Inside
      /\ UNCHANGED <<names, up, aborted, refs>>
  BY DEF InitCount, Labels, Inside, InitPcs, ghosts
<1>2. /\ aborted = 0 /\ TypeOK /\ pc'[t] = l
      /\ Phase = PhaseAt(pc[t], initialized) /\ Phase' = PhaseAt(l, initialized')
      /\ \A u \in Threads \ {t} : pc[u] \notin Inside
  BY <1>1, OnlyWorker, Facts
<1>3. initialized' = initialized + 1
  <2>1. Cardinality(Counted)' = Cardinality(Counted) + 1 /\ Cardinality(Counted) \in Nat
    BY <1>1, <1>2, Move DEF CountedPcs, InitPcs
  <2> QED BY <1>1, <1>2, <2>1 DEF IInv, CounterCounts, TypeOK
<1>4. CASE initialized = 0
  <2>1. Phase = "down" /\ Phase' = "building" /\ initialized' = 1
    BY <1>1, <1>2, <1>3, <1>4 DEF PhaseAt, Building, Wrecking
  <2>2. Down
    BY <1>1, <1>2, <1>4 DEF IInv, Staging, Inside, Building, Wrecking, InitPcs, ShutPcs
  <2>3. PartsOf(up, names) = {} /\ PartsOf(up, names)' = PartsOf(up, names)
    BY <1>1, <2>2 DEF Down, PartsOf
  <2> QED BY <2>1, <2>3 DEF Implements!FirstRef
<1>5. CASE initialized # 0
  <2>1. Phase = "up" /\ Phase' = "up"
    BY <1>1, <1>2, <1>3, <1>5 DEF PhaseAt, Building, Wrecking, TypeOK
  <2>2. PartsOf(up, names)' = PartsOf(up, names)
    BY <1>1
  <2> QED BY <1>3, <2>1, <2>2 DEF Implements!AddRef
<1> QED BY <1>4, <1>5

(* A turn of the loop that adds up glob_size cannot be seen.                *)
LEMMA InitSizeRefines ==
    ASSUME IInv, NEW t \in Threads, InitSize(t)
    PROVE  Stutters
<1> DEFINE l == IF LastSize(idx[t]) THEN "i_locks" ELSE "i_size"
<1>1. /\ Goto(t, l) /\ pc[t] = "i_size" /\ l \in Labels /\ pc[t] \in Inside
      /\ UNCHANGED <<initialized, names, up, aborted>>
  BY DEF IInv, TypeOK, InitSize, Goto, Labels, Inside, InitPcs, ghosts
<1>2. /\ aborted = 0
      /\ Phase = PhaseAt(pc[t], initialized) /\ Phase' = PhaseAt(l, initialized')
  BY <1>1, OnlyWorker
<1>3. Phase' = Phase
  BY <1>1, <1>2 DEF PhaseAt, Building
<1> QED BY <1>1, <1>3 DEF Stutters

(* An early return of sg_comp_init(), with what it had built by then.       *)
LEMMA EarlyReturnRefines ==
    ASSUME IInv, IInv', NEW t \in Threads, NEW code, ReturnEarly(t, code),
           pc[t] \in Building, initialized' = initialized, up \subseteq up',
           names \subseteq RequiredNames
    PROVE  Implements!BuildFails
<1>1. Goto(t, "idle") /\ aborted' = 1 /\ names' = names /\ "idle" \in Labels
      /\ pc[t] \in Inside
  BY DEF ReturnEarly, Labels, Building, Inside, InitPcs, ShutPcs
<1>2. Phase = "building" /\ Phase' = "stuck"
  BY <1>1, OnlyWorker DEF PhaseAt
<1>3. \E ps \in SUBSET PartsOf(Comps, RequiredNames) :
          PartsOf(up', names') = PartsOf(up, names) \cup ps
  <2>1. up' \subseteq Comps /\ names' \subseteq RequiredNames /\ names \subseteq names'
    BY <1>1 DEF IInv, TypeOK
  <2> QED BY <2>1, PartsMove
<1> QED BY <1>2, <1>3 DEF Implements!BuildFails

(* The table of mutexes gets its first entry.                               *)
LEMMA InitLocksRefines ==
    ASSUME IInv, IInv', NEW t \in Threads, InitLocks(t)
    PROVE  Implements!BuildFails \/ Implements!BuildParts
<1>1. /\ pc[t] = "i_locks" /\ pc[t] \in Building /\ pc[t] \in Inside
      /\ UNCHANGED <<initialized, up>> /\ names = {}
  BY DEF InitLocks, Building, Inside, InitPcs, IInv, Staging, Stage
<1>2. CASE ReturnEarly(t, "MALLOC")
  BY <1>1, <1>2, EarlyReturnRefines
<1>3. CASE names' = {"statgrab"} /\ Goto(t, "i_comp") /\ UNCHANGED aborted
  <2>1. "i_comp" \in Labels
    BY DEF Labels, InitPcs
  <2>2. Phase = "building" /\ Phase' = "building"
    BY <1>1, <1>3, <2>1, OnlyWorker DEF PhaseAt, Building
  <2>3. names' \subseteq RequiredNames
    BY <1>3 DEF RequiredNames
  <2>4. \E ps \in SUBSET PartsOf(Comps, RequiredNames) :
            PartsOf(up', names') = PartsOf(up, names) \cup ps
    <3>1. up' \subseteq Comps /\ up \subseteq up' /\ names \subseteq names'
      BY <1>1 DEF IInv, TypeOK
    <3> QED BY <2>3, <3>1, PartsMove
  <2> QED BY <1>1, <2>2, <2>4 DEF Implements!BuildParts
<1> QED BY <1>2, <1>3 DEF InitLocks

(* The names known before the last component are names the library needs.   *)
LEMMA NamesBelow ==
    ASSUME NEW i \in Comps
    PROVE  NamesUpTo(i - 1) \subseteq RequiredNames /\ NamesUpTo(i) \subseteq RequiredNames
BY DEF NamesUpTo, RequiredNames

(* A turn of the loop over comp_info builds a component and its mutexes.    *)
LEMMA InitCompRefines ==
    ASSUME IInv, IInv', NEW t \in Threads, InitComp(t)
    PROVE  Implements!BuildFails \/ Implements!BuildParts
<1>1. /\ pc[t] = "i_comp" /\ pc[t] \in Building /\ pc[t] \in Inside
      /\ UNCHANGED initialized /\ up \subseteq up'
      /\ idx[t] \in Comps /\ names = NamesUpTo(idx[t] - 1)
  BY DEF InitComp, Building, Inside, InitPcs, IInv, Staging, Stage
<1>2. ASSUME NEW code, ReturnEarly(t, code) PROVE Implements!BuildFails
  BY <1>1, <1>2, NamesBelow, EarlyReturnRefines
<1>3. CASE /\ names' = names \cup ((IF idx[t] \in NeedsUtmp THEN {"utmp"} ELSE {}) \ names)
           /\ pc' = pc \/ Goto(t, "i_mutex")
           /\ UNCHANGED aborted
  <2>1. PICK l \in {"i_comp", "i_mutex"} : Goto(t, l)
    BY <1>1, <1>3 DEF Goto, IInv, TypeOK
  <2>2. l \in Labels
    BY DEF Labels, InitPcs
  <2>3. Phase = "building" /\ Phase' = "building"
    BY <1>1, <1>3, <2>1, <2>2, OnlyWorker DEF PhaseAt, Building
  <2>4. names \subseteq names' /\ names' \subseteq RequiredNames
    BY <1>1, <1>3, NamesBelow, NamesGrow
  <2>5. \E ps \in SUBSET PartsOf(Comps, RequiredNames) :
            PartsOf(up', names') = PartsOf(up, names) \cup ps
    <3>1. up' \subseteq Comps
      BY DEF IInv, TypeOK
    <3> QED BY <1>1, <2>4, <3>1, PartsMove
  <2> QED BY <1>1, <2>3, <2>5 DEF Implements!BuildParts
<1> QED BY <1>2, <1>3 DEF InitComp

(* The mutexes are initialised, and the library is complete.                *)
LEMMA InitMutexesRefines ==
    ASSUME IInv, IInv', NEW t \in Threads, InitMutexes(t)
    PROVE  Implements!BuildFails \/ Implements!BuildDone
<1>1. /\ pc[t] = "i_mutex" /\ pc[t] \in Building /\ pc[t] \in Inside
      /\ UNCHANGED <<initialized, up>> /\ initialized = 1
      /\ names = RequiredNames /\ Comps \ MayFail \subseteq up
  BY DEF InitMutexes, Building, Inside, InitPcs, IInv, Staging, Stage
<1>2. CASE ReturnEarly(t, "INITIALISATION")
  BY <1>1, <1>2, EarlyReturnRefines
<1>3. CASE Goto(t, "i_unlock") /\ UNCHANGED <<names, aborted>>
  <2>1. "i_unlock" \in Labels
    BY DEF Labels, InitPcs
  <2>2. Phase = "building" /\ Phase' = "up"
    BY <1>1, <1>3, <2>1, OnlyWorker DEF PhaseAt, Building, Wrecking
  <2>3. PartsOf(Comps, RequiredNames) \ PartsOf(MayFail, {}) \subseteq PartsOf(up, names)
    BY <1>1 DEF PartsOf
  <2>4. UNCHANGED PartsOf(up, names)
    BY <1>1, <1>3
  <2> QED BY <1>1, <2>2, <2>3, <2>4 DEF Implements!BuildDone
<1> QED BY <1>2, <1>3 DEF InitMutexes

(* sg_init() returns, and the library is as it was.                         *)
LEMMA InitUnlockRefines ==
    ASSUME IInv, NEW t \in Threads, InitUnlock(t)
    PROVE  Stutters
<1>1. /\ pc[t] = "i_unlock" /\ pc[t] \in Inside /\ pc[t] \in CountedPcs
      /\ Goto(t, "idle") /\ "idle" \in Labels
      /\ UNCHANGED <<initialized, up, names, aborted>>
  BY DEF InitUnlock, Return, Inside, CountedPcs, InitPcs, Labels, tables
<1>2. initialized # 0
  BY <1>1, Facts
<1>3. Phase = "up" /\ Phase' = "up"
  BY <1>1, <1>2, OnlyWorker DEF PhaseAt, Building, Wrecking
<1> QED BY <1>1, <1>3 DEF Stutters

(* --initialized : one reference less, and the last one begins to tear down.*)
LEMMA ShutCountRefines ==
    ASSUME IInv, IInv', NEW t \in Threads, ShutCount(t)
    PROVE  Implements!DropRef
<1> DEFINE l == IF initialized' = 0 THEN "s_size" ELSE "s_unlock"
<1>1. /\ pc[t] = "s_count" /\ pc[t] \in Inside /\ pc[t] \in CountedPcs
      /\ Goto(t, l) /\ l \in Labels
      /\ UNCHANGED <<up, names, refs, aborted>>
  BY DEF ShutCount, LastReference, Inside, CountedPcs, ShutPcs, Labels, tables, ghosts
<1>2. /\ aborted = 0 /\ TypeOK
      /\ Phase = PhaseAt(pc[t], initialized) /\ Phase' = PhaseAt(l, initialized')
  BY <1>1, OnlyWorker
<1>3. initialized' = initialized - 1 /\ initialized # 0 /\ initialized \in Nat
  <2>1. Cardinality(Counted)' = Cardinality(Counted) - 1 /\ Cardinality(Counted) \in Nat
    BY <1>1, <1>2, Move DEF CountedPcs, InitPcs
  <2>2. initialized # 0
    BY <1>1, Facts
  <2> QED BY <1>1, <1>2, <2>1, <2>2 DEF IInv, CounterCounts, TypeOK
<1>4. Phase = "up" /\ Phase' = IF initialized = 1 THEN "tearing" ELSE "up"
  BY <1>1, <1>2, <1>3 DEF PhaseAt, Building, Wrecking
<1>5. UNCHANGED PartsOf(up, names)
  BY <1>1
<1> QED BY <1>3, <1>4, <1>5 DEF Implements!DropRef

(* No name enters the table that the components do not ask for; unlike the  *)
(* stages of IInv this also holds while the library is torn down.           *)
Known == names \subseteq RequiredNames

(* Every step keeps the names to those.                                     *)
LEMMA KnownInductive == IInv /\ Known /\ [Next]_vars => Known'
<1> SUFFICES ASSUME IInv, Known, [Next]_vars, names' # names PROVE Known'
  BY DEF Known
<1>1. ~UNCHANGED vars
  BY DEF vars, tables
<1>2. PICK t \in Threads : Calls(t) \/ Steps(t)
  BY <1>1 DEF Next
<1>3. ~Calls(t)
  BY DEF Calls, CallInit, CallShutdown, CallStat, CallLockMutex, CallUnlockMutex, ThreadExit,
         ProcessExit, tables
<1>4. InitLocks(t) \/ InitComp(t) \/ ShutFree(t)
  BY <1>2, <1>3
  DEF Steps, InitLock, ShutLock, GlobalLock, InitCount, InitSize, InitMutexes, ReturnEarly,
      InitUnlock, ShutCount, ShutSize, ShutComp, ShutUnlock, GetTls, Fill, UtmpLock,
      UtmpUnlock, LockMutex, tables
<1>5. CASE InitLocks(t) \/ ShutFree(t)
  BY <1>5 DEF InitLocks, ReturnEarly, ShutFree, NamesLeft, Known, RequiredNames
<1>6. CASE InitComp(t)
  BY <1>6 DEF InitComp, ReturnEarly, Known, RequiredNames
<1> QED BY <1>4, <1>5, <1>6

(* The steps of the teardown, down to the return of sg_shutdown().          *)
LEMMA TeardownRefines ==
    ASSUME IInv, Known, NEW t \in Threads, ShutSize(t) \/ ShutComp(t) \/ ShutFree(t)
    PROVE  Implements!DestroyParts
<1>1. PICK l \in {"s_comp", "s_free", "s_unlock"} : Goto(t, l)
  BY DEF ShutSize, ShutComp, ShutFree, Goto, IInv, TypeOK
<1>2. /\ pc[t] \in Wrecking /\ pc[t] \in Inside /\ l \in Labels
      /\ UNCHANGED <<initialized, aborted>> /\ up' \subseteq up
      /\ names' \subseteq names
  BY DEF ShutSize, ShutComp, ShutFree, NamesLeft, Wrecking, Inside, ShutPcs, Labels, ghosts
<1>3. initialized = 0
  BY <1>2 DEF IInv, Staging, Stage
<1>4. Phase = "tearing" /\ Phase' = "tearing"
  BY <1>1, <1>2, <1>3, OnlyWorker DEF PhaseAt, Building, Wrecking
<1>5. \E ps \in SUBSET PartsOf(Comps, RequiredNames) :
          PartsOf(up', names') = PartsOf(up, names) \ ps
  <2>1. up \subseteq Comps /\ names \subseteq RequiredNames
    BY DEF IInv, TypeOK, Known
  <2> QED BY <1>2, <2>1, PartsMove
<1> QED BY <1>2, <1>4, <1>5 DEF Implements!DestroyParts

(* sg_shutdown() returns: the library is down, or still up.                 *)
LEMMA ShutUnlockRefines ==
    ASSUME IInv, NEW t \in Threads, ShutUnlock(t)
    PROVE  Implements!TearDone \/ Stutters
<1>1. /\ pc[t] = "s_unlock" /\ pc[t] \in Inside
      /\ Goto(t, "idle") /\ "idle" \in Labels
      /\ UNCHANGED <<initialized, up, names, aborted>>
  BY DEF ShutUnlock, Return, Inside, ShutPcs, Labels, tables, ghosts
<1>2. /\ aborted = 0
      /\ Phase = PhaseAt(pc[t], initialized) /\ Phase' = PhaseAt("idle", initialized)
      /\ \A u \in Threads \ {t} : pc[u] \notin Inside
  BY <1>1, OnlyWorker, Facts
<1>3. CASE initialized = 0
  <2>1. Phase = "tearing" /\ Phase' = "down"
    BY <1>1, <1>2, <1>3 DEF PhaseAt, Building, Wrecking
  <2>2. Down
    BY <1>1, <1>2, <1>3 DEF IInv, Staging, Inside, Building, Wrecking, InitPcs, ShutPcs
  <2>3. PartsOf(up, names) = {} /\ UNCHANGED PartsOf(up, names)
    BY <1>1, <2>2 DEF Down, PartsOf
  <2> QED BY <1>1, <2>1, <2>3 DEF Implements!TearDone
<1>4. CASE initialized # 0
  <2>1. Phase = "up" /\ Phase' = "up"
    BY <1>1, <1>2, <1>4 DEF PhaseAt, Building, Wrecking
  <2> QED BY <1>1, <2>1 DEF Stutters
<1> QED BY <1>3, <1>4

(* Every step of the component manager is one of RefCounted, or none.       *)
LEMMA StepRefines == IInv /\ IInv' /\ Known /\ [Next]_vars => [Implements!RNext]_Implements!rvars
<1> SUFFICES ASSUME IInv, IInv', Known, [Next]_vars PROVE Implements!RNext \/ Stutters
  BY DEF Stutters, Implements!rvars
<1>1. CASE UNCHANGED vars
  <2>1. UNCHANGED <<pc, initialized, up, names, aborted>>
    BY <1>1 DEF vars, tables, ghosts
  <2>2. /\ (\E u \in Threads : Builder(u))' <=> (\E u \in Threads : Builder(u))
        /\ (\E u \in Threads : Wrecker(u))' <=> (\E u \in Threads : Wrecker(u))
    BY <2>1 DEF Builder, Wrecker
  <2>3. Phase' = Phase
    BY <2>1, <2>2 DEF Phase
  <2> QED BY <2>1, <2>3 DEF Stutters
<1>2. ASSUME NEW t \in Threads, Calls(t) PROVE Stutters
  BY <1>2, OutsideRefines
<1>3. ASSUME NEW t \in Threads, Steps(t) PROVE Implements!RNext \/ Stutters
  <2>1. CASE \/ InitLock(t) \/ ShutLock(t) \/ GetTls(t) \/ Fill(t) \/ UtmpLock(t)
             \/ UtmpUnlock(t) \/ LockMutex(t) \/ InitSize(t) \/ InitUnlock(t)
    BY <2>1, OutsideRefines, InitSizeRefines, InitUnlockRefines
  <2>2. CASE InitCount(t) \/ InitLocks(t) \/ InitComp(t) \/ InitMutexes(t)
    BY <2>2, InitCountRefines, InitLocksRefines, InitCompRefines, InitMutexesRefines
    DEF Implements!RNext
  <2>3. CASE ShutCount(t) \/ ShutSize(t) \/ ShutComp(t) \/ ShutFree(t) \/ ShutUnlock(t)
    BY <2>3, ShutCountRefines, TeardownRefines, ShutUnlockRefines DEF Implements!RNext
  <2> QED BY <1>3, <2>1, <2>2, <2>3 DEF Steps
<1> QED BY <1>1, <1>2, <1>3 DEF Next

(* The beginning is a library that is down.                                 *)
LEMMA InitRefines == Init => Implements!RInit /\ Known
<1> SUFFICES ASSUME Init PROVE Implements!RInit /\ Known
  OBVIOUS
<1>1. /\ initialized = 0 /\ aborted = 0 /\ up = {} /\ names = {}
      /\ \A t \in Threads : pc[t] = "idle"
  BY DEF Init
<1>2. ~(\E t \in Threads : Builder(t)) /\ ~(\E t \in Threads : Wrecker(t))
  BY <1>1 DEF Builder, Wrecker, Building, Wrecking
<1>3. Phase = "down"
  BY <1>1, <1>2 DEF Phase
<1>4. PartsOf(up, names) = {}
  BY <1>1 DEF PartsOf
<1> QED BY <1>1, <1>3, <1>4 DEF Implements!RInit, Known

(* sg_comp_init() and sg_comp_destroy(), with all their threads, mutexes,   *)
(* tables and early returns, implement the reference-counted library:       *)
(* nobody sees it half built, it is torn down by the return of the last     *)
(* reference and of no other, and it is rebuilt only from nothing.          *)
THEOREM Refinement == Spec => RefCountedSpec
<1>1. Spec => []Known
  BY InitRefines, KnownInductive, InvariantHolds, PTL DEF Spec
<1> QED BY <1>1, InitRefines, StepRefines, InvariantHolds, PTL
        DEF Spec, RefCountedSpec, Implements!RSpec

----------------------------------------------------------------------------
(* What sg_comp_init() has noted in errc while it goes through comp_info.   *)
Noting ==
    \A t \in Threads :
        /\ pc[t] \in {"i_lock", "i_count"} => idx[t] = 0
        /\ pc[t] \in {"i_lock", "i_count", "i_size", "i_locks"} => errc[t] = "NONE"
        /\ pc[t] = "i_comp" => /\ up \subseteq 1..(idx[t] - 1)
                               /\ errc[t] = "NONE" <=> 1..(idx[t] - 1) \subseteq up
        /\ pc[t] = "i_mutex" \/ (pc[t] = "i_unlock" /\ idx[t] # 0) =>
             (errc[t] = "NONE" <=> up = Comps)

(* The steps that change neither the components nor what a thread inside    *)
(* sg_comp_init() has noted.                                                *)
LEMMA NotingElsewhere ==
    ASSUME TypeOK, Noting, NEW t \in Threads, NEW l, Goto(t, l),
           l \notin InitPcs \/ (l = "i_lock" /\ idx'[t] = 0 /\ errc'[t] = "NONE")
                            \/ (l = "i_count" /\ pc[t] = "i_lock" /\ UNCHANGED <<idx, errc>>)
                            \/ (l = "i_unlock" /\ pc[t] = "i_count" /\ UNCHANGED idx),
           \A u \in Threads \ {t} : idx'[u] = idx[u] /\ errc'[u] = errc[u],
           up' = up \/ \A u \in Threads \ {t} : pc[u] \notin Inside
    PROVE  Noting'
<1>1. pc'[t] = l /\ \A u \in Threads \ {t} : pc'[u] = pc[u]
  BY DEF TypeOK, Goto
<1>2. ASSUME NEW u \in Threads \ {t}
      PROVE  /\ pc'[u] \in {"i_lock", "i_count"} => idx'[u] = 0
             /\ pc'[u] \in {"i_lock", "i_count", "i_size", "i_locks"} => errc'[u] = "NONE"
             /\ pc'[u] = "i_comp" => /\ up' \subseteq 1..(idx'[u] - 1)
                                     /\ errc'[u] = "NONE" <=> 1..(idx'[u] - 1) \subseteq up'
             /\ pc'[u] = "i_mutex" \/ (pc'[u] = "i_unlock" /\ idx'[u] # 0) =>
                  (errc'[u] = "NONE" <=> up' = Comps)
  BY <1>1 DEF Noting, Inside, InitPcs
<1>3. /\ pc'[t] \in {"i_lock", "i_count"} => idx'[t] = 0
      /\ pc'[t] \in {"i_lock", "i_count", "i_size", "i_locks"} => errc'[t] = "NONE"
      /\ pc'[t] # "i_comp" /\ pc'[t] # "i_mutex" /\ (pc'[t] = "i_unlock" => idx'[t] = 0)
  BY <1>1 DEF Noting, InitPcs
<1> QED BY <1>2, <1>3 DEF Noting

(* A step of the thread that builds: only its own note matters.             *)
LEMMA NotingHere ==
    ASSUME IInv, Noting, NEW t \in Threads, NEW l, Goto(t, l), pc[t] \in Inside,
           \A u \in Threads \ {t} : idx'[u] = idx[u] /\ errc'[u] = errc[u],
           l \notin {"i_lock", "i_count"},
           l \in {"i_size", "i_locks"} => errc'[t] = "NONE",
           l = "i_comp" => /\ up' \subseteq 1..(idx'[t] - 1)
                           /\ errc'[t] = "NONE" <=> 1..(idx'[t] - 1) \subseteq up',
           l \in {"i_mutex", "i_unlock"} => (errc'[t] = "NONE" <=> up' = Comps)
    PROVE  Noting'
<1>1. pc'[t] = l /\ \A u \in Threads \ {t} : pc'[u] = pc[u]
  BY DEF IInv, TypeOK, Goto
<1>2. \A u \in Threads \ {t} : pc[u] \notin Inside
  BY Facts
<1> QED BY <1>1, <1>2 DEF Noting, Inside, InitPcs

(* The note is kept by every step.                                          *)
LEMMA NotingInductive == IInv /\ Noting /\ [Next]_vars => Noting'
<1> SUFFICES ASSUME IInv, Noting, [Next]_vars PROVE Noting'
  OBVIOUS
<1>1. TypeOK
  BY DEF IInv
<1>2. CASE UNCHANGED vars
  BY <1>2 DEF vars, tables, locals, Noting
<1>3. ASSUME NEW t \in Threads, Calls(t) \/ Steps(t) PROVE Noting'
  <2> USE DEF tables, locals, ghosts
  <2>1. CASE CallInit(t) \/ CallShutdown(t) \/ CallStat(t) \/ CallLockMutex(t) \/ CallUnlockMutex(t)
    BY <1>1, <2>1, NotingElsewhere
    DEF CallInit, CallShutdown, CallStat, CallLockMutex, CallUnlockMutex, NamedLabel, SetIdx,
        TypeOK, InitPcs
  <2>2. CASE ThreadExit(t) \/ ProcessExit(t)
    BY <2>2 DEF ThreadExit, ProcessExit, Noting
  <2>3. CASE InitLock(t) \/ ShutLock(t)
    BY <1>1, <2>3, NotingElsewhere DEF InitLock, ShutLock, GlobalLock, InitPcs
  <2>4. CASE GetTls(t) \/ Fill(t) \/ UtmpLock(t) \/ UtmpUnlock(t) \/ LockMutex(t)
    <3>1. /\ \E l \in {"idle"} \cup UsePcs : Goto(t, l)
          /\ UNCHANGED <<up, idx, errc>>
      BY <2>4 DEF GetTls, Fill, UtmpLock, UtmpUnlock, LockMutex, Back, UsePcs
    <3> QED BY <1>1, <3>1, NotingElsewhere DEF UsePcs, InitPcs
  <2>5. CASE ShutCount(t) \/ ShutSize(t) \/ ShutComp(t) \/ ShutFree(t)
    <3>1. /\ \E l \in ShutPcs : Goto(t, l)
          /\ pc[t] \in Inside /\ UNCHANGED errc
          /\ \A u \in Threads \ {t} : idx'[u] = idx[u]
      BY <1>1, <2>5
      DEF ShutCount, ShutSize, ShutComp, ShutFree, SetIdx, Goto, TypeOK, Inside, ShutPcs
    <3>2. \A u \in Threads \ {t} : pc[u] \notin Inside
      BY <3>1, Facts
    <3> QED BY <1>1, <3>1, <3>2, NotingElsewhere DEF ShutPcs, InitPcs
  <2>6. CASE InitUnlock(t) \/ ShutUnlock(t)
    BY <1>1, <2>6, NotingElsewhere
    DEF InitUnlock, ShutUnlock, Return, SetIdx, TypeOK, InitPcs
  <2>7. CASE InitCount(t)
    <3>1. CASE initialized # 0
      BY <1>1, <2>7, <3>1, NotingElsewhere DEF InitCount
    <3>2. CASE initialized = 0
      <4>1. /\ Goto(t, "i_size") /\ pc[t] = "i_count" /\ pc[t] \in Inside /\ errc' = errc
            /\ \A u \in Threads \ {t} : idx'[u] = idx[u]
        BY <1>1, <2>7, <3>2 DEF InitCount, SetIdx, TypeOK, Inside, InitPcs
      <4> QED BY <4>1, NotingHere DEF Noting
    <3> QED BY <3>1, <3>2
  <2>8. CASE InitSize(t)
    <3>1. PICK l \in {"i_size", "i_locks"} : Goto(t, l)
      BY <1>1, <2>8 DEF InitSize, Goto, TypeOK
    <3>2. /\ pc[t] = "i_size" /\ pc[t] \in Inside /\ errc' = errc
          /\ \A u \in Threads \ {t} : idx'[u] = idx[u]
      BY <1>1, <2>8 DEF InitSize, SetIdx, TypeOK, Inside, InitPcs
    <3> QED BY <3>1, <3>2, NotingHere DEF Noting
  <2>9. ASSUME NEW code, ReturnEarly(t, code), pc[t] \in Building PROVE Noting'
    <3>1. /\ Goto(t, "idle") /\ idx' = idx
          /\ \A u \in Threads \ {t} : errc'[u] = errc[u]
      BY <1>1, <2>9 DEF ReturnEarly, TypeOK
    <3>2. pc[t] \in Inside
      BY <2>9 DEF Building, Inside, InitPcs
    <3> QED BY <3>1, <3>2, NotingHere
  <2>10. CASE InitLocks(t)
    <3>1. pc[t] = "i_locks" /\ pc[t] \in Inside /\ pc[t] \in Building /\ up' = up
      BY <2>10 DEF InitLocks, Inside, InitPcs, Building
    <3>2. up = {} /\ idx[t] = 1 /\ errc[t] = "NONE" /\ 1..0 = {}
      BY <3>1 DEF IInv, Staging, Stage, Noting
    <3>3. CASE Goto(t, "i_comp") /\ UNCHANGED <<idx, errc>>
      BY <3>1, <3>2, <3>3, NotingHere
    <3> QED BY <2>9, <2>10, <3>1, <3>3 DEF InitLocks
  <2>11. CASE InitComp(t)
    <3> DEFINE c == idx[t]
    <3>1. pc[t] = "i_comp" /\ pc[t] \in Inside /\ pc[t] \in Building /\ c \in Comps
      BY <2>11 DEF InitComp, Inside, InitPcs, Building, IInv, Staging, Stage
    <3>2. PICK failed \in BOOLEAN :
            /\ up' = IF failed THEN up ELSE up \cup {c}
            /\ \/ \E code \in {"COMPONENT", "MALLOC"} : ReturnEarly(t, code)
               \/ /\ errc' = [errc EXCEPT ![t] = Noted(@, failed)]
                  /\ IF c < N THEN SetIdx(t, c + 1) /\ UNCHANGED pc
                              ELSE UNCHANGED idx /\ Goto(t, "i_mutex")
      BY <2>11 DEF InitComp
    <3>3. CASE /\ errc' = [errc EXCEPT ![t] = Noted(@, failed)]
               /\ IF c < N THEN SetIdx(t, c + 1) /\ UNCHANGED pc
                           ELSE UNCHANGED idx /\ Goto(t, "i_mutex")
      <4>1. 1..c = 1..(c - 1) \cup {c} /\ c \notin 1..(c - 1)
        BY <3>1, NAssumption DEF Comps
      <4>2. up \subseteq 1..(c - 1) /\ (errc[t] = "NONE" <=> 1..(c - 1) \subseteq up)
        BY <3>1 DEF Noting
      <4>3. up' \subseteq 1..c /\ (errc'[t] = "NONE" <=> 1..c \subseteq up')
        BY <1>1, <3>2, <3>3, <4>1, <4>2 DEF TypeOK, Noted
      <4>4. \A u \in Threads \ {t} : idx'[u] = idx[u] /\ errc'[u] = errc[u]
        BY <1>1, <3>3 DEF TypeOK, SetIdx
      <4>5. CASE c < N
        <5>1. Goto(t, "i_comp") /\ idx'[t] - 1 = c
          BY <1>1, <3>1, <3>3, <4>5, NAssumption DEF SetIdx, Goto, TypeOK, Comps
        <5> QED BY <3>1, <4>3, <4>4, <5>1, NotingHere
      <4>6. CASE ~(c < N)
        <5>1. Goto(t, "i_mutex") /\ 1..c = Comps
          BY <3>1, <3>3, <4>6, NAssumption DEF Comps
        <5> QED BY <3>1, <4>3, <4>4, <5>1, NotingHere
      <4> QED BY <4>5, <4>6
    <3> QED BY <2>9, <3>1, <3>2, <3>3
  <2>12. CASE InitMutexes(t)
    <3>1. pc[t] = "i_mutex" /\ pc[t] \in Inside /\ pc[t] \in Building /\ up' = up
      BY <2>12 DEF InitMutexes, Inside, InitPcs, Building
    <3>2. CASE Goto(t, "i_unlock") /\ UNCHANGED <<idx, errc>>
      <4>1. errc[t] = "NONE" <=> up = Comps
        BY <3>1 DEF Noting
      <4> QED BY <3>1, <3>2, <4>1, NotingHere
    <3> QED BY <2>9, <2>12, <3>1, <3>2 DEF InitMutexes
  <2> QED BY <1>3, <2>1, <2>2, <2>3, <2>4, <2>5, <2>6, <2>7, <2>8, <2>10, <2>11, <2>12
      DEF Calls, Steps
<1> QED BY <1>2, <1>3 DEF Next

(* The caller for whom sg_comp_init() built the library gets SG_ERROR_NONE  *)
(* exactly if every component has started, whichever of them failed and     *)
(* however many started after it.                                           *)
THEOREM FailureHolds == Spec => FailureReported
<1>1. Init => Noting
  BY DEF Init, Noting
<1>2. Spec => []Noting
  BY <1>1, NotingInductive, InvariantHolds, PTL DEF Spec
<1>3. Noting =>
        [\A t \in Threads :
           pc[t] = "i_unlock" /\ pc'[t] = "idle" /\ idx[t] # 0
              => (errc[t] = "NONE" <=> up = Comps)]_vars
  BY DEF Noting
<1> QED BY <1>2, <1>3, PTL DEF FailureReported
=============================================================================
