------------------------------ MODULE Globals ------------------------------
(***************************************************************************)
(* The component manager of libstatgrab (src/libstatgrab/globals.c, with   *)
(* the pthread build): sg_comp_init() and sg_comp_destroy() under the      *)
(* global mutex, the table of named mutexes, the thread-local buffers, and *)
(* the calls of threads that use the library between the two.              *)
(*                                                                         *)
(* glob_size and required_locks are read WITHOUT the global mutex by       *)
(* sg_comp_get_tls() and sg_lock_mutex(); the steps below are therefore as *)
(* fine as those reads can observe.                                        *)
(*                                                                         *)
(* The application keeps the documented discipline (docs/sg_intro.xml):    *)
(* statistics are asked for after some sg_init() has returned, every       *)
(* sg_shutdown() gives back one sg_init(), and the last one is called when *)
(* no other thread is inside the library.  refs, the number of sg_init()   *)
(* calls the application has not given back, exists in no program          *)
(* variable: it is what `initialized' is meant to count.                   *)
(***************************************************************************)
EXTENDS Integers, FiniteSets

CONSTANTS
    Threads,      \* the threads of the process
    NoThread,     \* owner of a mutex nobody holds
    N,            \* lengthof(comp_info); component 1 is "error"
    NeedsUtmp,    \* components whose required_locks list "utmp"
    MayFail,      \* components whose init_fn may return an error
    IgnoreFlags,  \* values of ignore_init_errors the application passes
    AllocFails,   \* TRUE: malloc, realloc and pthread_setspecific may fail
    AppMutexes,   \* mutexes the application itself takes by name
    MaxRefs,      \* bound: sg_init() calls outstanding at one time
    UMod          \* 2^width of the C type `unsigned'

ASSUME ThreadsAssumption == IsFiniteSet(Threads) /\ NoThread \notin Threads
ASSUME NAssumption == N \in Nat \ {0}
ASSUME CompsAssumption == NeedsUtmp \subseteq 2..N /\ MayFail \subseteq 2..N
ASSUME InputsAssumption ==
    /\ IgnoreFlags \subseteq BOOLEAN /\ AllocFails \in BOOLEAN
    /\ AppMutexes \subseteq {"statgrab", "utmp"}
ASSUME BoundAssumption == MaxRefs \in Nat /\ UMod \in Nat /\ MaxRefs < UMod

VARIABLES
    globLock,     \* owner of glob_lock.mutex
    initialized,  \* static unsigned initialized
    globSize,     \* static size_t glob_size, one unit per component
    names,        \* names in required_locks[0 .. num_required_locks - 1]
    ready,        \* named mutexes whose pthread_mutex_init() has run
    mtx,          \* owner and recursion count of each named mutex
    up,           \* components whose init_fn succeeded, destroy_fn not run
    tls,          \* size of the thread's buffer under glob_key, 0 if NULL
    vecs,         \* components with live vectors in the thread's buffer
    pc, idx, ignore, errc,  \* program counter and locals of each thread
    refs,         \* sg_init() calls returned and not given back
    aborted,      \* 1 once an sg_comp_init() has returned half way
    exited        \* exit() has run the atexit() handlers

tables == <<globSize, names, ready, mtx, up>>
buffers == <<tls, vecs>>
locals == <<idx, ignore, errc>>
ghosts == <<refs, aborted, exited>>
vars == <<globLock, initialized, tables, buffers, pc, locals, ghosts>>

Comps == 1..N
MutexNames == {"statgrab", "utmp"}
Free == [owner |-> NoThread, count |-> 0]

InitPcs == {"i_lock", "i_count", "i_size", "i_locks", "i_comp", "i_mutex", "i_unlock"}
ShutPcs == {"s_lock", "s_count", "s_size", "s_comp", "s_free", "s_unlock"}
UsePcs == {"u_tls", "u_fill", "u_lock", "u_utmp", "n_statgrab", "n_utmp", "n_held"}

\* The threads inside sg_comp_init() or sg_comp_destroy().
Calling == {t \in Threads : pc[t] \in InitPcs \cup ShutPcs}

Goto(t, label) == pc' = [pc EXCEPT ![t] = label]
SetIdx(t, i) == idx' = [idx EXCEPT ![t] = i]

\* Locals are dead once their function has returned.
Return(t) ==
    /\ Goto(t, "idle") /\ SetIdx(t, 0)
    /\ ignore' = [ignore EXCEPT ![t] = TRUE]
    /\ errc' = [errc EXCEPT ![t] = "NONE"]

----------------------------------------------------------------------------
(* sg_comp_init()                                                          *)

CallInit(t) ==
    /\ pc[t] = "idle" /\ ~exited
    /\ refs + Cardinality(Calling) < MaxRefs
    /\ \E flag \in IgnoreFlags : ignore' = [ignore EXCEPT ![t] = flag]
    /\ SetIdx(t, 0) /\ errc' = [errc EXCEPT ![t] = "NONE"]
    /\ Goto(t, "i_lock")
    /\ UNCHANGED <<globLock, initialized, tables, buffers, ghosts>>

\* Mutant: the mutex keeps nobody out.
GlobalLock_NoWait(t, from, to) ==
    /\ pc[t] = from
    /\ globLock' = t
    /\ Goto(t, to)
    /\ UNCHANGED <<initialized, tables, buffers, locals, ghosts>>

\* sg_global_lock() on a PTHREAD_MUTEX_NORMAL mutex: the owner blocks on it as
\* everyone does.
GlobalLock(t, from, to) ==
    /\ pc[t] = from /\ globLock = NoThread
    /\ globLock' = t
    /\ Goto(t, to)
    /\ UNCHANGED <<initialized, tables, buffers, locals, ghosts>>

InitLock(t) == GlobalLock(t, "i_lock", "i_count")

CountUp_OnlyFirst == 1    \* mutant: nested calls are not counted
CountUp == (initialized + 1) % UMod

InitCount(t) ==
    /\ pc[t] = "i_count"
    /\ initialized' = CountUp
    /\ IF initialized # 0
       THEN Goto(t, "i_unlock") /\ UNCHANGED <<globSize, idx>>
       ELSE Goto(t, "i_size") /\ globSize' = 0 /\ SetIdx(t, 1)
    /\ UNCHANGED <<globLock, names, ready, mtx, up, buffers, ignore, errc, ghosts>>

LastSize_OneTooMany(i) == i > N    \* mutant: i <= lengthof(comp_info)
LastSize(i) == i = N

\* One turn of the loop that lays out the components' buffers.
InitSize(t) ==
    /\ pc[t] = "i_size"
    /\ globSize' = globSize + 1
    /\ IF LastSize(idx[t])
       THEN SetIdx(t, 1) /\ Goto(t, "i_locks")
       ELSE SetIdx(t, idx[t] + 1) /\ UNCHANGED pc
    /\ UNCHANGED <<globLock, initialized, names, ready, mtx, up, buffers, ignore, errc,
                   ghosts>>

\* The early returns of sg_comp_init(): the caller gets an error code, the global mutex
\* stays locked and the counter stays at 1.
ReturnEarly(t, code) ==
    /\ errc' = [errc EXCEPT ![t] = code]
    /\ aborted' = 1
    /\ Goto(t, "idle")
    /\ UNCHANGED <<idx, names, mtx>>

\* required_locks[0] is a copy of glob_lock, taken while this thread holds it.
InitLocks(t) ==
    /\ pc[t] = "i_locks"
    /\ \/ AllocFails /\ ReturnEarly(t, "MALLOC")
       \/ /\ names' = {"statgrab"}
          /\ mtx' = [mtx EXCEPT !["statgrab"] = [owner |-> t, count |-> 1]]
          /\ Goto(t, "i_comp")
          /\ UNCHANGED <<idx, errc, aborted>>
    /\ UNCHANGED <<globLock, initialized, globSize, ready, up, buffers, ignore, refs, exited>>

\* Mutant: errc follows the last component instead of any.
Noted_LastOnly(code, failed) == IF failed THEN "INITIALISATION" ELSE "NONE"
Noted(code, failed) == IF failed THEN "INITIALISATION" ELSE code

\* One turn of the loop over comp_info: init_fn, then the names the component adds to
\* required_locks.  The init_fn of "error" fetches, and so allocates, the buffer of the
\* initialising thread.
InitComp(t) ==
    /\ pc[t] = "i_comp"
    /\ \E failed \in BOOLEAN :
         LET c == idx[t]
             new == (IF c \in NeedsUtmp THEN {"utmp"} ELSE {}) \ names
             stop == failed /\ ~ignore[t]
         IN  /\ failed => c \in MayFail
             /\ up' = IF failed THEN up ELSE up \cup {c}
             /\ \/ stop /\ ReturnEarly(t, "COMPONENT")
                \/ ~stop /\ new # {} /\ AllocFails /\ ReturnEarly(t, "MALLOC")
                \/ /\ ~stop
                   /\ names' = names \cup new
                   /\ errc' = [errc EXCEPT ![t] = Noted(@, failed)]
                   /\ IF c < N
                      THEN SetIdx(t, c + 1) /\ UNCHANGED pc
                      ELSE UNCHANGED idx /\ Goto(t, "i_mutex")
                   /\ UNCHANGED <<mtx, aborted>>
             /\ IF c = 1 /\ tls[t] = 0
                THEN \E size \in {globSize} \cup (IF AllocFails THEN {0} ELSE {}) :
                        tls' = [tls EXCEPT ![t] = size]
                ELSE UNCHANGED tls
    /\ UNCHANGED <<globLock, initialized, globSize, ready, vecs, ignore, refs, exited>>

ToInitialise_None == {}    \* mutant: the loop over required_locks is missing
ToInitialise == names \ {"statgrab"}

\* Every mutex of the table but the copy of glob_lock becomes a recursive mutex.
InitMutexes(t) ==
    /\ pc[t] = "i_mutex"
    /\ \/ AllocFails /\ ReturnEarly(t, "INITIALISATION") /\ UNCHANGED ready
       \/ /\ ready' = ToInitialise
          /\ mtx' = [m \in MutexNames |-> IF m \in ToInitialise THEN Free ELSE mtx[m]]
          /\ Goto(t, "i_unlock")
          /\ UNCHANGED <<names, idx, errc, aborted>>
    /\ UNCHANGED <<globLock, initialized, globSize, up, buffers, ignore, refs, exited>>

\* Mutant: the return of a nested call forgets to unlock.
Unlocked_NestedForgets(t) == IF pc[t] = "i_unlock" /\ idx[t] = 0 THEN t ELSE NoThread
Unlocked(t) == NoThread

\* sg_global_unlock() and the return to the caller, which now holds a reference.
InitUnlock(t) ==
    /\ pc[t] = "i_unlock"
    /\ globLock' = Unlocked(t)
    /\ refs' = refs + 1
    /\ Return(t)
    /\ UNCHANGED <<initialized, tables, buffers, aborted, exited>>

----------------------------------------------------------------------------
(* sg_comp_destroy()                                                       *)

CallShutdown(t) ==
    /\ pc[t] = "idle" /\ ~exited
    /\ refs > 0
    /\ refs = 1 => \A u \in Threads : pc[u] \notin UsePcs
    /\ refs' = refs - 1
    /\ Goto(t, "s_lock")
    /\ UNCHANGED <<globLock, initialized, tables, buffers, locals, aborted, exited>>

ShutLock(t) == GlobalLock(t, "s_lock", "s_count")

LastReference_OffByOne(left) == left <= 1    \* mutant
LastReference(left) == left = 0

ShutCount(t) ==
    /\ pc[t] = "s_count"
    /\ initialized' = (initialized - 1) % UMod
    /\ Goto(t, IF LastReference(initialized') THEN "s_size" ELSE "s_unlock")
    /\ UNCHANGED <<globLock, tables, buffers, locals, ghosts>>

ShutSize(t) ==
    /\ pc[t] = "s_size"
    /\ globSize' = 0
    /\ SetIdx(t, N)
    /\ Goto(t, "s_comp")
    /\ UNCHANGED <<globLock, initialized, names, ready, mtx, up, buffers, ignore, errc,
                   ghosts>>

LastDestroyed_SkipsFirst(i) == i <= 2    \* mutant: while( --i ) never reaches comp_info[0]
LastDestroyed(i) == i = 1

\* destroy_fn of every component, last to first, the ones that failed to start too.
ShutComp(t) ==
    /\ pc[t] = "s_comp"
    /\ up' = up \ {idx[t]}
    /\ IF LastDestroyed(idx[t])
       THEN UNCHANGED idx /\ Goto(t, "s_free")
       ELSE SetIdx(t, idx[t] - 1) /\ UNCHANGED pc
    /\ UNCHANGED <<globLock, initialized, globSize, names, ready, mtx, buffers, ignore, errc,
                   ghosts>>

NamesLeft_Stale == names    \* mutant: num_required_locks is not reset
NamesLeft == {}

ShutFree(t) ==
    /\ pc[t] = "s_free"
    /\ ready' = {} /\ names' = NamesLeft
    /\ mtx' = [m \in MutexNames |-> Free]
    /\ Goto(t, "s_unlock")
    /\ UNCHANGED <<globLock, initialized, globSize, up, buffers, locals, ghosts>>

ShutUnlock(t) ==
    /\ pc[t] = "s_unlock"
    /\ globLock' = Unlocked(t)
    /\ Return(t)
    /\ UNCHANGED <<initialized, tables, buffers, ghosts>>

----------------------------------------------------------------------------
(* A thread asks for statistics, or takes a mutex by name.                 *)

\* Where a statistics call returns to: the application, which may hold "utmp" itself.
Back(t) == IF mtx["utmp"].owner = t THEN "n_held" ELSE "idle"

\* Any accessor of a component c other than "error".
CallStat(t) ==
    /\ pc[t] \in {"idle", "n_held"} /\ ~exited
    /\ refs > 0
    /\ \E c \in 2..N : SetIdx(t, c)
    /\ Goto(t, "u_tls")
    /\ UNCHANGED <<globLock, initialized, tables, buffers, ignore, errc, ghosts>>

\* sg_comp_get_tls(): glob_size is read without the global mutex.  When malloc() fails
\* the error is recorded through sg_comp_get_tls() again, until one of these calls gets the
\* buffer; that none does, and the recursion exhausts the stack, is left out.  When
\* pthread_setspecific() fails the buffer is freed again and the caller goes without.
GetTls(t) ==
    /\ pc[t] = "u_tls"
    /\ \/ /\ tls[t] # 0
          /\ Goto(t, "u_fill") /\ UNCHANGED tls
       \/ /\ tls[t] = 0 /\ globSize # 0
          /\ tls' = [tls EXCEPT ![t] = globSize]
          /\ Goto(t, "u_fill")
       \/ /\ tls[t] = 0 /\ (globSize = 0 \/ AllocFails)
          /\ \E size \in {0, globSize} : tls' = [tls EXCEPT ![t] = size]
          /\ Goto(t, Back(t))
    /\ UNCHANGED <<globLock, initialized, tables, vecs, locals, ghosts>>

\* The accessor creates the component's vector in the buffer and fills it.
Fill(t) ==
    /\ pc[t] = "u_fill"
    /\ vecs' = [vecs EXCEPT ![t] = @ \cup {idx[t]}]
    /\ Goto(t, IF idx[t] \in NeedsUtmp THEN "u_lock" ELSE Back(t))
    /\ UNCHANGED <<globLock, initialized, tables, tls, locals, ghosts>>

MayEnter_NotRecursive(m, t) == m.owner = NoThread    \* mutant
MayEnter(m, t) == m.owner \in {NoThread, t}

\* sg_lock_mutex("utmp") in sg_get_user_stats_int(), its result not looked at: a name
\* that is not in the table, or a mutex never initialised, keeps nobody out.
UtmpLock(t) ==
    /\ pc[t] = "u_lock"
    /\ \/ "utmp" \notin ready /\ UNCHANGED mtx
       \/ /\ "utmp" \in ready /\ MayEnter(mtx["utmp"], t)
          /\ mtx' = [mtx EXCEPT !["utmp"] = [owner |-> t, count |-> @.count + 1]]
    /\ Goto(t, "u_utmp")
    /\ UNCHANGED <<globLock, initialized, globSize, names, ready, up, buffers, locals, ghosts>>

Released(m) == IF m.count > 1 THEN [m EXCEPT !.count = @ - 1] ELSE Free

\* setutxent() .. endutxent() ends, by the loop's end or by one of its error returns:
\* all of them unlock.
UtmpUnlock(t) ==
    /\ pc[t] = "u_utmp"
    /\ mtx' = IF mtx["utmp"].owner = t THEN [mtx EXCEPT !["utmp"] = Released(@)] ELSE mtx
    /\ Goto(t, IF mtx'["utmp"].owner = t THEN "n_held" ELSE "idle")
    /\ UNCHANGED <<globLock, initialized, globSize, names, ready, up, buffers, locals, ghosts>>

NamedLabel(m) == IF m = "utmp" THEN "n_utmp" ELSE "n_statgrab"

\* The application calls sg_lock_mutex(m): the name is looked up, then waited for.
CallLockMutex(t) ==
    /\ pc[t] = "idle" /\ ~exited
    /\ refs > 0
    /\ \E m \in AppMutexes \cap names : Goto(t, NamedLabel(m))
    /\ UNCHANGED <<globLock, initialized, tables, buffers, locals, ghosts>>

LockMutex(t) ==
    /\ \E m \in AppMutexes :
         /\ pc[t] = NamedLabel(m)
         /\ mtx[m].owner = NoThread
         /\ mtx' = [mtx EXCEPT ![m] = [owner |-> t, count |-> 1]]
    /\ Goto(t, "n_held")
    /\ UNCHANGED <<globLock, initialized, globSize, names, ready, up, buffers, locals, ghosts>>

CallUnlockMutex(t) ==
    /\ pc[t] = "n_held"
    /\ \E m \in AppMutexes :
         mtx[m].owner = t /\ mtx' = [mtx EXCEPT ![m] = Released(@)]
    /\ Goto(t, "idle")
    /\ UNCHANGED <<globLock, initialized, globSize, names, ready, up, buffers, locals, ghosts>>

----------------------------------------------------------------------------
(* The end of a thread, and of the process.                                *)

Cleaned_NotLast == 1..(N - 1)    \* mutant: the loop before it was corrected
\* The components sg_destroy_globals() visits: while(i--) from lengthof(comp_info).
Cleaned == 1..N

DestroyGlobals(t) ==
    /\ vecs' = [vecs EXCEPT ![t] = @ \ Cleaned]
    /\ tls' = [tls EXCEPT ![t] = 0]

\* The destructor of glob_key runs when a thread that has a buffer ends; the
\* identifier then stands for the next thread the application starts.
ThreadExit(t) ==
    /\ pc[t] = "idle" /\ tls[t] # 0
    /\ DestroyGlobals(t)
    /\ UNCHANGED <<globLock, initialized, tables, pc, locals, ghosts>>

\* exit(): the handler registered by sg_comp_init() is sg_destroy_main_globals().
ProcessExit(t) ==
    /\ pc[t] = "idle" /\ ~exited
    /\ DestroyGlobals(t)
    /\ exited' = TRUE
    /\ UNCHANGED <<globLock, initialized, tables, pc, locals, refs, aborted>>

----------------------------------------------------------------------------
Init ==
    /\ globLock = NoThread /\ initialized = 0 /\ globSize = 0
    /\ names = {} /\ ready = {} /\ up = {}
    /\ mtx = [m \in MutexNames |-> Free]
    /\ tls = [t \in Threads |-> 0] /\ vecs = [t \in Threads |-> {}]
    /\ pc = [t \in Threads |-> "idle"] /\ idx = [t \in Threads |-> 0]
    /\ ignore = [t \in Threads |-> TRUE] /\ errc = [t \in Threads |-> "NONE"]
    /\ refs = 0 /\ aborted = 0 /\ exited = FALSE

\* What the application decides to do.
Calls(t) ==
    \/ CallInit(t) \/ CallShutdown(t) \/ CallStat(t) \/ CallLockMutex(t)
    \/ CallUnlockMutex(t) \/ ThreadExit(t) \/ ProcessExit(t)

\* What a thread does by itself once it is inside the library.
Steps(t) ==
    \/ InitLock(t) \/ InitCount(t) \/ InitSize(t) \/ InitLocks(t) \/ InitComp(t)
    \/ InitMutexes(t) \/ InitUnlock(t)
    \/ ShutLock(t) \/ ShutCount(t) \/ ShutSize(t) \/ ShutComp(t) \/ ShutFree(t)
    \/ ShutUnlock(t)
    \/ GetTls(t) \/ Fill(t) \/ UtmpLock(t) \/ UtmpUnlock(t) \/ LockMutex(t)

Next == \E t \in Threads : Calls(t) \/ Steps(t)

Spec == Init /\ [][Next]_vars

\* A runnable thread is eventually run; nothing is assumed of the application.
FairSpec == Spec /\ \A t \in Threads : WF_vars(Steps(t))

\* Under the most generous mutexes: a thread that waits for a mutex which is free again
\* and again does get it.
StrongSpec == Spec /\ \A t \in Threads : SF_vars(Steps(t))

----------------------------------------------------------------------------
(* Properties                                                              *)

Codes == {"NONE", "INITIALISATION", "MALLOC", "COMPONENT"}

\* The variables stay in their types.
TypeOK ==
    /\ globLock \in Threads \cup {NoThread}
    /\ initialized \in 0..(UMod - 1)
    /\ globSize \in 0..N
    /\ names \subseteq MutexNames /\ ready \subseteq names
    /\ mtx \in [MutexNames -> [owner : Threads \cup {NoThread}, count : Nat]]
    /\ up \subseteq Comps
    /\ tls \in [Threads -> 0..N]
    /\ vecs \in [Threads -> SUBSET Comps]
    /\ pc \in [Threads -> {"idle"} \cup InitPcs \cup ShutPcs \cup UsePcs]
    /\ idx \in [Threads -> 0..N]
    /\ ignore \in [Threads -> BOOLEAN]
    /\ errc \in [Threads -> Codes]
    /\ refs \in 0..MaxRefs /\ refs + Cardinality(Calling) <= MaxRefs
    /\ aborted \in {0, 1}
    /\ exited \in BOOLEAN

Inside == (InitPcs \cup ShutPcs) \ {"i_lock", "s_lock"}

\* Threads whose reference `initialized' counts although the application does not have
\* it: the ones in sg_comp_init() that have counted themselves and have not returned,
\* and the ones in sg_comp_destroy() that have not yet counted down.
CountedPcs == (InitPcs \ {"i_lock", "i_count"}) \cup {"s_lock", "s_count"}
Counted == {t \in Threads : pc[t] \in CountedPcs}

\* Everything between the lock and the unlock of sg_comp_init() and sg_comp_destroy()
\* runs with the global mutex held: two threads are never there together.
GlobalExclusion ==
    \A t \in Threads : pc[t] \in Inside => globLock = t

\* `initialized' counts exactly the references that exist: no call of sg_init() or
\* sg_shutdown() is lost or counted twice, and the counter never wraps.
CounterCounts == initialized = refs + Cardinality(Counted) + aborted

RequiredNames == {"statgrab"} \cup (IF NeedsUtmp = {} THEN {} ELSE {"utmp"})

\* The tables of the component manager are complete.
Usable ==
    /\ globSize = N
    /\ Comps \ MayFail \subseteq up
    /\ names = RequiredNames
    /\ ready = RequiredNames \ {"statgrab"}

\* While some sg_init() has not been given back, and while any thread is inside an
\* accessor or holds a named mutex, nobody builds or dismantles what sg_comp_get_tls()
\* and sg_lock_mutex() read without the global mutex.
UsableWhileReferenced ==
    refs > 0 \/ (\E t \in Threads : pc[t] \in UsePcs) => Usable

\* Nothing is left of the library.
Down == globSize = 0 /\ up = {} /\ names = {} /\ ready = {}

\* With the mutex free and no reference counted nothing is left of the library, so that
\* the next sg_init() starts from scratch.
DownMeansDown == globLock = NoThread /\ initialized = 0 => Down

Building == {"i_size", "i_locks", "i_comp", "i_mutex"}
Wrecking == {"s_size", "s_comp", "s_free"}

NamesUpTo(i) == {"statgrab"} \cup (IF NeedsUtmp \cap 1..i = {} THEN {} ELSE {"utmp"})

\* How far a thread that builds or dismantles the library has come.
Stage(t) ==
    /\ pc[t] \in Building => initialized = 1 /\ ready = {} /\ idx[t] \in Comps
    /\ pc[t] = "i_size" => globSize = idx[t] - 1
    /\ pc[t] \in {"i_size", "i_locks"} => up = {} /\ names = {}
    /\ pc[t] = "i_locks" => idx[t] = 1
    /\ pc[t] \in Building \ {"i_size"} => globSize = N
    /\ pc[t] = "i_comp" =>
         names = NamesUpTo(idx[t] - 1) /\ 1..(idx[t] - 1) \ MayFail \subseteq up
    /\ pc[t] = "i_mutex" => names = RequiredNames /\ Comps \ MayFail \subseteq up
    /\ pc[t] \in Wrecking => initialized = 0
    /\ pc[t] = "s_comp" => globSize = 0 /\ idx[t] \in Comps /\ up \subseteq 1..idx[t]
    /\ pc[t] = "s_free" => globSize = 0 /\ up = {}

\* The whole life of the library: every thread that works on the tables finds them as
\* far as its own earlier steps have brought them; between such calls they are complete
\* or gone, as the counter says; an sg_comp_init() that returned half way keeps the mutex
\* for ever; and the library is entered only by threads that may enter it.
Staging ==
    /\ \A t \in Threads : Stage(t)
    /\ aborted = 0 /\ (\A t \in Threads : pc[t] \notin Building \cup Wrecking)
         => IF initialized = 0 THEN Down ELSE Usable
    /\ aborted = 1 => /\ globLock \in Threads /\ pc[globLock] \notin Inside
                      /\ initialized = 1
    /\ \A t \in Threads : /\ pc[t] \in UsePcs => refs > 0
                          /\ pc[t] \in {"u_tls", "u_fill"} => idx[t] \in Comps
                          /\ pc[t] = "u_lock" => idx[t] \in NeedsUtmp

\* A thread's buffer holds all components: it is never allocated from a glob_size the
\* loop in sg_comp_init() is still adding up.
TlsHoldsAllComponents == \A t \in Threads : tls[t] \in {0, N}

\* A thread that ends leaves no vector behind in its buffer (sg_destroy_globals() once
\* forgot the last component, as its comment records).
NoVectorLeaks == \A t \in Threads : tls[t] = 0 => vecs[t] = {}

\* Only one thread walks the login records, and none does while the application of
\* another thread holds the mutex "utmp".
UtmpExclusive ==
    \A t, u \in Threads :
        (t # u /\ pc[t] = "u_utmp") => pc[u] # "u_utmp" /\ mtx["utmp"].owner # u

\* Components are started and stopped, and mutexes created and destroyed, only when no
\* sg_init() is outstanding.
ChangeOnlyUnreferenced ==
    [][up' # up \/ names' # names \/ ready' # ready => refs = 0]_vars

\* The caller that initialises the library is told of a component that failed, however
\* many components start after it.  (A nested sg_init() is not told: it only counts.)
FailureReported ==
    [][\A t \in Threads :
         pc[t] = "i_unlock" /\ pc'[t] = "idle" /\ idx[t] # 0
            => (errc[t] = "NONE" <=> up = Comps)]_vars

\* The global mutex is always given back.
LockReleased == \A t \in Threads : globLock = t ~> globLock # t

\* A teardown that has begun is finished.
TeardownCompletes ==
    \A t \in Threads : pc[t] = "s_size" ~> (up = {} /\ globLock # t)

\* A thread whose application holds "utmp" can still ask for the users: it does not wait
\* for itself.
UtmpReentrant ==
    \A t \in Threads : (pc[t] = "u_lock" /\ mtx["utmp"].owner = t) ~> pc[t] = "u_utmp"

\* sg_init() returns to its caller (docs/libstatgrab/sg_intro.xml:89-93).
InitReturns == \A t \in Threads : pc[t] = "i_lock" ~> pc[t] = "idle"

\* The mutex "statgrab" can be taken by name (docs/libstatgrab/sg_intro.xml:95-113).
StatgrabMutexCanBeTaken == \A t \in Threads : pc[t] = "n_statgrab" ~> pc[t] = "n_held"

----------------------------------------------------------------------------
(* sg_init() and sg_shutdown() implement RefCounted.                       *)

Builder(t) == pc[t] \in Building
Wrecker(t) == pc[t] \in Wrecking \cup {"s_unlock"} /\ initialized = 0

Phase ==
    CASE aborted = 1 -> "stuck"
      [] aborted = 0 /\ (\E t \in Threads : Builder(t)) -> "building"
      [] aborted = 0 /\ (\E t \in Threads : Wrecker(t)) -> "tearing"
      [] OTHER -> IF initialized = 0 THEN "down" ELSE "up"

\* The parts of the library: components, and named mutexes known to the table.
PartsOf(cs, ms) == ({"component"} \X cs) \cup ({"mutex"} \X ms)

Implements == INSTANCE RefCounted WITH
    Parts <- PartsOf(Comps, RequiredNames), Optional <- PartsOf(MayFail, {}),
    phase <- Phase, count <- initialized, built <- PartsOf(up, names)

\* Seen from outside, the component manager is a reference-counted library.
RefCountedSpec == Implements!RSpec
============================================================================
