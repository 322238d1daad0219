--------------------------- MODULE GlobalsProofs ---------------------------
(***************************************************************************)
(* Proofs about Globals, for any number of threads and components, any     *)
(* failures and any bound on the references.                               *)
(***************************************************************************)
EXTENDS Globals, FiniteSetTheorems, TLAPS

IInv == TypeOK /\ GlobalExclusion /\ CounterCounts /\ Staging

(* How a census of threads changes when one thread may join or leave it.   *)
LEMMA Census ==
    ASSUME NEW B \in SUBSET Threads, NEW C \in SUBSET Threads, NEW t \in Threads,
           \A u \in Threads \ {t} : u \in B <=> u \in C
    PROVE  /\ Cardinality(B) \in Nat /\ Cardinality(C) \in Nat
           /\ t \in B /\ t \notin C => Cardinality(C) = Cardinality(B) - 1
           /\ t \notin B /\ t \in C => Cardinality(C) = Cardinality(B) + 1
           /\ (t \in B <=> t \in C) => C = B
<1>1. IsFiniteSet(B) /\ IsFiniteSet(C)
  BY ThreadsAssumption, FS_Subset
<1>2. Cardinality(B) \in Nat /\ Cardinality(C) \in Nat
  BY <1>1, FS_CardinalityType
<1>3. ASSUME t \in B, t \notin C PROVE Cardinality(C) = Cardinality(B) - 1
  <2>1. C = B \ {t}
    BY <1>3
  <2> QED BY <2>1, <1>1, <1>3, FS_RemoveElement
<1>4. ASSUME t \notin B, t \in C PROVE Cardinality(C) = Cardinality(B) + 1
  <2>1. C = B \cup {t}
    BY <1>4
  <2> QED BY <2>1, <1>1, <1>4, FS_AddElement
<1> QED BY <1>2, <1>3, <1>4

(* A census that counts nobody is empty.                                   *)
LEMMA NoOne ==
    ASSUME NEW B \in SUBSET Threads, Cardinality(B) = 0
    PROVE  B = {}
BY ThreadsAssumption, FS_Subset, FS_EmptySet

(* Arithmetic of the unsigned counter while it does not wrap.              *)
LEMMA NoWrap ==
    ASSUME NEW n \in 0..(UMod - 1)
    PROVE  n % UMod = n
BY BoundAssumption

CallPcs == InitPcs \cup ShutPcs
Labels == {"idle"} \cup InitPcs \cup ShutPcs \cup UsePcs

(* What a thread's move from one label to another does to the two censuses  *)
(* the invariant speaks of.                                                 *)
LEMMA Move ==
    ASSUME TypeOK, NEW t \in Threads, NEW l \in Labels, Goto(t, l)
    PROVE  /\ Cardinality(Counted) \in Nat /\ Cardinality(Counted)' \in Nat
           /\ Cardinality(Calling) \in Nat /\ Cardinality(Calling)' \in Nat
           /\ pc[t] \in CountedPcs /\ l \notin CountedPcs
                => Cardinality(Counted)' = Cardinality(Counted) - 1
           /\ pc[t] \notin CountedPcs /\ l \in CountedPcs
                => Cardinality(Counted)' = Cardinality(Counted) + 1
           /\ (pc[t] \in CountedPcs <=> l \in CountedPcs)
                => Cardinality(Counted)' = Cardinality(Counted)
           /\ pc[t] \in CallPcs /\ l \notin CallPcs
                => Cardinality(Calling)' = Cardinality(Calling) - 1
           /\ pc[t] \notin CallPcs /\ l \in CallPcs
                => Cardinality(Calling)' = Cardinality(Calling) + 1
           /\ (pc[t] \in CallPcs <=> l \in CallPcs)
                => Cardinality(Calling)' = Cardinality(Calling)
           /\ pc' \in [Threads -> Labels]
<1>1. pc' = [pc EXCEPT ![t] = l] /\ pc \in [Threads -> Labels]
  BY DEF TypeOK, Labels, Goto
<1>2. /\ Counted \subseteq Threads /\ Counted' \subseteq Threads
      /\ t \in Counted <=> pc[t] \in CountedPcs
      /\ t \in Counted' <=> l \in CountedPcs
      /\ \A u \in Threads \ {t} : u \in Counted <=> u \in Counted'
  BY <1>1 DEF Counted
<1>3. /\ Calling \subseteq Threads /\ Calling' \subseteq Threads
      /\ t \in Calling <=> pc[t] \in CallPcs
      /\ t \in Calling' <=> l \in CallPcs
      /\ \A u \in Threads \ {t} : u \in Calling <=> u \in Calling'
  BY <1>1 DEF Calling, CallPcs
<1>4. pc' \in [Threads -> Labels]
  BY <1>1
<1> HIDE DEF CountedPcs, CallPcs, Counted, Calling
<1>5. /\ Cardinality(Counted) \in Nat /\ Cardinality(Counted') \in Nat
      /\ t \in Counted /\ t \notin Counted' => Cardinality(Counted') = Cardinality(Counted) - 1
      /\ t \notin Counted /\ t \in Counted' => Cardinality(Counted') = Cardinality(Counted) + 1
      /\ (t \in Counted <=> t \in Counted') => Counted' = Counted
  BY <1>2, Census
<1>6. /\ Cardinality(Calling) \in Nat /\ Cardinality(Calling') \in Nat
      /\ t \in Calling /\ t \notin Calling' => Cardinality(Calling') = Cardinality(Calling) - 1
      /\ t \notin Calling /\ t \in Calling' => Cardinality(Calling') = Cardinality(Calling) + 1
      /\ (t \in Calling <=> t \in Calling') => Calling' = Calling
  BY <1>3, Census
<1> QED BY <1>2, <1>3, <1>4, <1>5, <1>6

(* What the invariant says of a thread that is inside with the mutex, of    *)
(* the counter, and of the references.                                      *)
LEMMA Facts ==
    ASSUME IInv, NEW t \in Threads
    PROVE  /\ Cardinality(Counted) \in Nat /\ Cardinality(Calling) \in Nat
           /\ pc[t] \in Inside => /\ aborted = 0 /\ globLock = t
                                  /\ \A u \in Threads \ {t} : pc[u] \notin Inside
           /\ pc[t] \in CountedPcs => Cardinality(Counted) > 0
           /\ pc[t] \in CallPcs => Cardinality(Calling) > 0
           /\ initialized = 0 => /\ refs = 0 /\ aborted = 0
                                 /\ \A u \in Threads : pc[u] \notin CountedPcs
           /\ pc[t] \in Building \cup Wrecking => refs = 0
           /\ refs > 0 => aborted = 0 /\ initialized > 0 /\ Usable
<1> USE DEF IInv
<1>1. Counted \subseteq Threads /\ Calling \subseteq Threads
  BY DEF Counted, Calling
<1>2. Cardinality(Counted) \in Nat /\ Cardinality(Calling) \in Nat
  BY <1>1, Census
<1>3. /\ initialized = refs + Cardinality(Counted) + aborted
      /\ initialized \in Nat /\ refs \in Nat /\ aborted \in {0, 1}
  BY BoundAssumption DEF TypeOK, CounterCounts
<1>4. pc[t] \in Inside => /\ aborted = 0 /\ globLock = t
                          /\ \A u \in Threads \ {t} : pc[u] \notin Inside
  BY <1>3 DEF GlobalExclusion, Staging
<1>5. \A u \in Threads : pc[u] \in CountedPcs => Cardinality(Counted) > 0
  <2> TAKE u \in Threads
  <2> HAVE pc[u] \in CountedPcs
  <2>1. u \in Counted
    BY DEF Counted
  <2> QED BY <2>1, <1>1, <1>2, NoOne
<1>6. pc[t] \in CallPcs => Cardinality(Calling) > 0
  <2> HAVE pc[t] \in CallPcs
  <2>1. t \in Calling
    BY DEF Calling, CallPcs
  <2> QED BY <2>1, <1>1, <1>2, NoOne
<1>7. initialized = 0 => /\ refs = 0 /\ aborted = 0
                         /\ \A u \in Threads : pc[u] \notin CountedPcs
  <2> HAVE initialized = 0
  <2>1. refs = 0 /\ aborted = 0 /\ Cardinality(Counted) = 0
    BY <1>2, <1>3
  <2>2. \A u \in Threads : pc[u] \notin CountedPcs
    BY <2>1, <1>5
  <2> QED BY <2>1, <2>2
<1>8. \A u \in Threads : pc[u] \in Building \cup Wrecking => refs = 0
  <2> TAKE u \in Threads
  <2>1. CASE pc[u] \in Building
    <3>1. pc[u] \in CountedPcs /\ initialized = 1
      BY <2>1 DEF Staging, Stage, Building, CountedPcs, InitPcs
    <3> QED BY <3>1, <1>2, <1>3, <1>5
  <2>2. CASE pc[u] \in Wrecking
    <3>1. initialized = 0
      BY <2>2 DEF Staging, Stage, Wrecking
    <3> QED BY <3>1, <1>7
  <2> QED BY <2>1, <2>2
<1>9. refs > 0 => aborted = 0 /\ initialized > 0 /\ Usable
  <2> HAVE refs > 0
  <2>1. initialized > 0 /\ \A u \in Threads : pc[u] \notin Building \cup Wrecking
    BY <1>2, <1>3, <1>8
  <2>2. aborted = 0
    BY <1>2, <1>3 DEF Staging
  <2> QED BY <2>1, <2>2, <1>3 DEF Staging
<1> QED BY <1>2, <1>4, <1>5, <1>6, <1>7, <1>8, <1>9

(* A thread that uses the library, takes a named mutex or goes back to the  *)
(* application disturbs nothing the invariant says of the library.          *)
LEMMA UseMove ==
    ASSUME IInv, NEW t \in Threads, NEW l \in {"idle"} \cup UsePcs, Goto(t, l),
           pc[t] \in {"idle"} \cup UsePcs, l \in UsePcs => refs > 0,
           UNCHANGED <<globLock, initialized, globSize, names, ready, up, refs, aborted>>,
           \A u \in Threads \ {t} : idx'[u] = idx[u],
           l \in {"u_tls", "u_fill"} => idx'[t] \in Comps, l = "u_lock" => idx'[t] \in NeedsUtmp,
           mtx' \in [MutexNames -> [owner : Threads \cup {NoThread}, count : Nat]],
           tls' \in [Threads -> 0..N], vecs' \in [Threads -> SUBSET Comps],
           idx' \in [Threads -> 0..N], ignore' = ignore, errc' = errc, exited' = exited
    PROVE  IInv'
<1>1. TypeOK /\ l \in Labels
  BY DEF IInv, Labels
<1>2. /\ Cardinality(Counted)' = Cardinality(Counted)
      /\ Cardinality(Calling)' = Cardinality(Calling)
      /\ pc' \in [Threads -> Labels]
  BY <1>1, Move DEF CountedPcs, CallPcs, InitPcs, ShutPcs, UsePcs
<1>3. TypeOK'
  BY <1>1, <1>2 DEF TypeOK, Labels
<1>4. GlobalExclusion'
  BY <1>1 DEF IInv, GlobalExclusion, Goto, TypeOK, Inside, InitPcs, ShutPcs, UsePcs
<1>5. CounterCounts'
  BY <1>2 DEF IInv, CounterCounts
<1>6. Staging'
  BY <1>1 DEF IInv, Staging, Stage, Down, Usable, Goto, TypeOK, Inside, Building, Wrecking,
              UsePcs, InitPcs, ShutPcs
<1> QED BY <1>3, <1>4, <1>5, <1>6 DEF IInv

(* Every step of a thread that uses the library is such a move.             *)
LEMMA UseStep ==
    ASSUME IInv, NEW t \in Threads,
           \/ CallStat(t) \/ GetTls(t) \/ Fill(t) \/ UtmpLock(t) \/ UtmpUnlock(t)
           \/ CallLockMutex(t) \/ LockMutex(t) \/ CallUnlockMutex(t)
    PROVE  IInv'
<1> USE DEF IInv, tables, buffers, locals, ghosts, SetIdx
<1>1. /\ TypeOK /\ (pc[t] \in UsePcs => refs > 0)
      /\ pc[t] \in {"u_tls", "u_fill"} => idx[t] \in Comps
  BY DEF Staging
<1>2. CASE CallStat(t)
  <2>1. /\ idx' \in [Threads -> 0..N] /\ idx'[t] \in Comps
        /\ \A u \in Threads \ {t} : idx'[u] = idx[u]
    BY <1>1, <1>2, NAssumption DEF CallStat, TypeOK, Comps
  <2> QED BY <1>1, <1>2, <2>1, UseMove DEF CallStat, TypeOK, UsePcs
<1>3. CASE GetTls(t)
  <2>1. PICK l \in {"u_fill", "idle", "n_held"} : Goto(t, l)
    BY <1>3 DEF GetTls, Back
  <2>2. tls' \in [Threads -> 0..N]
    BY <1>1, <1>3, NAssumption DEF GetTls, TypeOK
  <2>3. UNCHANGED <<globLock, initialized, globSize, names, ready, mtx, up, vecs, idx,
                    ignore, errc, refs, aborted, exited>> /\ pc[t] = "u_tls"
    BY <1>3 DEF GetTls
  <2> QED BY <1>1, <2>1, <2>2, <2>3, UseMove DEF TypeOK, UsePcs
<1>4. CASE Fill(t)
  <2>1. PICK l \in {"u_lock", "idle", "n_held"} :
            Goto(t, l) /\ (l = "u_lock" => idx[t] \in NeedsUtmp)
    BY <1>4 DEF Fill, Back
  <2>2. vecs' \in [Threads -> SUBSET Comps]
    BY <1>1, <1>4 DEF Fill, TypeOK
  <2> QED BY <1>1, <1>4, <2>1, <2>2, UseMove DEF Fill, TypeOK, UsePcs
<1>5. CASE UtmpLock(t)
  BY <1>1, <1>5, UseMove DEF UtmpLock, TypeOK, UsePcs, MutexNames
<1>6. CASE UtmpUnlock(t)
  BY <1>1, <1>6, UseMove DEF UtmpUnlock, TypeOK, UsePcs, MutexNames, Released, Free
<1>7. CASE CallLockMutex(t)
  BY <1>1, <1>7, UseMove, InputsAssumption DEF CallLockMutex, NamedLabel, TypeOK, UsePcs
<1>8. CASE LockMutex(t)
  BY <1>1, <1>8, UseMove, InputsAssumption DEF LockMutex, NamedLabel, TypeOK, UsePcs, MutexNames
<1>9. CASE CallUnlockMutex(t)
  BY <1>1, <1>9, UseMove, InputsAssumption DEF CallUnlockMutex, TypeOK, UsePcs, MutexNames, Released, Free
<1> QED BY <1>2, <1>3, <1>4, <1>5, <1>6, <1>7, <1>8, <1>9

(* sg_global_lock() at the head of either function.                         *)
LEMMA InitLockStep ==
    ASSUME IInv, NEW t \in Threads, InitLock(t) \/ ShutLock(t)
    PROVE  IInv'
<1> DEFINE l == IF pc[t] = "i_lock" THEN "i_count" ELSE "s_count"
<1>1. Goto(t, l) /\ pc[t] \in {"i_lock", "s_lock"} /\ l \in {"i_count", "s_count"}
      /\ (l = "i_count" <=> pc[t] = "i_lock")
  BY DEF InitLock, ShutLock, GlobalLock
<1>2. TypeOK /\ l \in Labels
  BY <1>1 DEF IInv, Labels, InitPcs, ShutPcs
<1>3. /\ Cardinality(Counted)' = Cardinality(Counted)
      /\ Cardinality(Calling)' = Cardinality(Calling)
      /\ pc' \in [Threads -> Labels]
  BY <1>1, <1>2, Move DEF CountedPcs, CallPcs, InitPcs, ShutPcs
<1>4. /\ globLock = NoThread /\ globLock' = t
      /\ UNCHANGED <<initialized, tables, buffers, locals, ghosts>>
  BY DEF InitLock, ShutLock, GlobalLock
<1>5. TypeOK'
  BY <1>3, <1>4 DEF IInv, TypeOK, Labels, tables, buffers, locals, ghosts
<1>6. GlobalExclusion'
  BY <1>1, <1>4, ThreadsAssumption DEF IInv, GlobalExclusion, Goto, TypeOK, Inside
<1>7. CounterCounts'
  BY <1>3, <1>4 DEF IInv, CounterCounts, ghosts
<1>8. Staging'
  BY <1>1, <1>4, ThreadsAssumption 
  DEF IInv, Staging, Stage, Down, Usable, tables, locals, ghosts, Goto, TypeOK, Inside,
      Building, Wrecking, UsePcs, InitPcs, ShutPcs
<1> QED BY <1>5, <1>6, <1>7, <1>8 DEF IInv

(* sg_init() is called: one thread more is on its way in.                   *)
LEMMA CallInitStep ==
    ASSUME IInv, NEW t \in Threads, CallInit(t)
    PROVE  IInv'
<1>1. /\ TypeOK /\ Goto(t, "i_lock") /\ pc[t] = "idle" /\ "i_lock" \in Labels
      /\ UNCHANGED <<globLock, initialized, tables, buffers, ghosts>>
      /\ refs + Cardinality(Calling) < MaxRefs
  BY DEF IInv, CallInit, Labels, InitPcs
<1>2. /\ Cardinality(Counted)' = Cardinality(Counted)
      /\ Cardinality(Calling)' = Cardinality(Calling) + 1 /\ Cardinality(Calling) \in Nat
      /\ pc' \in [Threads -> Labels]
  BY <1>1, Move DEF CountedPcs, CallPcs, InitPcs, ShutPcs
<1>3. /\ idx' \in [Threads -> 0..N] /\ ignore' \in [Threads -> BOOLEAN]
      /\ errc' \in [Threads -> Codes] /\ \A u \in Threads \ {t} : idx'[u] = idx[u]
  BY <1>1, NAssumption, InputsAssumption DEF CallInit, SetIdx, TypeOK, Codes
<1>4. TypeOK'
  BY <1>1, <1>2, <1>3, BoundAssumption DEF TypeOK, Labels, tables, buffers, ghosts
<1>5. GlobalExclusion'
  BY <1>1 DEF IInv, GlobalExclusion, Goto, TypeOK, Inside
<1>6. CounterCounts'
  BY <1>1, <1>2 DEF IInv, CounterCounts, ghosts
<1>7. Staging'
  BY <1>1, <1>3
  DEF IInv, Staging, Stage, Down, Usable, tables, ghosts, Goto, TypeOK, Inside, Building,
      Wrecking, UsePcs, InitPcs, ShutPcs
<1> QED BY <1>4, <1>5, <1>6, <1>7 DEF IInv

(* sg_shutdown() is called: the reference is given back and still counted.  *)
LEMMA CallShutdownStep ==
    ASSUME IInv, NEW t \in Threads, CallShutdown(t)
    PROVE  IInv'
<1>1. /\ TypeOK /\ Goto(t, "s_lock") /\ pc[t] = "idle" /\ "s_lock" \in Labels
      /\ UNCHANGED <<globLock, initialized, tables, buffers, locals, aborted, exited>>
      /\ refs > 0 /\ refs' = refs - 1
  BY DEF IInv, CallShutdown, Labels, ShutPcs
<1>2. /\ Cardinality(Counted)' = Cardinality(Counted) + 1 /\ Cardinality(Counted) \in Nat
      /\ Cardinality(Calling)' = Cardinality(Calling) + 1 /\ Cardinality(Calling) \in Nat
      /\ pc' \in [Threads -> Labels]
  BY <1>1, Move DEF CountedPcs, CallPcs, InitPcs, ShutPcs
<1>3. TypeOK'
  BY <1>1, <1>2, BoundAssumption DEF TypeOK, Labels, tables, buffers, locals
<1>4. GlobalExclusion'
  BY <1>1 DEF IInv, GlobalExclusion, Goto, TypeOK, Inside
<1>5. CounterCounts'
  BY <1>1, <1>2 DEF IInv, CounterCounts, TypeOK
<1>6. \A u \in Threads : pc'[u] \in UsePcs => refs' > 0
  BY <1>1 DEF IInv, Staging, CallShutdown, Goto, TypeOK, UsePcs
<1>7. Staging'
  BY <1>1, <1>6
  DEF IInv, Staging, Stage, Down, Usable, tables, locals, Goto, TypeOK, Inside, Building,
      Wrecking, UsePcs, InitPcs, ShutPcs
<1> QED BY <1>3, <1>4, <1>5, <1>7 DEF IInv

(* initialized++ and the way it decides who builds the library.             *)
LEMMA InitCountStep ==
    ASSUME IInv, NEW t \in Threads, InitCount(t)
    PROVE  IInv'
<1> DEFINE l == IF initialized # 0 THEN "i_unlock" ELSE "i_size"
<1>1. /\ TypeOK /\ Goto(t, l) /\ pc[t] = "i_count" /\ l \in Labels
      /\ UNCHANGED <<globLock, names, ready, mtx, up, buffers, ignore, errc, ghosts>>
  BY DEF IInv, InitCount, Labels, InitPcs
<1>2. /\ Cardinality(Counted)' = Cardinality(Counted) + 1
      /\ Cardinality(Calling)' = Cardinality(Calling)
      /\ pc' \in [Threads -> Labels]
  BY <1>1, Move DEF CountedPcs, CallPcs, InitPcs, ShutPcs
<1>3. /\ aborted = 0 /\ globLock = t /\ \A u \in Threads \ {t} : pc[u] \notin Inside
      /\ Cardinality(Counted) \in Nat /\ Cardinality(Calling) \in Nat
      /\ initialized = 0 => refs = 0
  BY <1>1, Facts DEF Inside, InitPcs
<1>4. initialized' = initialized + 1 /\ initialized' \in 0..(UMod - 1)
  <2>1. Counted \subseteq Calling \ {t} /\ t \in Calling /\ Calling \subseteq Threads
    BY <1>1 DEF Counted, Calling, CountedPcs, InitPcs, ShutPcs
  <2>2. IsFiniteSet(Calling)
    BY <2>1, ThreadsAssumption, FS_Subset
  <2>3. IsFiniteSet(Calling \ {t}) /\ Cardinality(Calling \ {t}) = Cardinality(Calling) - 1
    BY <2>1, <2>2, FS_RemoveElement
  <2>4. Cardinality(Counted) <= Cardinality(Calling) - 1
    BY <2>1, <2>3, FS_Subset
  <2>5. initialized + 1 \in 0..(UMod - 1)
    BY <1>3, <2>4, BoundAssumption DEF IInv, CounterCounts, TypeOK
  <2> QED BY <2>5, NoWrap DEF InitCount, CountUp
<1>5. /\ idx' \in [Threads -> 0..N] /\ globSize' \in 0..N
      /\ \A u \in Threads \ {t} : idx'[u] = idx[u]
      /\ l = "i_unlock" => globSize' = globSize
      /\ l = "i_size" => globSize' = 0 /\ idx'[t] = 1
  BY <1>1, NAssumption DEF InitCount, SetIdx, TypeOK
<1>6. TypeOK'
  BY <1>1, <1>2, <1>4, <1>5 DEF TypeOK, Labels, buffers, ghosts
<1>7. GlobalExclusion'
  BY <1>1, <1>3 DEF IInv, GlobalExclusion, Goto, TypeOK, Inside
<1>8. CounterCounts'
  BY <1>1, <1>2, <1>3, <1>4 DEF IInv, CounterCounts, ghosts, TypeOK
<1>9. Staging'
  <2>1. IF initialized = 0 THEN Down ELSE Usable
    BY <1>1, <1>3 DEF IInv, Staging, Inside, Building, Wrecking, InitPcs, ShutPcs
  <2> QED
    BY <1>1, <1>3, <1>4, <1>5, <2>1, NAssumption
    DEF IInv, Staging, Stage, Down, Usable, ghosts, Goto, TypeOK, Inside, Building,
        Wrecking, UsePcs, InitPcs, ShutPcs, Comps
<1> QED BY <1>6, <1>7, <1>8, <1>9 DEF IInv

(* A turn of the loop that adds up glob_size.                               *)
LEMMA InitSizeStep ==
    ASSUME IInv, NEW t \in Threads, InitSize(t)
    PROVE  IInv'
<1> DEFINE l == IF idx[t] = N THEN "i_locks" ELSE "i_size"
<1>1. /\ TypeOK /\ Goto(t, l) /\ pc[t] = "i_size" /\ l \in Labels
      /\ globSize' = globSize + 1
      /\ UNCHANGED <<globLock, initialized, names, ready, mtx, up, buffers, ignore, errc,
                     ghosts>>
  BY DEF IInv, InitSize, LastSize, Labels, InitPcs, Goto, TypeOK
<1>2. /\ Cardinality(Counted)' = Cardinality(Counted)
      /\ Cardinality(Calling)' = Cardinality(Calling)
      /\ pc' \in [Threads -> Labels]
  BY <1>1, Move DEF CountedPcs, CallPcs, InitPcs, ShutPcs
<1>3. aborted = 0 /\ globLock = t /\ \A u \in Threads \ {t} : pc[u] \notin Inside
  BY <1>1, Facts DEF Inside, InitPcs
<1>4. Stage(t) /\ globSize = idx[t] - 1 /\ idx[t] \in Comps /\ globSize' = idx[t]
  BY <1>1, NAssumption DEF IInv, Staging, Stage, Building, Comps
<1>5. /\ idx' \in [Threads -> 0..N] /\ idx'[t] \in Comps /\ globSize' \in 0..N
      /\ \A u \in Threads \ {t} : idx'[u] = idx[u]
      /\ l = "i_size" => idx'[t] = idx[t] + 1
      /\ l = "i_locks" => globSize' = N /\ idx'[t] = 1
  BY <1>1, <1>4, NAssumption DEF InitSize, LastSize, SetIdx, TypeOK, Comps
<1>6. TypeOK'
  BY <1>1, <1>2, <1>5 DEF TypeOK, Labels, buffers, ghosts
<1>7. GlobalExclusion'
  BY <1>1, <1>3 DEF IInv, GlobalExclusion, Goto, TypeOK, Inside
<1>8. CounterCounts'
  BY <1>1, <1>2 DEF IInv, CounterCounts, ghosts
<1>9. Staging'
  BY <1>1, <1>3, <1>4, <1>5, NAssumption
  DEF IInv, Staging, Stage, Down, Usable, ghosts, Goto, TypeOK, Inside, Building, Wrecking,
      UsePcs, InitPcs, ShutPcs, Comps
<1> QED BY <1>6, <1>7, <1>8, <1>9 DEF IInv

(* The early returns of sg_comp_init(), and the two steps that only build.  *)
LEMMA AbortMove ==
    ASSUME IInv, NEW t \in Threads, pc[t] \in Building \ {"i_size"}, Goto(t, "idle"),
           aborted' = 1, UNCHANGED <<globLock, initialized, globSize, names, ready, mtx>>,
           UNCHANGED <<vecs, idx, ignore, refs, exited>>,
           up' \subseteq Comps, tls' \in [Threads -> 0..N], errc' \in [Threads -> Codes]
    PROVE  IInv'
<1>1. TypeOK /\ "idle" \in Labels
  BY DEF IInv, Labels
<1>2. /\ Cardinality(Counted)' = Cardinality(Counted) - 1 /\ Cardinality(Counted) \in Nat
      /\ Cardinality(Calling)' = Cardinality(Calling) - 1 /\ Cardinality(Calling) \in Nat
      /\ pc' \in [Threads -> Labels]
  BY <1>1, Move DEF CountedPcs, CallPcs, InitPcs, ShutPcs, Building
<1>3. aborted = 0 /\ globLock = t /\ \A u \in Threads \ {t} : pc[u] \notin Inside
  BY Facts DEF Inside, InitPcs, Building
<1>4. TypeOK'
  <2>1. refs' \in 0..MaxRefs /\ refs' + Cardinality(Calling)' <= MaxRefs
    BY <1>1, <1>2, BoundAssumption DEF TypeOK
  <2> QED BY <1>1, <1>2, <2>1 DEF TypeOK, Labels
<1>5. GlobalExclusion'
  BY <1>1, <1>3 DEF IInv, GlobalExclusion, Goto, TypeOK, Inside
<1>6. CounterCounts'
  BY <1>2, <1>3, <1>1 DEF IInv, CounterCounts, TypeOK
<1>7. Staging'
  BY <1>1, <1>3
  DEF IInv, Staging, Stage, Goto, TypeOK, Inside, Building, Wrecking, UsePcs, InitPcs, ShutPcs
<1> QED BY <1>4, <1>5, <1>6, <1>7 DEF IInv

(* The table of named mutexes is made, or is not.                           *)
LEMMA InitLocksStep ==
    ASSUME IInv, NEW t \in Threads, InitLocks(t)
    PROVE  IInv'
<1>1. /\ TypeOK /\ pc[t] = "i_locks"
      /\ UNCHANGED <<globLock, initialized, globSize, ready, up, buffers, ignore, refs, exited>>
  BY DEF IInv, InitLocks
<1>2. CASE ReturnEarly(t, "MALLOC")
  <2>1. errc' \in [Threads -> Codes]
    BY <1>1, <1>2 DEF ReturnEarly, TypeOK, Codes
  <2> QED BY <1>1, <1>2, <2>1, AbortMove DEF ReturnEarly, Building, TypeOK, buffers
<1>3. CASE /\ names' = {"statgrab"} /\ Goto(t, "i_comp") /\ UNCHANGED <<idx, errc, aborted>>
           /\ mtx' = [mtx EXCEPT !["statgrab"] = [owner |-> t, count |-> 1]]
  <2>1. "i_comp" \in Labels
    BY DEF Labels, InitPcs
  <2>2. /\ Cardinality(Counted)' = Cardinality(Counted)
        /\ Cardinality(Calling)' = Cardinality(Calling)
        /\ pc' \in [Threads -> Labels]
    BY <1>1, <1>3, <2>1, Move DEF CountedPcs, CallPcs, InitPcs, ShutPcs
  <2>3. aborted = 0 /\ globLock = t /\ \A u \in Threads \ {t} : pc[u] \notin Inside
    BY <1>1, Facts DEF Inside, InitPcs
  <2>4. mtx' \in [MutexNames -> [owner : Threads \cup {NoThread}, count : Nat]]
    BY <1>1, <1>3 DEF TypeOK, MutexNames
  <2>5. idx[t] \in Comps /\ ready = {} /\ globSize = N /\ initialized = 1
    BY <1>1 DEF IInv, Staging, Stage, Building
  <2>6. TypeOK'
    BY <1>1, <1>3, <2>2, <2>4, <2>5 DEF TypeOK, Labels, buffers, MutexNames
  <2>7. GlobalExclusion'
    BY <1>1, <1>3, <2>3 DEF IInv, GlobalExclusion, Goto, TypeOK, Inside
  <2>8. CounterCounts'
    BY <1>1, <1>3, <2>2 DEF IInv, CounterCounts
  <2>9. idx[t] = 1 /\ names' = NamesUpTo(0) /\ 1..0 = {} /\ idx'[t] - 1 = 0
    BY <1>1, <1>3 DEF IInv, Staging, Stage, NamesUpTo
  <2>10. Staging'
    BY <1>1, <1>3, <2>3, <2>5, <2>9, NAssumption
    DEF IInv, Staging, Stage, Goto, TypeOK, Inside, Building, Wrecking, UsePcs, InitPcs,
        ShutPcs
  <2> QED BY <2>6, <2>7, <2>8, <2>10 DEF IInv
<1> QED BY <1>2, <1>3 DEF InitLocks

(* The names the table holds after the turns of the loop over comp_info.    *)
LEMMA NamesGrow ==
    /\ NamesUpTo(N) = RequiredNames
    /\ \A i \in Comps :
         NamesUpTo(i) = NamesUpTo(i - 1) \cup (IF i \in NeedsUtmp THEN {"utmp"} ELSE {})
<1>1. NeedsUtmp \cap 1..N = NeedsUtmp
  <2>1. \A i \in NeedsUtmp : i \in 1..N
    BY CompsAssumption, NAssumption
  <2> QED BY <2>1
<1>2. \A i \in Comps : NeedsUtmp \cap 1..i =
                       (NeedsUtmp \cap 1..(i - 1)) \cup (IF i \in NeedsUtmp THEN {i} ELSE {})
  BY NAssumption DEF Comps
<1>3. NamesUpTo(N) = RequiredNames
  BY <1>1 DEF NamesUpTo, RequiredNames
<1>4. ASSUME NEW i \in Comps
      PROVE  NamesUpTo(i) = NamesUpTo(i - 1) \cup (IF i \in NeedsUtmp THEN {"utmp"} ELSE {})
  <2>1. CASE i \in NeedsUtmp
    <3>1. NeedsUtmp \cap 1..i # {}
      BY <2>1, <1>2
    <3> QED BY <2>1, <3>1 DEF NamesUpTo
  <2>2. CASE i \notin NeedsUtmp
    <3>1. NeedsUtmp \cap 1..i = NeedsUtmp \cap 1..(i - 1)
      BY <2>2, <1>2
    <3> QED BY <2>2, <3>1 DEF NamesUpTo
  <2> QED BY <2>1, <2>2
<1> QED BY <1>3, <1>4

(* A turn of the loop over comp_info, its failures included.                *)
LEMMA InitCompStep ==
    ASSUME IInv, NEW t \in Threads, InitComp(t)
    PROVE  IInv'
<1>1. /\ TypeOK /\ pc[t] = "i_comp"
      /\ UNCHANGED <<globLock, initialized, globSize, ready, vecs, ignore, refs, exited>>
  BY DEF IInv, InitComp
<1>2. aborted = 0 /\ globLock = t /\ \A u \in Threads \ {t} : pc[u] \notin Inside
  BY <1>1, Facts DEF Inside, InitPcs
<1>3. /\ initialized = 1 /\ ready = {} /\ idx[t] \in Comps /\ globSize = N
      /\ names = NamesUpTo(idx[t] - 1) /\ 1..(idx[t] - 1) \ MayFail \subseteq up
  BY <1>1 DEF IInv, Staging, Stage, Building
<1> DEFINE c == idx[t]
           new == (IF c \in NeedsUtmp THEN {"utmp"} ELSE {}) \ names
<1>4. PICK failed \in BOOLEAN :
        /\ failed => c \in MayFail
        /\ up' = IF failed THEN up ELSE up \cup {c}
        /\ \/ \E code \in {"COMPONENT", "MALLOC"} : ReturnEarly(t, code)
           \/ /\ names' = names \cup new
              /\ errc' = [errc EXCEPT ![t] = Noted(@, failed)]
              /\ IF c < N THEN SetIdx(t, c + 1) /\ UNCHANGED pc
                          ELSE UNCHANGED idx /\ Goto(t, "i_mutex")
              /\ UNCHANGED <<mtx, aborted>>
  BY DEF InitComp
<1>5. tls' \in [Threads -> 0..N]
  BY <1>1, <1>3, NAssumption DEF InitComp, TypeOK
<1>6. up' \subseteq Comps
  BY <1>1, <1>3, <1>4 DEF TypeOK
<1>7. ASSUME NEW code \in {"COMPONENT", "MALLOC"}, ReturnEarly(t, code) PROVE IInv'
  <2>1. errc' \in [Threads -> Codes]
    BY <1>1, <1>7 DEF ReturnEarly, TypeOK, Codes
  <2> QED BY <1>1, <1>5, <1>6, <1>7, <2>1, AbortMove DEF ReturnEarly, Building
<1>8. CASE /\ names' = names \cup new
           /\ errc' = [errc EXCEPT ![t] = Noted(@, failed)]
           /\ IF c < N THEN SetIdx(t, c + 1) /\ UNCHANGED pc
                       ELSE UNCHANGED idx /\ Goto(t, "i_mutex")
           /\ UNCHANGED <<mtx, aborted>>
  <2> DEFINE l == IF c < N THEN "i_comp" ELSE "i_mutex"
  <2>1. l \in Labels /\ Goto(t, l)
    BY <1>1, <1>8 DEF Labels, InitPcs, Goto, TypeOK
  <2>2. /\ Cardinality(Counted)' = Cardinality(Counted)
        /\ Cardinality(Calling)' = Cardinality(Calling)
        /\ pc' \in [Threads -> Labels]
    BY <1>1, <2>1, Move DEF CountedPcs, CallPcs, InitPcs, ShutPcs
  <2>3. names' = NamesUpTo(c) /\ (l = "i_mutex" => c = N) /\ (l = "i_comp" => c < N)
    BY <1>3, <1>8, NamesGrow, NAssumption DEF Comps
  <2>4. 1..c \ MayFail \subseteq up'
    <3>1. c \notin MayFail => c \in up'
      BY <1>4
    <3>2. 1..c = 1..(c - 1) \cup {c}
      BY <1>3, NAssumption DEF Comps
    <3> QED BY <1>3, <1>4, <3>1, <3>2
  <2>5. /\ idx' \in [Threads -> 0..N] /\ idx'[t] \in Comps
        /\ \A u \in Threads \ {t} : idx'[u] = idx[u]
        /\ l = "i_comp" => idx'[t] = c + 1 /\ idx'[t] - 1 = c
    BY <1>1, <1>3, <1>8, NAssumption DEF TypeOK, SetIdx, Comps
  <2>6. errc' \in [Threads -> Codes]
    BY <1>1, <1>8 DEF TypeOK, Noted, Codes
  <2>7. names' \subseteq MutexNames
    BY <2>3 DEF NamesUpTo, MutexNames
  <2>8. TypeOK'
    BY <1>1, <1>3, <1>5, <1>6, <1>8, <2>2, <2>5, <2>6, <2>7 DEF TypeOK, Labels
  <2>9. GlobalExclusion'
    BY <1>1, <1>2, <2>1 DEF IInv, GlobalExclusion, Goto, TypeOK, Inside
  <2>10. CounterCounts'
    BY <1>1, <1>8, <2>2 DEF IInv, CounterCounts
  <2>11. Stage(t)'
    BY <1>1, <1>3, <2>1, <2>3, <2>4, <2>5, NamesGrow
    DEF Stage, Goto, TypeOK, Building, Wrecking, Comps
  <2>12. Staging'
    BY <1>1, <1>2, <1>8, <2>1, <2>5, <2>11
    DEF IInv, Staging, Stage, Goto, TypeOK, Inside, Building, Wrecking, UsePcs, InitPcs,
        ShutPcs
  <2> QED BY <2>8, <2>9, <2>10, <2>12 DEF IInv
<1> QED BY <1>4, <1>7, <1>8

(* The named mutexes are initialised: the library is complete.              *)
LEMMA InitMutexesStep ==
    ASSUME IInv, NEW t \in Threads, InitMutexes(t)
    PROVE  IInv'
<1>1. /\ TypeOK /\ pc[t] = "i_mutex"
      /\ UNCHANGED <<globLock, initialized, globSize, up, buffers, ignore, refs, exited>>
  BY DEF IInv, InitMutexes
<1>2. CASE ReturnEarly(t, "INITIALISATION") /\ UNCHANGED ready
  <2>1. errc' \in [Threads -> Codes]
    BY <1>1, <1>2 DEF ReturnEarly, TypeOK, Codes
  <2> QED BY <1>1, <1>2, <2>1, AbortMove DEF ReturnEarly, Building, TypeOK, buffers
<1>3. CASE /\ ready' = ToInitialise /\ Goto(t, "i_unlock")
           /\ mtx' = [m \in MutexNames |-> IF m \in ToInitialise THEN Free ELSE mtx[m]]
           /\ UNCHANGED <<names, idx, errc, aborted>>
  <2>1. "i_unlock" \in Labels
    BY DEF Labels, InitPcs
  <2>2. /\ Cardinality(Counted)' = Cardinality(Counted)
        /\ Cardinality(Calling)' = Cardinality(Calling)
        /\ pc' \in [Threads -> Labels]
    BY <1>1, <1>3, <2>1, Move DEF CountedPcs, CallPcs, InitPcs, ShutPcs
  <2>3. aborted = 0 /\ globLock = t /\ \A u \in Threads \ {t} : pc[u] \notin Inside
    BY <1>1, Facts DEF Inside, InitPcs
  <2>4. mtx' \in [MutexNames -> [owner : Threads \cup {NoThread}, count : Nat]]
    BY <1>1, <1>3 DEF TypeOK, Free
  <2>5. /\ globSize = N /\ initialized = 1
        /\ names = RequiredNames /\ Comps \ MayFail \subseteq up
    BY <1>1 DEF IInv, Staging, Stage, Building
  <2>6. TypeOK'
    BY <1>1, <1>3, <2>2, <2>4, <2>5 DEF TypeOK, Labels, buffers, ToInitialise
  <2>7. GlobalExclusion'
    BY <1>1, <1>3, <2>3 DEF IInv, GlobalExclusion, Goto, TypeOK, Inside
  <2>8. CounterCounts'
    BY <1>1, <1>3, <2>2 DEF IInv, CounterCounts
  <2>9. Usable'
    BY <1>1, <1>3, <2>5 DEF Usable, ToInitialise
  <2>10. Staging'
    BY <1>1, <1>3, <2>3, <2>5, <2>9
    DEF IInv, Staging, Stage, Goto, TypeOK, Inside, Building, Wrecking, UsePcs, InitPcs,
        ShutPcs
  <2> QED BY <2>6, <2>7, <2>8, <2>10 DEF IInv
<1> QED BY <1>2, <1>3 DEF InitMutexes

(* sg_init() returns: what it has counted is now a reference.               *)
LEMMA InitUnlockStep ==
    ASSUME IInv, NEW t \in Threads, InitUnlock(t)
    PROVE  IInv'
<1>1. /\ TypeOK /\ pc[t] = "i_unlock" /\ Goto(t, "idle") /\ "idle" \in Labels
      /\ globLock' = NoThread /\ refs' = refs + 1
      /\ UNCHANGED <<initialized, tables, buffers, aborted, exited>>
  BY DEF IInv, InitUnlock, Unlocked, Return, Labels
<1>2. /\ Cardinality(Counted)' = Cardinality(Counted) - 1 /\ Cardinality(Counted) \in Nat
      /\ Cardinality(Calling)' = Cardinality(Calling) - 1 /\ Cardinality(Calling) \in Nat
      /\ pc' \in [Threads -> Labels]
  BY <1>1, Move DEF CountedPcs, CallPcs, InitPcs, ShutPcs
<1>3. /\ aborted = 0 /\ globLock = t /\ \A u \in Threads \ {t} : pc[u] \notin Inside
      /\ Cardinality(Calling) > 0
  BY <1>1, Facts DEF Inside, InitPcs, CallPcs
<1>4. /\ idx' \in [Threads -> 0..N] /\ ignore' \in [Threads -> BOOLEAN]
      /\ errc' \in [Threads -> Codes] /\ \A u \in Threads \ {t} : idx'[u] = idx[u]
  BY <1>1, NAssumption DEF InitUnlock, Return, SetIdx, TypeOK, Codes
<1>5. TypeOK'
  <2>1. refs' \in 0..MaxRefs /\ refs' + Cardinality(Calling)' <= MaxRefs
    BY <1>1, <1>2, <1>3, BoundAssumption DEF TypeOK
  <2> QED BY <1>1, <1>2, <1>4, <2>1 DEF TypeOK, Labels, tables, buffers
<1>6. GlobalExclusion'
  BY <1>1, <1>3 DEF IInv, GlobalExclusion, Goto, TypeOK, Inside, InitPcs, ShutPcs
<1>7. CounterCounts'
  BY <1>1, <1>2 DEF IInv, CounterCounts, TypeOK
<1>8. \A u \in Threads : pc'[u] \in UsePcs => refs' > 0
  BY <1>1 DEF TypeOK
<1>9. Staging'
  BY <1>1, <1>3, <1>4, <1>8
  DEF IInv, Staging, Stage, Down, Usable, tables, Goto, TypeOK, Inside, Building, Wrecking,
      UsePcs, InitPcs, ShutPcs
<1> QED BY <1>5, <1>6, <1>7, <1>9 DEF IInv

(* --initialized and the way it decides who dismantles the library.         *)
LEMMA ShutCountStep ==
    ASSUME IInv, NEW t \in Threads, ShutCount(t)
    PROVE  IInv'
<1>1. /\ TypeOK /\ pc[t] = "s_count"
      /\ UNCHANGED <<globLock, tables, buffers, locals, ghosts>>
  BY DEF IInv, ShutCount
<1>2. /\ aborted = 0 /\ globLock = t /\ \A u \in Threads \ {t} : pc[u] \notin Inside
      /\ Cardinality(Counted) > 0 /\ Cardinality(Counted) \in Nat
  BY <1>1, Facts DEF Inside, InitPcs, ShutPcs, CountedPcs
<1>3. initialized' = initialized - 1 /\ initialized' \in 0..(UMod - 1)
  <2>1. initialized - 1 \in 0..(UMod - 1)
    BY <1>1, <1>2, BoundAssumption DEF IInv, CounterCounts, TypeOK
  <2> QED BY <2>1, NoWrap DEF ShutCount
<1> DEFINE l == IF initialized' = 0 THEN "s_size" ELSE "s_unlock"
<1>4. Goto(t, l) /\ l \in Labels
  BY DEF ShutCount, LastReference, Labels, ShutPcs
<1>5. /\ Cardinality(Counted)' = Cardinality(Counted) - 1
      /\ Cardinality(Calling)' = Cardinality(Calling)
      /\ pc' \in [Threads -> Labels]
  BY <1>1, <1>4, Move DEF CountedPcs, CallPcs, InitPcs, ShutPcs
<1>6. TypeOK'
  BY <1>1, <1>3, <1>5 DEF TypeOK, Labels, tables, buffers, locals, ghosts
<1>7. GlobalExclusion'
  BY <1>1, <1>2, <1>4 DEF IInv, GlobalExclusion, Goto, TypeOK, Inside
<1>8. CounterCounts'
  BY <1>1, <1>2, <1>3, <1>5 DEF IInv, CounterCounts, ghosts, TypeOK
<1>9. Staging'
  <2>1. initialized # 0 /\ Usable
    BY <1>1, <1>2, <1>3 DEF IInv, Staging, Inside, Building, Wrecking, InitPcs, ShutPcs, TypeOK
  <2> QED
    BY <1>1, <1>2, <1>3, <1>4, <2>1
    DEF IInv, Staging, Stage, Down, Usable, tables, locals, ghosts, Goto, TypeOK, Inside,
        Building, Wrecking, UsePcs, InitPcs, ShutPcs
<1> QED BY <1>6, <1>7, <1>8, <1>9 DEF IInv

(* glob_size goes back to 0.                                                *)
LEMMA ShutSizeStep ==
    ASSUME IInv, NEW t \in Threads, ShutSize(t)
    PROVE  IInv'
<1>1. /\ TypeOK /\ pc[t] = "s_size" /\ Goto(t, "s_comp") /\ "s_comp" \in Labels
      /\ globSize' = 0
      /\ UNCHANGED <<globLock, initialized, names, ready, mtx, up, buffers, ignore, errc,
                     ghosts>>
  BY DEF IInv, ShutSize, Labels, ShutPcs
<1>2. /\ Cardinality(Counted)' = Cardinality(Counted)
      /\ Cardinality(Calling)' = Cardinality(Calling)
      /\ pc' \in [Threads -> Labels]
  BY <1>1, Move DEF CountedPcs, CallPcs, InitPcs, ShutPcs
<1>3. aborted = 0 /\ globLock = t /\ \A u \in Threads \ {t} : pc[u] \notin Inside
  BY <1>1, Facts DEF Inside, ShutPcs
<1>4. /\ idx' \in [Threads -> 0..N] /\ idx'[t] = N /\ N \in Comps
      /\ \A u \in Threads \ {t} : idx'[u] = idx[u]
  BY <1>1, NAssumption DEF ShutSize, SetIdx, TypeOK, Comps
<1>5. TypeOK'
  BY <1>1, <1>2, <1>4, NAssumption DEF TypeOK, Labels, buffers, ghosts
<1>6. GlobalExclusion'
  BY <1>1, <1>3 DEF IInv, GlobalExclusion, Goto, TypeOK, Inside
<1>7. CounterCounts'
  BY <1>1, <1>2 DEF IInv, CounterCounts, ghosts
<1>8. Staging'
  BY <1>1, <1>3, <1>4
  DEF IInv, Staging, Stage, ghosts, Goto, TypeOK, Inside, Building, Wrecking, UsePcs,
      InitPcs, ShutPcs, Comps
<1> QED BY <1>5, <1>6, <1>7, <1>8 DEF IInv

(* A turn of the loop that stops the components, last one first.            *)
LEMMA ShutCompStep ==
    ASSUME IInv, NEW t \in Threads, ShutComp(t)
    PROVE  IInv'
<1> DEFINE l == IF idx[t] = 1 THEN "s_free" ELSE "s_comp"
<1>1. /\ TypeOK /\ pc[t] = "s_comp" /\ Goto(t, l) /\ l \in Labels
      /\ up' = up \ {idx[t]}
      /\ UNCHANGED <<globLock, initialized, globSize, names, ready, mtx, buffers, ignore,
                     errc, ghosts>>
  BY DEF IInv, ShutComp, LastDestroyed, Labels, ShutPcs, Goto, TypeOK
<1>2. /\ Cardinality(Counted)' = Cardinality(Counted)
      /\ Cardinality(Calling)' = Cardinality(Calling)
      /\ pc' \in [Threads -> Labels]
  BY <1>1, Move DEF CountedPcs, CallPcs, InitPcs, ShutPcs
<1>3. aborted = 0 /\ globLock = t /\ \A u \in Threads \ {t} : pc[u] \notin Inside
  BY <1>1, Facts DEF Inside, ShutPcs
<1>4. idx[t] \in Comps /\ up \subseteq 1..idx[t] /\ globSize = 0 /\ initialized = 0
  BY <1>1 DEF IInv, Staging, Stage, Wrecking
<1>5. /\ idx' \in [Threads -> 0..N] /\ \A u \in Threads \ {t} : idx'[u] = idx[u]
      /\ l = "s_comp" => idx'[t] = idx[t] - 1 /\ idx'[t] \in Comps
  BY <1>1, <1>4, NAssumption DEF ShutComp, LastDestroyed, SetIdx, TypeOK, Comps
<1>6. /\ l = "s_comp" => up' \subseteq 1..idx'[t]
      /\ l = "s_free" => up' = {}
  <2>1. \A i \in up : i \in 1..idx[t]
    BY <1>4
  <2>2. idx[t] \in Nat
    BY <1>4 DEF Comps
  <2>3. \A i \in up' : i \in 1..(idx[t] - 1)
    BY <1>1, <2>1, <2>2
  <2> QED BY <1>5, <2>2, <2>3
<1>7. TypeOK'
  BY <1>1, <1>2, <1>5 DEF TypeOK, Labels, buffers, ghosts
<1>8. GlobalExclusion'
  BY <1>1, <1>3 DEF IInv, GlobalExclusion, Goto, TypeOK, Inside
<1>9. CounterCounts'
  BY <1>1, <1>2 DEF IInv, CounterCounts, ghosts
<1>10. Staging'
  BY <1>1, <1>3, <1>4, <1>5, <1>6
  DEF IInv, Staging, Stage, ghosts, Goto, TypeOK, Inside, Building, Wrecking, UsePcs,
      InitPcs, ShutPcs
<1> QED BY <1>7, <1>8, <1>9, <1>10 DEF IInv

(* The named mutexes are destroyed and their table is freed.                *)
LEMMA ShutFreeStep ==
    ASSUME IInv, NEW t \in Threads, ShutFree(t)
    PROVE  IInv'
<1>1. /\ TypeOK /\ pc[t] = "s_free" /\ Goto(t, "s_unlock") /\ "s_unlock" \in Labels
      /\ ready' = {} /\ names' = {} /\ mtx' = [m \in MutexNames |-> Free]
      /\ UNCHANGED <<globLock, initialized, globSize, up, buffers, locals, ghosts>>
  BY DEF IInv, ShutFree, NamesLeft, Labels, ShutPcs
<1>2. /\ Cardinality(Counted)' = Cardinality(Counted)
      /\ Cardinality(Calling)' = Cardinality(Calling)
      /\ pc' \in [Threads -> Labels]
  BY <1>1, Move DEF CountedPcs, CallPcs, InitPcs, ShutPcs
<1>3. aborted = 0 /\ globLock = t /\ \A u \in Threads \ {t} : pc[u] \notin Inside
  BY <1>1, Facts DEF Inside, ShutPcs
<1>4. globSize = 0 /\ up = {} /\ initialized = 0
  BY <1>1 DEF IInv, Staging, Stage, Wrecking
<1>5. TypeOK'
  BY <1>1, <1>2 DEF TypeOK, Labels, buffers, locals, ghosts, Free
<1>6. GlobalExclusion'
  BY <1>1, <1>3 DEF IInv, GlobalExclusion, Goto, TypeOK, Inside
<1>7. CounterCounts'
  BY <1>1, <1>2 DEF IInv, CounterCounts, ghosts
<1>8. Down'
  BY <1>1, <1>4 DEF Down
<1>9. Staging'
  BY <1>1, <1>3, <1>4, <1>8
  DEF IInv, Staging, Stage, locals, ghosts, Goto, TypeOK, Inside, Building, Wrecking, UsePcs,
      InitPcs, ShutPcs
<1> QED BY <1>5, <1>6, <1>7, <1>9 DEF IInv

(* sg_shutdown() returns and leaves the library complete or gone.           *)
LEMMA ShutUnlockStep ==
    ASSUME IInv, NEW t \in Threads, ShutUnlock(t)
    PROVE  IInv'
<1>1. /\ TypeOK /\ pc[t] = "s_unlock" /\ Goto(t, "idle") /\ "idle" \in Labels
      /\ globLock' = NoThread
      /\ UNCHANGED <<initialized, tables, buffers, ghosts>>
  BY DEF IInv, ShutUnlock, Unlocked, Return, Labels
<1>2. /\ Cardinality(Counted)' = Cardinality(Counted)
      /\ Cardinality(Calling)' = Cardinality(Calling) - 1 /\ Cardinality(Calling) \in Nat
      /\ pc' \in [Threads -> Labels]
  BY <1>1, Move DEF CountedPcs, CallPcs, InitPcs, ShutPcs
<1>3. aborted = 0 /\ globLock = t /\ \A u \in Threads \ {t} : pc[u] \notin Inside
  BY <1>1, Facts DEF Inside, ShutPcs
<1>4. /\ idx' \in [Threads -> 0..N] /\ ignore' \in [Threads -> BOOLEAN]
      /\ errc' \in [Threads -> Codes] /\ \A u \in Threads \ {t} : idx'[u] = idx[u]
  BY <1>1, NAssumption DEF ShutUnlock, Return, SetIdx, TypeOK, Codes
<1>5. TypeOK'
  <2>1. refs' \in 0..MaxRefs /\ refs' + Cardinality(Calling)' <= MaxRefs
    BY <1>1, <1>2, BoundAssumption DEF TypeOK, ghosts
  <2> QED BY <1>1, <1>2, <1>4, <2>1 DEF TypeOK, Labels, tables, buffers, ghosts
<1>6. GlobalExclusion'
  BY <1>1, <1>3 DEF IInv, GlobalExclusion, Goto, TypeOK, Inside, InitPcs, ShutPcs
<1>7. CounterCounts'
  BY <1>1, <1>2 DEF IInv, CounterCounts, ghosts
<1>8. Staging'
  BY <1>1, <1>3, <1>4
  DEF IInv, Staging, Stage, Down, Usable, tables, ghosts, Goto, TypeOK, Inside, Building,
      Wrecking, UsePcs, InitPcs, ShutPcs
<1> QED BY <1>5, <1>6, <1>7, <1>8 DEF IInv

(* The end of a thread or of the process frees buffers and nothing else.    *)
LEMMA ExitStep ==
    ASSUME IInv, NEW t \in Threads, ThreadExit(t) \/ ProcessExit(t)
    PROVE  IInv'
<1>1. /\ tls' \in [Threads -> 0..N] /\ vecs' \in [Threads -> SUBSET Comps]
      /\ exited' \in BOOLEAN
      /\ UNCHANGED <<globLock, initialized, tables, pc, locals, refs, aborted>>
  <2>1. DestroyGlobals(t) /\ (exited' = exited \/ exited' = TRUE)
        /\ UNCHANGED <<globLock, initialized, tables, pc, locals, refs, aborted>>
    BY Zenon DEF ThreadExit, ProcessExit, ghosts
  <2>2. tls' \in [Threads -> 0..N] /\ vecs' \in [Threads -> SUBSET Comps]
    BY <2>1, NAssumption DEF DestroyGlobals, IInv, TypeOK
  <2>3. exited' \in BOOLEAN
    BY <2>1, Zenon DEF IInv, TypeOK
  <2> QED BY <2>1, <2>2, <2>3, Zenon
<1>2. UNCHANGED <<Calling, Counted>>
  BY <1>1 DEF Calling, Counted
<1>3. TypeOK'
  BY <1>1, <1>2 DEF IInv, TypeOK, tables, locals
<1>4. GlobalExclusion' /\ CounterCounts'
  BY <1>1, <1>2 DEF IInv, GlobalExclusion, CounterCounts
<1>5. Staging'
  BY <1>1 DEF IInv, Staging, Stage, Down, Usable, tables, locals
<1> QED BY <1>3, <1>4, <1>5 DEF IInv

(* Before the first call everything is zero.                                *)
LEMMA InitIInv == Init => IInv
<1> SUFFICES ASSUME Init PROVE IInv
  OBVIOUS
<1>1. Calling = {} /\ Counted = {}
  BY DEF Init, Calling, Counted, InitPcs, ShutPcs, CountedPcs
<1>2. Cardinality(Calling) = 0 /\ Cardinality(Counted) = 0
  BY <1>1, FS_EmptySet
<1>3. TypeOK
  <2>1. ignore \in [Threads -> BOOLEAN] /\ exited \in BOOLEAN
    BY Zenon DEF Init
  <2>2. mtx \in [MutexNames -> [owner : Threads \cup {NoThread}, count : Nat]]
    BY DEF Init, Free
  <2> QED BY <1>2, <2>1, <2>2, NAssumption, BoundAssumption DEF Init, TypeOK, Codes
<1>4. GlobalExclusion /\ CounterCounts
  BY <1>2 DEF Init, GlobalExclusion, CounterCounts, Inside, InitPcs, ShutPcs
<1>5. Staging
  BY DEF Init, Staging, Stage, Down, Building, Wrecking, UsePcs
<1> QED BY <1>3, <1>4, <1>5 DEF IInv

(* Every step of every thread keeps the invariant.                          *)
LEMMA Inductive == IInv /\ [Next]_vars => IInv'
<1> SUFFICES ASSUME IInv, [Next]_vars PROVE IInv'
  OBVIOUS
<1>1. CASE UNCHANGED vars
  <2>1. UNCHANGED <<Calling, Counted>>
    BY <1>1 DEF vars, Calling, Counted
  <2>2. TypeOK'
    BY <1>1, <2>1 DEF IInv, vars, tables, buffers, locals, ghosts, TypeOK
  <2> QED BY <1>1, <2>1, <2>2
         DEF IInv, vars, tables, buffers, locals, ghosts, GlobalExclusion, CounterCounts,
             Staging, Stage, Down, Usable
<1>2. ASSUME NEW t \in Threads, Calls(t) PROVE IInv'
  BY <1>2, CallInitStep, CallShutdownStep, UseStep, ExitStep DEF Calls
<1>3. ASSUME NEW t \in Threads, Steps(t) PROVE IInv'
  BY <1>3, InitLockStep, InitCountStep, InitSizeStep, InitLocksStep, InitCompStep,
     InitMutexesStep, InitUnlockStep, ShutCountStep, ShutSizeStep, ShutCompStep,
     ShutFreeStep, ShutUnlockStep, UseStep
  DEF Steps
<1> QED BY <1>1, <1>2, <1>3 DEF Next

(* The inductive invariant: types, exclusion, the exact counter, and the    *)
(* stage that the tables have reached (sg_comp_init(), sg_comp_destroy()).   *)
THEOREM InvariantHolds == Spec => []IInv
BY InitIInv, Inductive, PTL DEF Spec

(* The types are right: in particular glob_size never exceeds the size of   *)
(* all components, and the counter stays within `unsigned'.                 *)
THEOREM TypesHold == Spec => []TypeOK
BY InvariantHolds, PTL DEF IInv

(* Two threads are never together between the lock and the unlock of        *)
(* sg_comp_init() and sg_comp_destroy(), early returns included.            *)
THEOREM ExclusionHolds == Spec => []GlobalExclusion
BY InvariantHolds, PTL DEF IInv

(* The counter of sg_comp_init() and sg_comp_destroy() counts the           *)
(* references exactly, whatever the threads' order.                         *)
THEOREM CounterHolds == Spec => []CounterCounts
BY InvariantHolds, PTL DEF IInv

(* The tables of sg_comp_init() and sg_comp_destroy() are as far as their   *)
(* builder or wrecker has brought them, complete or gone between such       *)
(* calls, and an early return of sg_comp_init() keeps the mutex for ever.   *)
THEOREM StagingHolds == Spec => []Staging
BY InvariantHolds, PTL DEF IInv

(* What sg_comp_get_tls() and sg_lock_mutex() read without the global mutex *)
(* is complete whenever a reference is out or a thread is inside.           *)
THEOREM UsableHolds == Spec => []UsableWhileReferenced
<1>1. IInv => UsableWhileReferenced
  <2> SUFFICES ASSUME IInv, refs > 0 \/ (\E t \in Threads : pc[t] \in UsePcs)
               PROVE  Usable
    BY DEF UsableWhileReferenced
  <2>1. refs > 0
    BY DEF IInv, Staging
  <2>2. PICK t : t \in Threads \/ Threads = {}
    OBVIOUS
  <2>3. CASE t \in Threads
    BY <2>1, <2>3, Facts
  <2>4. CASE Threads = {}
    <3>1. Counted = {}
      BY <2>4 DEF Counted
    <3>2. aborted = 0 /\ initialized # 0
      BY <2>1, <2>4, <3>1, FS_EmptySet DEF IInv, Staging, CounterCounts, TypeOK
    <3> QED BY <2>4, <3>2 DEF IInv, Staging
  <2> QED BY <2>2, <2>3, <2>4
<1> QED BY <1>1, InvariantHolds, PTL

(* A library nobody holds and nobody is working on has left nothing behind. *)
THEOREM DownHolds == Spec => []DownMeansDown
<1>1. IInv => DownMeansDown
  <2> SUFFICES ASSUME IInv, globLock = NoThread, initialized = 0 PROVE Down
    BY DEF DownMeansDown
  <2>1. \A t \in Threads : pc[t] \notin Building \cup Wrecking
    BY ThreadsAssumption
    DEF IInv, GlobalExclusion, Building, Wrecking, Inside, InitPcs, ShutPcs
  <2>2. aborted = 0
    BY DEF IInv, Staging, TypeOK
  <2> QED BY <2>1, <2>2 DEF IInv, Staging
<1> QED BY <1>1, InvariantHolds, PTL

----------------------------------------------------------------------------
(* Components and mutexes change only while nobody holds a reference: the   *)
(* action property, from the same invariant.                                *)
THEOREM ChangeHolds == Spec => ChangeOnlyUnreferenced
<1>1. ASSUME IInv, [Next]_vars, up' # up \/ names' # names \/ ready' # ready
      PROVE  refs = 0
  <2>1. ~UNCHANGED vars
    BY <1>1 DEF vars, tables
  <2>2. PICK t \in Threads : Calls(t) \/ Steps(t)
    BY <1>1, <2>1 DEF Next
  <2>3. ~Calls(t)
    BY <1>1
    DEF Calls, CallInit, CallShutdown, CallStat, CallLockMutex, CallUnlockMutex, ThreadExit,
        ProcessExit, tables
  <2>4. \/ InitLocks(t) \/ InitComp(t) \/ InitMutexes(t) \/ ShutComp(t) \/ ShutFree(t)
    BY <1>1, <2>2, <2>3
    DEF Steps, InitLock, ShutLock, GlobalLock, InitCount, InitSize, InitUnlock, ShutCount,
        ShutSize, ShutUnlock, GetTls, Fill, UtmpLock, UtmpUnlock, LockMutex, tables
  <2>5. pc[t] \in Building \cup Wrecking
    BY <2>4
    DEF InitLocks, InitComp, InitMutexes, ShutComp, ShutFree, Building, Wrecking
  <2> QED BY <1>1, <2>5, Facts
<1>2. IInv /\ [Next]_vars => [up' # up \/ names' # names \/ ready' # ready => refs = 0]_vars
  BY <1>1
<1> QED BY <1>2, InvariantHolds, PTL DEF Spec, ChangeOnlyUnreferenced

----------------------------------------------------------------------------
(* The thread-local buffers and the mutex "utmp".  A thread that fills a    *)
(* buffer has one, and a thread that walks the login records owns the mutex.*)
Owning ==
    \A t \in Threads : /\ pc[t] = "u_fill" => tls[t] # 0
                       /\ pc[t] = "u_utmp" => mtx["utmp"].owner = t

BInv == TlsHoldsAllComponents /\ NoVectorLeaks /\ Owning

(* Every step keeps the buffers whole and the owners of utmp apart.         *)
LEMMA BuffersInductive == IInv /\ BInv /\ [Next]_vars => BInv'
<1> SUFFICES ASSUME IInv, BInv, [Next]_vars PROVE BInv'
  OBVIOUS
<1> USE DEF BInv
<1>1. TypeOK /\ \A u \in Threads : pc[u] \in UsePcs => refs > 0
  BY DEF IInv, Staging
<1>2. CASE UNCHANGED vars
  BY <1>2 DEF vars, tables, buffers, TlsHoldsAllComponents, NoVectorLeaks, Owning
<1>3. ASSUME NEW t \in Threads, Calls(t) \/ Steps(t) PROVE BInv'
  <2> USE <1>1
  <2>1. Usable \/ \A u \in Threads : pc[u] \notin UsePcs
    BY Facts
  <2>2. CASE CallInit(t) \/ CallShutdown(t) \/ CallStat(t) \/ CallLockMutex(t)
    BY <2>2
    DEF CallInit, CallShutdown, CallStat, CallLockMutex, NamedLabel, Goto, TypeOK, tables,
        buffers, TlsHoldsAllComponents, NoVectorLeaks, Owning
  <2>3. CASE InitLock(t) \/ ShutLock(t) \/ InitCount(t) \/ InitSize(t)
    BY <2>3
    DEF InitLock, ShutLock, GlobalLock, InitCount, InitSize, Goto, TypeOK, tables, buffers,
        TlsHoldsAllComponents, NoVectorLeaks, Owning
  <2>4. CASE InitUnlock(t) \/ ShutUnlock(t) \/ ShutCount(t) \/ ShutSize(t) \/ ShutComp(t)
    BY <2>4
    DEF InitUnlock, ShutUnlock, ShutCount, ShutSize, ShutComp, Return, Goto, TypeOK, tables,
        buffers, TlsHoldsAllComponents, NoVectorLeaks, Owning
  <2>5. CASE InitLocks(t)
    BY <2>5
    DEF InitLocks, ReturnEarly, Goto, TypeOK, MutexNames, buffers, TlsHoldsAllComponents,
        NoVectorLeaks, Owning
  <2>6. CASE InitComp(t)
    <3>1. globSize = N /\ mtx' = mtx /\ vecs' = vecs /\ pc[t] = "i_comp"
      BY <2>6 DEF InitComp, ReturnEarly, IInv, Staging, Stage, Building
    <3>2. /\ \A u \in Threads \ {t} : pc'[u] = pc[u] /\ tls'[u] = tls[u]
          /\ pc'[t] \in {"i_comp", "i_mutex", "idle"}
          /\ tls'[t] = tls[t] \/ (tls[t] = 0 /\ tls'[t] \in {0, N})
      BY <2>6, <3>1 DEF InitComp, ReturnEarly, Goto, TypeOK
    <3> QED BY <3>1, <3>2 DEF TlsHoldsAllComponents, NoVectorLeaks, Owning
  <2>7. CASE InitMutexes(t) \/ ShutFree(t)
    <3>1. pc[t] \in Building \cup Wrecking
      BY <2>7 DEF InitMutexes, ShutFree, Building, Wrecking
    <3>2. refs = 0
      BY <3>1, Facts
    <3>3. \A u \in Threads : pc[u] \notin UsePcs
      BY <3>2
    <3>4. \A u \in Threads : pc'[u] \notin {"u_fill", "u_utmp"}
      BY <2>7, <3>3 DEF InitMutexes, ShutFree, ReturnEarly, Goto, TypeOK, UsePcs
    <3> QED BY <2>7, <3>4
        DEF InitMutexes, ShutFree, buffers, TlsHoldsAllComponents, NoVectorLeaks, Owning
  <2>8. CASE GetTls(t)
    <3>1. globSize = N /\ mtx' = mtx /\ vecs' = vecs /\ N # 0
      BY <2>1, <2>8, NAssumption DEF GetTls, UsePcs, Usable, tables
    <3>2. /\ \A u \in Threads \ {t} : pc'[u] = pc[u] /\ tls'[u] = tls[u]
          /\ pc'[t] \in {"u_fill", "idle", "n_held"}
          /\ tls'[t] = tls[t] \/ (tls[t] = 0 /\ tls'[t] \in {0, N})
          /\ pc'[t] = "u_fill" => tls'[t] # 0
      BY <2>8, <3>1 DEF GetTls, Back, Goto, TypeOK
    <3> QED BY <3>1, <3>2 DEF TlsHoldsAllComponents, NoVectorLeaks, Owning
  <2>9. CASE Fill(t)
    BY <2>9
    DEF Fill, Back, Goto, TypeOK, tables, TlsHoldsAllComponents, NoVectorLeaks, Owning
  <2>10. CASE UtmpLock(t)
    <3>1. "utmp" \in ready /\ MayEnter(mtx["utmp"], t)
      BY <2>1, <2>10
      DEF UtmpLock, UsePcs, Usable, RequiredNames, IInv, Staging
    <3>2. mtx'["utmp"].owner = t /\ \A u \in Threads \ {t} : pc[u] # "u_utmp"
      BY <2>10, <3>1, ThreadsAssumption DEF UtmpLock, TypeOK, MutexNames, MayEnter, Owning
    <3> QED BY <2>10, <3>2
        DEF UtmpLock, Goto, TypeOK, buffers, TlsHoldsAllComponents, NoVectorLeaks, Owning
  <2>11. CASE UtmpUnlock(t)
    <3>1. \A u \in Threads \ {t} : pc[u] # "u_utmp" /\ pc'[u] = pc[u]
      BY <2>11 DEF UtmpUnlock, Goto, TypeOK, Owning
    <3>2. pc'[t] \in {"n_held", "idle"}
      BY <2>11 DEF UtmpUnlock, Goto, TypeOK
    <3> QED BY <2>11, <3>1, <3>2
        DEF UtmpUnlock, buffers, TlsHoldsAllComponents, NoVectorLeaks, Owning
  <2>12. CASE LockMutex(t)
    <3>1. \A u \in Threads : pc'[u] = "u_utmp" => pc[u] = "u_utmp" /\ u # t
      BY <2>12 DEF LockMutex, NamedLabel, Goto, TypeOK
    <3>2. \A u \in Threads : pc'[u] = "u_fill" => pc[u] = "u_fill" /\ u # t
      BY <2>12 DEF LockMutex, NamedLabel, Goto, TypeOK
    <3>3. \A u \in Threads : pc[u] = "u_utmp" => mtx'["utmp"] = mtx["utmp"]
      BY <2>12, ThreadsAssumption, InputsAssumption
      DEF LockMutex, TypeOK, MutexNames, Owning
    <3> QED BY <2>12, <3>1, <3>2, <3>3
        DEF LockMutex, buffers, TlsHoldsAllComponents, NoVectorLeaks, Owning
  <2>13. CASE CallUnlockMutex(t)
    <3>1. \A u \in Threads : pc'[u] = "u_utmp" => pc[u] = "u_utmp" /\ u # t
      BY <2>13 DEF CallUnlockMutex, Goto, TypeOK
    <3>2. \A u \in Threads : pc'[u] = "u_fill" => pc[u] = "u_fill" /\ u # t
      BY <2>13 DEF CallUnlockMutex, Goto, TypeOK
    <3>3. \A u \in Threads \ {t} : pc[u] = "u_utmp" => mtx'["utmp"] = mtx["utmp"]
      BY <2>13, InputsAssumption DEF CallUnlockMutex, TypeOK, MutexNames, Owning
    <3> QED BY <2>13, <3>1, <3>2, <3>3
        DEF CallUnlockMutex, buffers, TlsHoldsAllComponents, NoVectorLeaks, Owning
  <2>14. CASE ThreadExit(t) \/ ProcessExit(t)
    <3>1. DestroyGlobals(t) /\ UNCHANGED <<pc, tables>> /\ pc[t] = "idle"
      BY <2>14 DEF ThreadExit, ProcessExit
    <3>2. vecs'[t] = {} /\ tls'[t] = 0
      BY <3>1 DEF DestroyGlobals, Cleaned, TypeOK, Comps
    <3> QED BY <3>1, <3>2
        DEF DestroyGlobals, TypeOK, tables, TlsHoldsAllComponents, NoVectorLeaks, Owning
  <2> QED BY <1>3, <2>2, <2>3, <2>4, <2>5, <2>6, <2>7, <2>8, <2>9, <2>10, <2>11, <2>12,
             <2>13, <2>14 DEF Calls, Steps
<1> QED BY <1>2, <1>3 DEF Next

(* The buffers are so in every execution.                                   *)
LEMMA BuffersHold == Spec => []BInv
<1>1. Init => BInv
  BY DEF Init, BInv, TlsHoldsAllComponents, NoVectorLeaks, Owning
<1> QED BY <1>1, BuffersInductive, InvariantHolds, PTL DEF Spec

(* No thread ever has a buffer too small for the last components, although  *)
(* sg_alloc_globals() reads glob_size without the global mutex.             *)
THEOREM TlsHolds == Spec => []TlsHoldsAllComponents
BY BuffersHold, PTL DEF BInv

(* sg_destroy_globals() leaves no vector of a thread that has ended.        *)
THEOREM NoLeakHolds == Spec => []NoVectorLeaks
BY BuffersHold, PTL DEF BInv

(* The walk over the login records excludes every other walk and every      *)
(* application that holds "utmp", although the result of the lock is not    *)
(* looked at.                                                               *)
THEOREM UtmpHolds == Spec => []UtmpExclusive
<1>1. BInv => UtmpExclusive
  BY DEF BInv, Owning, UtmpExclusive
<1> QED BY <1>1, BuffersHold, PTL
============================================================================
