------------------------- MODULE DifferencesProofs -------------------------
(***************************************************************************)
(* Differences, for every number of items, every order they are listed in  *)
(* and every width of the counters.                                        *)
(***************************************************************************)
EXTENDS Differences, FiniteSetTheorems, SequenceTheorems, TLAPS

\* The counters are as wide as compute_diff_fn takes them to be.
WidthsAgree ==
    (Style = "network" /\ Wrap = MaxVal) \/ (Style = "disk" /\ Wrap = Wide)

\* A multiple of w with less than w added is itself less than w only if it is 0.
LEMMA SmallMultiple ==
    ASSUME NEW w \in Nat, w > 0, NEW q \in Int, NEW d \in Int,
           0 <= d, d < w, 0 <= w * q + d, w * q + d < w
    PROVE  q = 0
<1>1. CASE q >= 1
  <2>1. w * q >= w
    BY <1>1
  <2> QED BY <2>1
<1>2. CASE q <= 0 - 1
  <2>1. w * q <= 0 - w
    BY <1>2
  <2> QED BY <2>1
<1> QED BY <1>1, <1>2

\* Two readings of a counter that has wrapped at most once tell what it has moved.
LEMMA WrapDiff ==
    ASSUME WidthsAgree, NEW x \in Nat, NEW y \in Nat, y <= x, x - y < Wrap
    PROVE  ComputeDiff(x % Wrap, y % Wrap) = x - y
<1> DEFINE r == x % Wrap
           s == y % Wrap
           p == x \div Wrap
           q == y \div Wrap
<1>1. /\ Wrap \in Nat /\ Wrap > 0 /\ Wide \in Nat /\ Wide > 0 /\ Wrap <= Wide
      /\ Style \in {"network", "disk"}
  BY DifferencesAssumption
<1>2. r \in Nat /\ r < Wrap /\ p \in Nat /\ x = Wrap * p + r
  BY <1>1
<1>3. s \in Nat /\ s < Wrap /\ q \in Nat /\ y = Wrap * q + s
  BY <1>1
<1> HIDE DEF r, s, p, q
<1>4. x - y = Wrap * (p - q) + (r - s)
  <2>1. Wrap * (p - q) = Wrap * p - Wrap * q
    BY <1>1, <1>2, <1>3
  <2> QED BY <2>1, <1>1, <1>2, <1>3
<1>5. CASE r >= s
  <2>1. p - q = 0
    <3>1. p - q \in Int /\ r - s \in Int /\ 0 <= r - s /\ r - s < Wrap
      BY <1>1, <1>2, <1>3, <1>5
    <3>2. 0 <= Wrap * (p - q) + (r - s) /\ Wrap * (p - q) + (r - s) < Wrap
      BY <1>4, <1>1
    <3> QED BY <3>1, <3>2, <1>1, SmallMultiple
  <2>2. x - y = r - s
    BY <2>1, <1>4, <1>1, <1>2, <1>3
  <2>3. (r - s) % Wide = r - s
    BY <1>1, <1>2, <1>3, <1>5
  <2> QED BY <1>1, <1>5, <2>2, <2>3 DEF ComputeDiff, TransferDiff, r, s
<1>6. CASE r < s
  <2>1. p - q - 1 = 0
    <3>1. /\ p - q - 1 \in Int /\ Wrap + r - s \in Int
          /\ 0 <= Wrap + r - s /\ Wrap + r - s < Wrap
      BY <1>1, <1>2, <1>3, <1>6
    <3>2. Wrap * (p - q) = Wrap * (p - q - 1) + Wrap
      BY <1>1, <1>2, <1>3
    <3>3. x - y = Wrap * (p - q - 1) + (Wrap + r - s)
      BY <1>1, <1>2, <1>3, <1>4, <3>2
    <3> DEFINE k == p - q - 1
               d == Wrap + r - s
    <3>4. k \in Int /\ d \in Int /\ 0 <= d /\ d < Wrap /\ x - y = Wrap * k + d
      BY <3>1, <3>3
    <3> HIDE DEF k, d
    <3>5. 0 <= Wrap * k + d /\ Wrap * k + d < Wrap
      BY <3>4, <1>1
    <3>6. k = 0
      BY <3>4, <3>5, <1>1, SmallMultiple
    <3> QED BY <3>6 DEF k
  <2>2. x - y = Wrap + r - s
    <3>1. p - q = 1
      BY <2>1, <1>2, <1>3
    <3> QED BY <3>1, <1>4, <1>1, <1>2, <1>3
  <2>3. (Wrap + r - s) % Wide = Wrap + r - s
    BY <1>1, <1>2, <1>3, <1>6
  <2>4. CASE Style = "network" /\ Wrap = MaxVal
    BY <1>1, <1>2, <1>3, <1>6, <2>2, <2>3, <2>4 DEF ComputeDiff, TransferDiff, r, s
  <2>5. CASE Style = "disk" /\ Wrap = Wide
    <3>1. (r - s) % Wide = Wide + r - s
      BY <1>1, <1>2, <1>3, <1>6, <2>5
    <3> QED BY <3>1, <2>2, <2>5 DEF ComputeDiff, r, s
  <2> QED BY <2>4, <2>5 DEF WidthsAgree
<1> QED BY <1>2, <1>3, <1>5, <1>6

----------------------------------------------------------------------------
(* The inductive invariant                                                 *)

\* A list without doubles whose counters are those of m.
Sampled(s, m) ==
    /\ s \in Seq([name : Names, count : Nat])
    /\ \A a, b \in DOMAIN s : s[a].name = s[b].name => a = b
    /\ \A a \in DOMAIN s : s[a].count = m[s[a].name] % Wrap

\* The loops have compared item a of now with item b of last.
Passed(a, b) == a < i \/ (a = i /\ b < j)

\* How far the loops have come: what has been matched is subtracted, what has not is
\* still the clone of the current item, and only what has been passed is matched.
Progress ==
    /\ diff \in Seq(Int) /\ Len(diff) = Len(now)
    /\ i \in Nat /\ j \in Nat /\ i >= 1 /\ j >= 1
    /\ \A a \in DOMAIN now : \A b \in DOMAIN last :
         last[b].name = now[a].name /\ Passed(a, b)
           => diff[a] = ComputeDiff(now[a].count, last[b].count)
    /\ \A a \in DOMAIN now :
         (\A b \in DOMAIN last : last[b].name = now[a].name => ~Passed(a, b))
           => diff[a] = now[a].count
    /\ \A b \in matched : b \in DOMAIN last =>
         \E a \in DOMAIN now : last[b].name = now[a].name /\ Passed(a, b)

\* An item that was listed and has not gone away since has only moved more.
Base ==
    /\ pc = "start" => now = <<>>
    /\ pc = "idle" => \A n \in Names :
         Listed(now, n) /\ n \notin cut => n \in present /\ is[n] <= moved[n]
    /\ pc \in {"loop", "done"} =>
         /\ is = moved /\ \A n \in Names : Listed(now, n) => n \in present
         /\ \A n \in Names : Listed(last, n) /\ n \notin cut => was[n] <= is[n]

DInv ==
    /\ present \subseteq Names
    /\ moved \in [Names -> Nat] /\ was \in [Names -> Nat] /\ is \in [Names -> Nat]
    /\ pc \in {"start", "idle", "loop", "done"}
    /\ Sampled(now, is) /\ Sampled(last, was)
    /\ Base
    /\ pc \in {"loop", "done"} => Progress
    /\ pc = "done" => i > Len(now)

\* Nothing is listed before the first sample.
LEMMA DInit == Init => DInv
<1> SUFFICES ASSUME Init PROVE DInv
  OBVIOUS
<1>1. <<>> \in Seq([name : Names, count : Nat]) /\ DOMAIN <<>> = {}
  OBVIOUS
<1>2. now = <<>> /\ last = <<>> /\ pc = "start" /\ present \subseteq Names
  BY DEF Init
<1>3. Sampled(now, is) /\ Sampled(last, was)
  BY <1>1, <1>2 DEF Sampled
<1>4. moved \in [Names -> Nat] /\ was \in [Names -> Nat] /\ is \in [Names -> Nat]
  BY DEF Init
<1> QED BY <1>2, <1>3, <1>4 DEF DInv, Base

\* A sample counts in natural numbers.
LEMMA CountIsNat ==
    ASSUME NEW m, NEW s, Sampled(s, m) PROVE \A a \in DOMAIN s : s[a].count \in Nat
<1> DEFINE I == [name : Names, count : Nat]
<1>1. \A x \in I : x.count \in Nat
  OBVIOUS
<1>2. s \in Seq(I)
  BY DEF Sampled
<1> HIDE DEF I
<1>3. \A a \in DOMAIN s : s[a] \in I
  BY <1>2
<1> QED BY <1>1, <1>3

\* A sample names items of the system.
LEMMA NameIsItem ==
    ASSUME NEW m, NEW s, Sampled(s, m) PROVE \A a \in DOMAIN s : s[a].name \in Names
<1> DEFINE I == [name : Names, count : Nat]
<1>1. \A x \in I : x.name \in Names
  OBVIOUS
<1>2. s \in Seq(I)
  BY DEF Sampled
<1> HIDE DEF I
<1>3. \A a \in DOMAIN s : s[a] \in I
  BY <1>2
<1> QED BY <1>1, <1>3

\* The system lists everything that exists, once.
LEMMA ListingIsSampled ==
    ASSUME DInv, NEW s \in Orders
    PROVE  /\ Sampled(Listing(s), moved)
           /\ \A n \in Names : Listed(Listing(s), n) => n \in present
           /\ Listing(s) \in Seq([name : Names, count : Nat])
<1>1. IsFiniteSet(present) /\ Cardinality(present) \in Nat
  <2>1. IsFiniteSet(Names)
    BY DifferencesAssumption
  <2> QED BY <2>1, FS_Subset, FS_CardinalityType DEF DInv
<1>2. s \in [1..Cardinality(present) -> present] /\ DOMAIN s = 1..Cardinality(present)
      /\ \A a, b \in DOMAIN s : s[a] = s[b] => a = b
  BY DEF Orders
<1>3. \A a \in DOMAIN s : s[a] \in Names /\ moved[s[a]] % Wrap \in Nat /\ s[a] \in present
  BY <1>2, DifferencesAssumption DEF DInv
<1>4. DOMAIN Listing(s) = DOMAIN s /\ \A a \in DOMAIN s :
        Listing(s)[a] = [name |-> s[a], count |-> moved[s[a]] % Wrap]
  BY DEF Listing
<1>5. Listing(s) \in Seq([name : Names, count : Nat])
  <2> DEFINE k == Cardinality(present)
             I == [name : Names, count : Nat]
  <2>1. Listing(s) \in [1..k -> I]
    BY <1>2, <1>3 DEF Listing
  <2>2. k \in Nat
    BY <1>1
  <2> HIDE DEF k, I
  <2>3. Listing(s) \in Seq(I)
    BY <2>1, <2>2, SeqDef
  <2> QED BY <2>3 DEF I
<1> QED BY <1>2, <1>3, <1>4, <1>5 DEF Sampled, Listed

\* The operating system moves on.
LEMMA DSystem ==
    ASSUME DInv, NEW n \in Names, Transfer(n) \/ Disappear(n) \/ Appear(n)
    PROVE  DInv'
<1>1. pc = "idle" /\ UNCHANGED <<now, last, was, is, diff, i, j, matched, pc>>
  BY DEF Transfer, Disappear, Appear, samples, loop
<1>2. present' \subseteq Names /\ moved' \in [Names -> Nat]
  <2>1. CASE Transfer(n)
    BY <2>1 DEF Transfer, DInv
  <2>2. CASE Disappear(n)
    BY <2>2 DEF Disappear, DInv
  <2>3. CASE Appear(n)
    BY <2>3 DEF Appear, DInv
  <2> QED BY <2>1, <2>2, <2>3
<1>3. Base'
  <2>1. SUFFICES ASSUME NEW m \in Names, Listed(now, m), m \notin cut'
                 PROVE  m \in present' /\ is[m] <= moved'[m]
    BY <1>1 DEF Base, Listed
  <2>2. m \notin cut
    BY <2>1 DEF Transfer, Disappear, Appear
  <2>3. m \in present /\ is[m] <= moved[m]
    BY <1>1, <2>1, <2>2 DEF DInv, Base
  <2>4. m \in present'
    BY <2>1, <2>3 DEF Transfer, Disappear, Appear
  <2>5. moved[m] <= moved'[m]
    BY <2>3 DEF Transfer, Disappear, Appear, DInv
  <2> QED BY <2>3, <2>4, <2>5, <1>2 DEF DInv
<1> QED BY <1>1, <1>2, <1>3 DEF DInv, Sampled

\* A sample is taken.
LEMMA DSample ==
    ASSUME DInv, Get \/ CallDiff PROVE DInv'
<1>1. PICK s \in Orders : now' = Listing(s)
  BY DEF Get, CallDiff
<1>2. /\ Sampled(now', moved) /\ \A n \in Names : Listed(now', n) => n \in present
  BY <1>1, ListingIsSampled
<1>3. is' = moved /\ moved' = moved /\ present' = present
  BY DEF Get, CallDiff, system
<1>4. Sampled(now, is)' /\ is' \in [Names -> Nat]
  BY <1>2, <1>3 DEF DInv, Sampled
<1>5. \A n \in Names : moved[n] \in Nat
  BY DEF DInv
<1>6. CASE Get
  <2>1. pc' = "idle" /\ UNCHANGED <<last, was>>
    BY <1>6 DEF Get
  <2>2. Sampled(last, was)'
    BY <2>1 DEF DInv, Sampled
  <2>3. Base'
    BY <2>1, <1>2, <1>3, <1>5 DEF Base, Listed
  <2> QED BY <1>3, <1>4, <2>1, <2>2, <2>3 DEF DInv
<1>7. CASE CallDiff
  <2>1. /\ pc = "idle" /\ pc' = "loop" /\ last' = now /\ was' = is /\ cut' = cut
        /\ diff' = [a \in DOMAIN now' |-> now'[a].count]
        /\ i' = 1 /\ j' = 1 /\ matched' = {}
    BY <1>7 DEF CallDiff, system
  <2>2. Sampled(last, was)' /\ was' \in [Names -> Nat]
    BY <2>1 DEF DInv, Sampled
  <2>3. Base'
    <3>1. \A n \in Names : Listed(now, n) /\ n \notin cut => is[n] <= moved[n]
      BY <2>1 DEF DInv, Base
    <3> QED BY <2>1, <3>1, <1>2, <1>3 DEF Base, Listed
  <2>4. Progress'
    <3>1. now' \in Seq([name : Names, count : Nat]) /\ last' \in Seq([name : Names, count : Nat])
      BY <1>4, <2>2 DEF Sampled
    <3>3. DOMAIN now' = 1..Len(now') /\ DOMAIN last' = 1..Len(last') /\ Len(now') \in Nat
      BY <3>1
    <3>2. diff' \in Seq(Int) /\ Len(diff') = Len(now')
      <4> DEFINE k == Len(now')
      <4>1. \A a \in DOMAIN now' : now'[a].count \in Nat
        BY <1>2, CountIsNat
      <4>2. diff' \in [1..k -> Int] /\ k \in Nat
        BY <2>1, <3>3, <4>1
      <4> HIDE DEF k
      <4>3. diff' \in Seq(Int)
        BY <4>2, SeqDef
      <4>4. Len(diff') = k
        BY <4>2, <4>3
      <4> QED BY <4>3, <4>4 DEF k
    <3>4. \A a \in DOMAIN now' : \A b \in DOMAIN last' : ~Passed(a, b)'
      BY <2>1, <3>3 DEF Passed
    <3>5. \A a \in DOMAIN now' : diff'[a] = now'[a].count
      BY <2>1
    <3> QED BY <2>1, <3>2, <3>4, <3>5 DEF Progress
  <2> QED BY <1>3, <1>4, <2>1, <2>2, <2>3, <2>4 DEF DInv
<1> QED BY <1>6, <1>7

\* The inner loop subtracts from an item its one item of the last sample.
LEMMA DInner ==
    ASSUME DInv, Inner PROVE DInv'
<1>1. /\ pc = "loop" /\ pc' = "loop" /\ i' = i /\ j' = j + 1 /\ j <= Len(last)
      /\ i <= Len(diff) /\ UNCHANGED <<now, last, was, is, present, moved, cut>>
  BY DEF Inner, system, samples
<1>2. /\ Progress /\ Sampled(now, is) /\ Sampled(last, was)
      /\ i \in Nat /\ j \in Nat /\ i >= 1 /\ j >= 1
  BY <1>1 DEF DInv, Progress
<1>3. /\ now \in Seq([name : Names, count : Nat]) /\ last \in Seq([name : Names, count : Nat])
      /\ DOMAIN now = 1..Len(now) /\ DOMAIN last = 1..Len(last)
      /\ DOMAIN diff = 1..Len(now) /\ diff \in Seq(Int) /\ Len(diff) = Len(now)
  BY <1>2 DEF Sampled, Progress
<1>4. \A a \in DOMAIN now : \A b \in DOMAIN last :
        Passed(a, b)' <=> Passed(a, b) \/ (a = i /\ b = j)
  <2>1. \A b \in DOMAIN last : b \in Int
    BY <1>3
  <2>2. \A b \in Int : b < j + 1 <=> b < j \/ b = j
    BY <1>2
  <2>3. \A a \in DOMAIN now : \A b \in DOMAIN last : b < j' <=> b < j \/ b = j
    BY <1>1, <2>1, <2>2
  <2> QED BY <1>1, <2>3 DEF Passed
<1>5. \A b \in DOMAIN last : ~Passed(i, j) /\ (Passed(i, b) => b < j)
  BY <1>2, <1>3 DEF Passed
<1>6. CASE Matches(j, i)
  <2>1. /\ matched' = matched \cup {j} /\ last[j].name = now[i].name
        /\ diff' = [diff EXCEPT ![i] = ComputeDiff(@, last[j].count)]
    BY <1>6 DEF Inner, Matches
  <2>2. i \in DOMAIN now /\ j \in DOMAIN last
    BY <1>1, <1>2, <1>3, <1>6
  <2>3. \A b \in DOMAIN last : last[b].name = now[i].name => b = j
    BY <1>2, <2>1, <2>2 DEF Sampled
  <2>4. diff[i] = now[i].count
    <3>1. \A b \in DOMAIN last : last[b].name = now[i].name => ~Passed(i, b)
      BY <1>5, <2>2, <2>3
    <3> QED BY <3>1, <2>2, <1>2 DEF Progress
  <2>5. /\ diff'[i] = ComputeDiff(now[i].count, last[j].count)
        /\ \A a \in DOMAIN now : a # i => diff'[a] = diff[a]
    BY <1>3, <2>1, <2>2, <2>4
  <2>6. diff' \in Seq(Int) /\ Len(diff') = Len(now)
    <3>1. ComputeDiff(now[i].count, last[j].count) \in Int
      <4>1. now[i].count \in Nat /\ last[j].count \in Nat
        BY <1>2, <1>3, <2>2, CountIsNat
      <4>2. MaxVal \in Int /\ Wide \in Nat /\ Wide > 0
        BY DifferencesAssumption
      <4> QED BY <4>1, <4>2 DEF ComputeDiff, TransferDiff
    <3> QED BY <1>3, <2>1, <2>2, <2>4, <3>1
  <2>7. ASSUME NEW a \in DOMAIN now, NEW b \in DOMAIN last,
               last[b].name = now[a].name, Passed(a, b)'
        PROVE  diff'[a] = ComputeDiff(now[a].count, last[b].count)
    <3>1. CASE a = i
      BY <2>3, <2>5, <2>7, <3>1
    <3>2. CASE a # i
      BY <1>2, <1>4, <2>5, <2>7, <3>2 DEF Progress
    <3> QED BY <3>1, <3>2
  <2>8. ASSUME NEW a \in DOMAIN now,
               \A b \in DOMAIN last : last[b].name = now[a].name => ~Passed(a, b)'
        PROVE  diff'[a] = now[a].count
    <3>1. a # i
      BY <1>4, <2>1, <2>2, <2>8
    <3>2. \A b \in DOMAIN last : last[b].name = now[a].name => ~Passed(a, b)
      BY <1>4, <2>8
    <3> QED BY <1>2, <2>5, <3>1, <3>2 DEF Progress
  <2>9. ASSUME NEW b \in matched', b \in DOMAIN last
        PROVE  \E a \in DOMAIN now : last[b].name = now[a].name /\ Passed(a, b)'
    <3>1. CASE b = j
      BY <1>4, <2>1, <2>2, <3>1
    <3>2. CASE b \in matched
      BY <1>2, <1>4, <2>9, <3>2 DEF Progress
    <3> QED BY <2>1, <3>1, <3>2
  <2>10. Progress'
    BY <1>1, <1>2, <2>6, <2>7, <2>8, <2>9 DEF Progress
  <2> QED BY <1>1, <2>10 DEF DInv, Sampled, Base, Listed
<1>7. CASE ~Matches(j, i)
  <2>1. matched' = matched /\ diff' = diff
    BY <1>7 DEF Inner
  <2>2. ASSUME i \in DOMAIN now, j \in DOMAIN last PROVE last[j].name # now[i].name
    <3>1. SUFFICES ASSUME last[j].name = now[i].name PROVE FALSE
      OBVIOUS
    <3>2. j \in matched
      BY <1>7, <3>1 DEF Matches
    <3>3. PICK a \in DOMAIN now : last[j].name = now[a].name /\ Passed(a, j)
      BY <1>2, <2>2, <3>2 DEF Progress
    <3>4. a = i
      BY <1>2, <2>2, <3>1, <3>3 DEF Sampled
    <3> QED BY <1>5, <2>2, <3>3, <3>4
  <2>3. \A a \in DOMAIN now : \A b \in DOMAIN last :
          last[b].name = now[a].name => (Passed(a, b)' <=> Passed(a, b))
    BY <1>4, <2>2
  <2>4. Progress'
    BY <1>1, <1>2, <2>1, <2>3 DEF Progress
  <2> QED BY <1>1, <2>4 DEF DInv, Sampled, Base, Listed
<1> QED BY <1>6, <1>7

\* The outer loop goes on to the next item of the current sample.
LEMMA DOuter ==
    ASSUME DInv, Outer PROVE DInv'
<1>1. /\ pc = "loop" /\ pc' = "loop" /\ i' = i + 1 /\ j' = 1 /\ j > Len(last)
      /\ UNCHANGED <<now, last, was, is, present, moved, cut, diff, matched>>
  BY DEF Outer, system, samples
<1>2. /\ Progress /\ Sampled(now, is) /\ Sampled(last, was)
      /\ i \in Nat /\ j \in Nat /\ i >= 1 /\ j >= 1
  BY <1>1 DEF DInv, Progress
<1>3. /\ DOMAIN now = 1..Len(now) /\ DOMAIN last = 1..Len(last)
      /\ Len(now) \in Nat /\ Len(last) \in Nat
  BY <1>2 DEF Sampled
<1>4. ASSUME NEW a \in DOMAIN now, NEW b \in DOMAIN last
      PROVE  Passed(a, b)' <=> Passed(a, b)
  <2>1. a \in Int /\ b \in Int /\ 1 <= b /\ b <= Len(last)
    BY <1>3
  <2>2. b < j /\ ~(b < 1) /\ (a < i + 1 <=> a < i \/ a = i)
    BY <1>1, <1>2, <1>3, <2>1
  <2> QED BY <1>1, <2>2 DEF Passed
<1>5. i' \in Nat /\ j' \in Nat /\ i' >= 1 /\ j' >= 1
  BY <1>1, <1>2
<1>6. Progress'
  BY <1>1, <1>2, <1>4, <1>5 DEF Progress
<1> QED BY <1>1, <1>6 DEF DInv, Sampled, Base, Listed

\* Both loops are over.
LEMMA DFinish ==
    ASSUME DInv, Finish PROVE DInv'
<1>1. /\ pc = "loop" /\ pc' = "done" /\ i > Len(diff)
      /\ UNCHANGED <<now, last, was, is, present, moved, cut, diff, matched, i, j>>
  BY DEF Finish, system, samples, loop
<1>2. Progress /\ Len(diff) = Len(now)
  BY <1>1 DEF DInv, Progress
<1>3. Progress'
  BY <1>1, <1>2 DEF Progress, Passed
<1> QED BY <1>1, <1>2, <1>3 DEF DInv, Sampled, Base, Listed

\* The sample of this difference is the base of the next one.
LEMMA DReturn ==
    ASSUME DInv, Return PROVE DInv'
<1>1. /\ pc = "done" /\ pc' = "idle" /\ last' = <<>> /\ was' = is
      /\ UNCHANGED <<present, moved, now, is>>
  BY DEF Return
<1>2. is = moved /\ \A n \in Names : Listed(now, n) => n \in present
  BY <1>1 DEF DInv, Base
<1>3. \A n \in Names : moved[n] \in Nat
  BY DEF DInv
<1>4. Base'
  BY <1>1, <1>2, <1>3 DEF Base, Listed
<1>5. Sampled(last, was)'
  <2>1. <<>> \in Seq([name : Names, count : Nat]) /\ DOMAIN <<>> = {}
    OBVIOUS
  <2> QED BY <1>1, <2>1 DEF Sampled
<1> QED BY <1>1, <1>4, <1>5 DEF DInv, Sampled

\* Every step keeps the invariant.
LEMMA DNext == DInv /\ [Next]_vars => DInv'
<1> SUFFICES ASSUME DInv, [Next]_vars PROVE DInv'
  OBVIOUS
<1>1. CASE \E n \in Names : Transfer(n) \/ Disappear(n) \/ Appear(n)
  BY <1>1, DSystem
<1>2. CASE Get \/ CallDiff
  BY <1>2, DSample
<1>3. CASE Inner
  BY <1>3, DInner
<1>4. CASE Outer
  BY <1>4, DOuter
<1>5. CASE Finish
  BY <1>5, DFinish
<1>6. CASE Return
  BY <1>6, DReturn
<1>7. CASE UNCHANGED vars
  <2>1. UNCHANGED <<now, last, was, is, present, moved, cut, diff, matched, i, j, pc>>
    BY <1>7 DEF vars, system, samples, loop
  <2>2. Progress' <=> Progress
    BY <2>1 DEF Progress, Passed
  <2> QED BY <2>1, <2>2 DEF DInv, Sampled, Base, Listed
<1> QED BY <1>1, <1>2, <1>3, <1>4, <1>5, <1>6, <1>7 DEF Next

\* The invariant holds of every execution.
LEMMA DInvHolds == Spec => []DInv
<1> QED BY DInit, DNext, PTL DEF Spec

----------------------------------------------------------------------------
(* What the application may rely on                                        *)

\* When the loops are over, every pair of items has been compared.
LEMMA AllPassed ==
    ASSUME DInv, pc = "done"
    PROVE  \A a \in DOMAIN now : \A b \in DOMAIN last : Passed(a, b)
<1>1. i > Len(now) /\ i \in Nat
  BY DEF DInv, Progress
<1>2. DOMAIN now = 1..Len(now) /\ Len(now) \in Nat
  BY DEF DInv, Sampled
<1> QED BY <1>1, <1>2 DEF Passed

\* A difference is what has moved between the two samples, when compute_diff_fn knows how
\* wide the counters of the operating system are: for any number of items, in any two
\* orders, and although counters wrap.  (sg_vector_compute_diff(), transfer_diff() and
\* sg_disk_io_stats_item_compute_diff().)
THEOREM DifferenceHolds ==
    ASSUME WidthsAgree PROVE Spec => []DifferenceIsWhatMoved
<1>1. ASSUME DInv PROVE DifferenceIsWhatMoved
  <2>1. SUFFICES ASSUME pc = "done", NEW a \in DOMAIN now, NEW b \in DOMAIN last,
                        last[b].name = now[a].name, now[a].name \notin cut,
                        is[now[a].name] - was[now[a].name] < Wrap
                 PROVE  diff[a] = is[now[a].name] - was[now[a].name]
    BY DEF DifferenceIsWhatMoved, Listed
  <2> DEFINE n == now[a].name
  <2>2. n \in Names
    BY <1>1, NameIsItem DEF DInv
  <2>3. was[n] <= is[n] /\ was[n] \in Nat /\ is[n] \in Nat
    BY <1>1, <2>1, <2>2 DEF DInv, Base, Listed
  <2>4. now[a].count = is[n] % Wrap /\ last[b].count = was[n] % Wrap
    BY <1>1, <2>1 DEF DInv, Sampled
  <2>5. diff[a] = ComputeDiff(now[a].count, last[b].count)
    BY <1>1, <2>1, AllPassed DEF DInv, Progress
  <2> QED BY <2>1, <2>3, <2>4, <2>5, WrapDiff
<1> QED BY <1>1, DInvHolds, PTL

\* An item that only the current sample has is copied as it is: no item is charged with
\* what another has moved, whatever the matching loop of sg_vector_compute_diff() has
\* matched before.
THEOREM NewItemsHold == Spec => []NewItemsAreCloned
<1>1. ASSUME DInv PROVE NewItemsAreCloned
  <2>1. SUFFICES ASSUME pc = "done", NEW a \in DOMAIN now, ~Listed(last, now[a].name)
                 PROVE  diff[a] = now[a].count
    BY DEF NewItemsAreCloned
  <2>2. \A b \in DOMAIN last : last[b].name # now[a].name
    BY <2>1 DEF Listed
  <2> QED BY <1>1, <2>1, <2>2 DEF DInv, Progress
<1> QED BY <1>1, DInvHolds, PTL

----------------------------------------------------------------------------
(* The types, with the width of every counter                              *)

Item == [name : Names, count : 0..(Wrap - 1)]

\* A sample is a sequence as long as its domain.
LEMMA SampleLength ==
    ASSUME NEW s \in Samples
    PROVE  /\ Len(s) \in Nat /\ DOMAIN s = 1..Len(s)
           /\ \A a \in DOMAIN s : s[a] \in Item
<1>1. PICK k \in 0..Cardinality(Names) : s \in [1..k -> Item]
  BY DEF Samples, Item
<1>2. k \in Nat
  BY DifferencesAssumption, FS_CardinalityType
<1>3. s \in Seq(Item) /\ DOMAIN s = 1..k
  BY <1>1, <1>2, SeqDef
<1>4. Len(s) = k
  BY <1>2, <1>3
<1> QED BY <1>1, <1>2, <1>3, <1>4

\* The empty sequence is a sample.
LEMMA EmptySample == <<>> \in Samples /\ DOMAIN <<>> = {} /\ Len(<<>>) = 0
<1>1. Cardinality(Names) \in Nat
  BY DifferencesAssumption, FS_CardinalityType
<1>2. <<>> \in [1..0 -> Item] /\ DOMAIN <<>> = {} /\ Len(<<>>) = 0
  OBVIOUS
<1>3. 0 \in 0..Cardinality(Names)
  BY <1>1
<1> HIDE DEF Item
<1> QED BY <1>2, <1>3 DEF Samples, Item

\* What the system lists is a sample: no item twice, and no counter beyond its width.
LEMMA ListingIsSample ==
    ASSUME TypeOK, NEW s \in Orders
    PROVE  Listing(s) \in Samples
<1>1. /\ IsFiniteSet(present) /\ Cardinality(present) \in Nat
      /\ Cardinality(present) <= Cardinality(Names) /\ Cardinality(Names) \in Nat
  <2>1. IsFiniteSet(Names) /\ present \subseteq Names
    BY DifferencesAssumption DEF TypeOK
  <2> QED BY <2>1, FS_Subset, FS_CardinalityType
<1>2. /\ s \in [1..Cardinality(present) -> present] /\ DOMAIN s = 1..Cardinality(present)
      /\ \A a, b \in DOMAIN s : s[a] = s[b] => a = b
  BY DEF Orders
<1>3. \A a \in DOMAIN s : s[a] \in Names /\ moved[s[a]] % Wrap \in 0..(Wrap - 1)
  <2>1. \A n \in Names : moved[n] \in Nat
    BY DifferencesAssumption DEF TypeOK
  <2>2. \A m \in Nat : m % Wrap \in 0..(Wrap - 1)
    BY DifferencesAssumption
  <2> QED BY <1>2, <2>1, <2>2 DEF TypeOK
<1>4. DOMAIN Listing(s) = DOMAIN s /\ \A a \in DOMAIN s :
        Listing(s)[a] = [name |-> s[a], count |-> moved[s[a]] % Wrap]
  BY DEF Listing
<1>5. Listing(s) \in [1..Cardinality(present) -> Item]
  BY <1>2, <1>3 DEF Listing, Item
<1>6. \A a, b \in DOMAIN Listing(s) : Listing(s)[a].name = Listing(s)[b].name => a = b
  BY <1>2, <1>4
<1>7. Cardinality(present) \in 0..Cardinality(Names)
  BY <1>1
<1> QED BY <1>5, <1>6, <1>7 DEF Samples, Item

\* compute_diff_fn stays within unsigned long long.
LEMMA DiffFits ==
    ASSUME NEW x \in 0..(Wide - 1), NEW y \in 0..(Wrap - 1)
    PROVE  ComputeDiff(x, y) \in 0..(Wide - 1)
<1>1. /\ Wide \in Nat /\ Wide > 0 /\ MaxVal \in Nat /\ Wrap \in Nat /\ Wrap <= Wide
  BY DifferencesAssumption
<1>2. \A z \in Int : z % Wide \in 0..(Wide - 1)
  BY <1>1
<1>3. (x - y) % Wide \in 0..(Wide - 1) /\ (MaxVal + x - y) % Wide \in 0..(Wide - 1)
  BY <1>1, <1>2
<1>4. x >= y => x - y \in 0..(Wide - 1)
  BY <1>1
<1> QED BY <1>3, <1>4 DEF ComputeDiff, TransferDiff

\* Every step keeps the types.
LEMMA TypesInductive == TypeOK /\ [Next]_vars => TypeOK'
<1> SUFFICES ASSUME TypeOK, [Next]_vars PROVE TypeOK'
  OBVIOUS
<1> USE DEF system, samples, loop
<1>1. CASE UNCHANGED vars
  BY <1>1 DEF vars, TypeOK
<1>2. ASSUME NEW n \in Names, Transfer(n) \/ Disappear(n) \/ Appear(n) PROVE TypeOK'
  <2>1. moved' \in [Names -> 0..MaxMoved]
    <3>1. moved \in [Names -> 0..MaxMoved] /\ MaxMoved \in Nat
      BY DifferencesAssumption DEF TypeOK
    <3>2. CASE Transfer(n)
      <4>1. moved[n] + 1 \in 0..MaxMoved
        BY <3>1, <3>2 DEF Transfer
      <4> QED BY <3>1, <3>2, <4>1 DEF Transfer
    <3>3. CASE Disappear(n)
      BY <3>1, <3>3 DEF Disappear
    <3>4. CASE Appear(n)
      BY <3>1, <3>4 DEF Appear
    <3> QED BY <1>2, <3>2, <3>3, <3>4
  <2>2. present' \subseteq Names /\ cut' \subseteq Names
    BY <1>2 DEF Transfer, Disappear, Appear, TypeOK
  <2> QED BY <1>2, <2>1, <2>2 DEF Transfer, Disappear, Appear, TypeOK
<1>3. CASE Get
  <2>1. now' \in Samples
    BY <1>3, ListingIsSample DEF Get
  <2> QED BY <1>3, <2>1 DEF Get, TypeOK
<1>4. CASE CallDiff
  <2>1. now' \in Samples
    BY <1>4, ListingIsSample DEF CallDiff
  <2>2. DOMAIN now' = 1..Len(now') /\ Len(now') \in Nat /\ \A a \in DOMAIN now' : now'[a] \in Item
    BY <2>1, SampleLength
  <2>3. diff' \in [DOMAIN now' -> 0..(Wide - 1)]
    <3>1. \A x \in Item : x.count \in 0..(Wide - 1)
      BY DifferencesAssumption DEF Item
    <3>2. \A a \in DOMAIN now' : now'[a].count \in 0..(Wide - 1)
      BY <2>2, <3>1
    <3> QED BY <1>4, <3>2 DEF CallDiff
  <2>4. Len(diff') \in Nat
    <3>1. diff' \in Seq(0..(Wide - 1))
      BY <2>2, <2>3, SeqDef
    <3> QED BY <3>1
  <2>5. Len(now) \in Nat
    BY SampleLength DEF TypeOK
  <2> QED BY <1>4, <2>1, <2>3, <2>4, <2>5 DEF CallDiff, TypeOK
<1>5. CASE Inner
  <2>1. /\ pc = "loop" /\ i <= Len(diff) /\ j <= Len(last) /\ j' = j + 1
        /\ UNCHANGED <<present, moved, cut, now, last, was, is, pc, i>>
    BY <1>5 DEF Inner
  <2>2. /\ DOMAIN now = 1..Len(now) /\ Len(now) \in Nat
        /\ DOMAIN last = 1..Len(last) /\ Len(last) \in Nat /\ \A a \in DOMAIN last : last[a] \in Item
    BY SampleLength DEF TypeOK
  <2>3. diff \in Seq(0..(Wide - 1)) /\ Len(diff) = Len(now) /\ DOMAIN diff = DOMAIN now
    <3>1. diff \in [1..Len(now) -> 0..(Wide - 1)]
      BY <2>1, <2>2 DEF TypeOK
    <3>2. diff \in Seq(0..(Wide - 1))
      BY <2>2, <3>1, SeqDef
    <3> QED BY <2>2, <3>1, <3>2
  <2>4. /\ i \in DOMAIN diff /\ j \in DOMAIN last /\ j' \in 1..(Len(last) + 1)
        /\ i \in 1..(Len(diff) + 1)
    BY <2>1, <2>2, <2>3 DEF TypeOK
  <2>5. CASE Matches(j, i)
    <3>1. last[j].count \in 0..(Wrap - 1) /\ diff[i] \in 0..(Wide - 1)
      <4>1. \A x \in Item : x.count \in 0..(Wrap - 1)
        BY DEF Item
      <4>2. last[j] \in Item /\ diff[i] \in 0..(Wide - 1)
        BY <2>1, <2>2, <2>3, <2>4 DEF TypeOK
      <4> QED BY <4>1, <4>2
    <3>2. ComputeDiff(diff[i], last[j].count) \in 0..(Wide - 1)
      BY <3>1, DiffFits
    <3>3. /\ matched' = matched \cup {j}
          /\ diff' = [diff EXCEPT ![i] = ComputeDiff(diff[i], last[j].count)]
      BY <1>5, <2>5 DEF Inner
    <3>4. diff' \in [DOMAIN now -> 0..(Wide - 1)] /\ Len(diff') = Len(diff)
      <4>1. diff \in [DOMAIN now -> 0..(Wide - 1)] /\ i \in DOMAIN now
        BY <2>1, <2>3, <2>4 DEF TypeOK
      <4>2. diff' \in [DOMAIN now -> 0..(Wide - 1)]
        BY <3>2, <3>3, <4>1
      <4> QED BY <2>3, <3>3, <4>2
    <3>5. matched' \subseteq DOMAIN last
      BY <2>4, <3>3 DEF TypeOK
    <3> QED BY <2>1, <2>4, <3>4, <3>5 DEF TypeOK
  <2>6. CASE ~Matches(j, i)
    BY <1>5, <2>1, <2>4, <2>6 DEF Inner, TypeOK
  <2> QED BY <2>5, <2>6
<1>6. CASE Outer
  <2>1. Len(last) \in Nat /\ Len(now) \in Nat /\ DOMAIN now = 1..Len(now)
    BY SampleLength DEF TypeOK
  <2>2. Len(diff) \in Nat
    <3>1. diff \in [1..Len(now) -> 0..(Wide - 1)]
      BY <1>6, <2>1 DEF Outer, TypeOK
    <3>2. diff \in Seq(0..(Wide - 1))
      BY <2>1, <3>1, SeqDef
    <3> QED BY <3>2
  <2> QED BY <1>6, <2>1, <2>2 DEF Outer, TypeOK
<1>7. CASE Finish
  BY <1>7 DEF Finish, TypeOK
<1>8. CASE Return
  BY <1>8, EmptySample DEF Return, TypeOK
<1> QED BY <1>1, <1>2, <1>3, <1>4, <1>5, <1>6, <1>7, <1>8 DEF Next

\* No sample lists an item twice, no index leaves its vector, and a difference is always a
\* value of unsigned long long, also when a counter has wrapped.
THEOREM DifferencesTypes == Spec => []TypeOK
<1>1. Init => TypeOK
  <2> SUFFICES ASSUME Init PROVE TypeOK
    OBVIOUS
  <2>1. moved \in [Names -> 0..MaxMoved] /\ was = moved /\ is = moved
    BY DifferencesAssumption DEF Init
  <2> QED BY <2>1, EmptySample DEF Init, TypeOK
<1> QED BY <1>1, TypesInductive, PTL DEF Spec
============================================================================
