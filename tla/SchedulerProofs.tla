--------------------------- MODULE SchedulerProofs --------------------------
(***************************************************************************)
(* Theorems about the schedule store and the heartbeat.                    *)
(***************************************************************************)
EXTENDS Scheduler, NaturalsInduction, FiniteSetTheorems, TLAPS

-----------------------------------------------------------------------------
(* The items picked from a store *)

\* A set of numbers that is not empty has a least one.
LEMMA LeastOf ==
  ASSUME NEW T, T \subseteq Nat, T # {}
  PROVE  \E m \in T : \A n \in T : m <= n
<1> DEFINE R == {p \in Nat \X Nat : p[1] < p[2]}
<1>1. IsWellFoundedOn(R, Nat)
  BY NatLessThanWellFounded DEF OpToRel
<1>2. \A m, n \in Nat : n < m => <<n, m>> \in R
  OBVIOUS
<1> HIDE DEF R
<1>3. PICK m \in T : \A n \in T : ~(<<n, m>> \in R)
  BY <1>1, WFMin
<1>4. ASSUME NEW n \in T PROVE m <= n
  <2>1. m \in Nat /\ n \in Nat /\ ~(n < m)
    BY <1>2, <1>3
  <2> QED
    BY <2>1
<1> QED
  BY <1>4

\* g builds, place by place up to m, what Picked returns.
Picks(s, places, g, m) ==
    g = [n \in 0..m |-> IF n = 0 THEN <<>>
                        ELSE IF n \in places THEN Append(g[n - 1], s[n]) ELSE g[n - 1]]

\* The recursion of Picked defines a function.
LEMMA PicksExists ==
  ASSUME NEW s, NEW places, NEW m \in Nat
  PROVE  \E g : Picks(s, places, g, m)
<1> DEFINE Bad == {n \in Nat : ~\E g : Picks(s, places, g, n)}
<1>1. SUFFICES ASSUME Bad # {} PROVE FALSE
  OBVIOUS
<1>2. PICK b \in Bad : \A n \in Bad : b <= n
  <2>1. Bad \subseteq Nat
    OBVIOUS
  <2> QED
    BY <1>1, <2>1, LeastOf
<1>3. b # 0
  <2>1. [n \in 0..0 |-> <<>>] = [n \in 0..0 |-> IF n = 0 THEN <<>>
                        ELSE IF n \in places THEN Append([k \in 0..0 |-> <<>>][n - 1], s[n])
                             ELSE [k \in 0..0 |-> <<>>][n - 1]]
    OBVIOUS
  <2>2. Picks(s, places, [n \in 0..0 |-> <<>>], 0)
    BY <2>1 DEF Picks
  <2> QED
    BY <2>2
<1>4. b \in Nat \ {0} /\ b - 1 \in Nat /\ ~(b <= b - 1)
  BY <1>3
<1>5. PICK g : Picks(s, places, g, b - 1)
  BY <1>2, <1>4
<1> DEFINE h == [n \in 0..b |-> IF n = b
                                THEN IF b \in places THEN Append(g[b - 1], s[b]) ELSE g[b - 1]
                                ELSE g[n]]
<1>6. ASSUME NEW n \in 0..b
      PROVE  h[n] = IF n = 0 THEN <<>>
                    ELSE IF n \in places THEN Append(h[n - 1], s[n]) ELSE h[n - 1]
  <2>1. CASE n = b
    <3>1. h[b - 1] = g[b - 1]
      BY <1>4
    <3>2. h[n] = IF b \in places THEN Append(g[b - 1], s[b]) ELSE g[b - 1]
      BY <2>1
    <3> QED
      BY <2>1, <3>1, <3>2, <1>4
  <2>2. CASE n # b
    <3>1. n \in 0..(b - 1)
      BY <2>2, <1>4
    <3>2. g[n] = IF n = 0 THEN <<>>
                 ELSE IF n \in places THEN Append(g[n - 1], s[n]) ELSE g[n - 1]
      BY <1>5, <3>1 DEF Picks
    <3>3. h[n] = g[n]
      BY <2>2
    <3>4. n # 0 => h[n - 1] = g[n - 1]
      BY <3>1, <1>4
    <3> QED
      BY <3>2, <3>3, <3>4
  <2> QED
    BY <2>1, <2>2
<1>7. h = [n \in 0..b |-> h[n]]
  OBVIOUS
<1> HIDE DEF h
<1>8. Picks(s, places, h, b)
  BY <1>6, <1>7 DEF Picks
<1> QED
  BY <1>8

\* t holds the elements of s at the chosen places, each once.
Selects(t, s, places) ==
    \E e \in [1..Len(t) -> 1..Len(s)] :
        /\ \A i \in 1..Len(t) : e[i] \in places /\ t[i] = s[e[i]]
        /\ \A i, j \in 1..Len(t) : e[i] = e[j] => i = j
        /\ \A k \in 1..Len(s) : k \in places => \E i \in 1..Len(t) : e[i] = k

\* What Picked returns: the chosen elements, each once, in a sequence.
LEMMA PickedIs ==
  ASSUME NEW S, NEW s \in Seq(S), NEW places
  PROVE  /\ Picked(s, places) \in Seq(S)
         /\ Selects(Picked(s, places), s, places)
<1> DEFINE f == CHOOSE g : Picks(s, places, g, Len(s))
<1>1. Picks(s, places, f, Len(s))
  BY PicksExists
<1>2. Picked(s, places) = f[Len(s)]
  BY DEF Picked, Picks
<1>3. \A n \in 0..Len(s) : f[n] = IF n = 0 THEN <<>>
                                  ELSE IF n \in places THEN Append(f[n - 1], s[n]) ELSE f[n - 1]
  BY <1>1 DEF Picks
<1> HIDE DEF f
<1> DEFINE Good(t, n, e) ==
             /\ \A i \in 1..Len(t) : e[i] \in places /\ e[i] <= n /\ t[i] = s[e[i]]
             /\ \A i, j \in 1..Len(t) : e[i] = e[j] => i = j
             /\ \A k \in 1..n : k \in places => \E i \in 1..Len(t) : e[i] = k
           Fine(n) == /\ f[n] \in Seq(S)
                      /\ \E e \in [1..Len(f[n]) -> 1..Len(s)] : Good(f[n], n, e)
           Bad == {n \in 0..Len(s) : ~Fine(n)}
<1>4. Bad = {}
  <2>1. SUFFICES ASSUME Bad # {} PROVE FALSE
    OBVIOUS
  <2>2. PICK b \in Bad : \A n \in Bad : b <= n
    <3>1. Bad \subseteq Nat
      OBVIOUS
    <3> HIDE DEF Bad
    <3> QED
      BY <2>1, <3>1, LeastOf
  <2>3. b \in 0..Len(s) /\ ~Fine(b)
    OBVIOUS
  <2>4. b # 0
    <3>1. f[0] = <<>>
      BY <1>3
    <3>2. <<>> \in [1..Len(f[0]) -> 1..Len(s)]
      BY <3>1
    <3>3. Good(f[0], 0, <<>>)
      BY <3>1
    <3>4. f[0] \in Seq(S)
      BY <3>1
    <3> HIDE DEF Good
    <3>5. Fine(0)
      BY <3>2, <3>3, <3>4
    <3> QED
      BY <2>3, <3>5
  <2>5. b - 1 \in 0..Len(s) /\ ~(b <= b - 1) /\ b \in 1..Len(s)
    BY <2>3, <2>4
  <2>6. Fine(b - 1)
    BY <2>2, <2>5
  <2> DEFINE t == f[b - 1]
  <2>7. f[b] = IF b \in places THEN Append(t, s[b]) ELSE t
    BY <1>3, <2>3, <2>4
  <2>8. t \in Seq(S)
    BY <2>6
  <2>9. PICK e \in [1..Len(t) -> 1..Len(s)] : Good(t, b - 1, e)
    BY <2>6
  <2> HIDE DEF t
  <2>10. CASE b \notin places
    <3>1. \A i \in 1..Len(t) : e[i] <= b
      BY <2>9, <2>5
    <3>2. \A k \in 1..b : k \in places => k \in 1..(b - 1)
      BY <2>10, <2>5
    <3>3. Good(t, b, e)
      BY <3>1, <3>2, <2>9
    <3> HIDE DEF Good
    <3> QED
      BY <2>3, <2>7, <2>8, <2>9, <2>10, <3>3
  <2>11. CASE b \in places
    <3> DEFINE u == Append(t, s[b])
               d == [i \in 1..Len(u) |-> IF i = Len(t) + 1 THEN b ELSE e[i]]
    <3>1. u \in Seq(S) /\ Len(u) = Len(t) + 1 /\ u[Len(t) + 1] = s[b]
          /\ \A i \in 1..Len(t) : u[i] = t[i]
      BY <2>8, <2>5
    <3>2. Len(t) \in Nat
      BY <2>8
    <3>3. d \in [1..Len(u) -> 1..Len(s)]
      BY <3>1, <3>2, <2>5
    <3>4. d[Len(t) + 1] = b /\ \A i \in 1..Len(t) : d[i] = e[i]
      BY <3>1, <3>2
    <3> HIDE DEF u, d
    <3>5. \A i \in 1..Len(u) : i = Len(t) + 1 \/ i \in 1..Len(t)
      BY <3>1, <3>2
    <3>a. \A i \in 1..Len(t) :
            /\ d[i] \in places /\ u[i] = s[d[i]]
            /\ d[i] \in 1..Len(s) /\ d[i] <= b - 1
      BY <3>1, <3>4, <2>9
    <3>6. ASSUME NEW i \in 1..Len(u) PROVE d[i] \in places /\ d[i] <= b /\ u[i] = s[d[i]]
      <4>1. CASE i = Len(t) + 1
        BY <4>1, <3>1, <3>4, <2>11, <2>5
      <4>2. CASE i \in 1..Len(t)
        BY <4>2, <3>a, <2>5
      <4> QED
        BY <4>1, <4>2, <3>5
    <3>7. \A i, j \in 1..Len(u) : d[i] = d[j] => i = j
      <4>1. \A i \in 1..Len(t) : d[i] # b
        BY <3>a, <2>5
      <4>2. \A i, j \in 1..Len(t) : d[i] = d[j] => i = j
        BY <3>4, <2>9
      <4> QED
        BY <4>1, <4>2, <3>4, <3>5
    <3>8. ASSUME NEW k \in 1..b, k \in places PROVE \E i \in 1..Len(u) : d[i] = k
      <4>1. CASE k = b
        <5>1. Len(t) + 1 \in 1..Len(u)
          BY <3>1, <3>2
        <5> QED
          BY <4>1, <5>1, <3>4
      <4>2. CASE k # b
        <5>1. k \in 1..(b - 1)
          BY <4>2, <2>5
        <5>2. PICK i \in 1..Len(t) : e[i] = k
          BY <5>1, <3>8, <2>9
        <5>3. i \in 1..Len(u)
          BY <3>1, <3>2
        <5> QED
          BY <5>2, <5>3, <3>4
      <4> QED
        BY <4>1, <4>2
    <3>9. Good(u, b, d)
      BY <3>6, <3>7, <3>8
    <3>10. f[b] = u
      BY <2>7, <2>11 DEF u
    <3> HIDE DEF Good
    <3> QED
      BY <2>3, <3>1, <3>3, <3>9, <3>10
  <2> QED
    BY <2>10, <2>11
<1>5. Fine(Len(s))
  BY <1>4
<1> QED
  BY <1>2, <1>5 DEF Selects

-----------------------------------------------------------------------------
(* The inductive invariant *)

FileItems == IF schedFile.parses THEN schedFile.items ELSE <<>>

\* What every store holds, the one in memory and the one in the file.
WellFormed(s) ==
    /\ \A j, k \in DOMAIN s : s[j].id = s[k].id => j = k
    /\ \A k \in DOMAIN s : s[k].id \in issued /\ s[k].every = cadence[s[k].id]

StoresInv == WellFormed(items) /\ WellFormed(FileItems)

QueueInv ==
    /\ \A k \in DOMAIN hb.queue : hb.queue[k] \in issued
    /\ \A j, k \in DOMAIN hb.queue : hb.queue[j] = hb.queue[k] => j = k
    /\ hb.at = "run" => hb.queue # <<>>

HistoryInv == \A i \in Ids \ issued : done[i] = 0 /\ fires[i] = <<>> /\ starts[i] = <<>>

\* A store that says what was answered to the API and what was recorded.
Faithful(s) ==
    /\ IdsIn(s) = live
    /\ \A k \in DOMAIN s : s[k].runs = done[s[k].id]

SavedInv ==
    /\ coreUp /\ ~unsaved => Faithful(items)
    /\ coreUp /\ ~unsaved /\ ~saveFailed /\ writing = NotWriting => FileItems = items
    /\ ~coreUp => writing = NotWriting /\ ~saveFailed
    /\ ~coreUp /\ ~unsaved => Faithful(FileItems)

SchedIInv == SchedTypeOK /\ StoresInv /\ QueueInv /\ HistoryInv /\ SavedInv

\* A store whose next runs are at least the floor after the last ones.
Spaced(s) ==
    \A k \in DOMAIN s :
        LET f == fires[s[k].id]
        IN  Fits(s[k].every) /\ f # <<>> => s[k].next >= f[Len(f)] + MinEvery

\* Taken, and its run has not begun.
Waits(i) == \E k \in DOMAIN hb.queue : hb.queue[k] = i /\ (k = 1 => hb.at # "run")

\* A run begins after it was taken, and the one before it began before that.
InTurn(i) ==
    LET f == fires[i]
        s == starts[i]
    IN  /\ f # <<>> => f[Len(f)] <= clock
        /\ s # <<>> => s[Len(s)] <= clock
        /\ Waits(i) => f # <<>>
        /\ Waits(i) /\ s # <<>> => s[Len(s)] <= f[Len(f)]
        /\ Len(s) >= 2 => f # <<>> /\ s[Len(s) - 1] <= f[Len(f)]

\* What waits was taken a floor after the last run but one began.
Apart(i) ==
    LET f == fires[i]
        s == starts[i]
    IN  Fits(cadence[i]) /\ Waits(i) /\ Len(s) >= 2 => f[Len(f)] - s[Len(s) - 1] >= MinEvery

TurnsInv == \A i \in Ids : InTurn(i)

FloorInv ==
    /\ FloorKept
    /\ coreUp /\ ~unsaved => Spaced(items)
    /\ ~coreUp /\ ~unsaved => Spaced(FileItems)
    /\ ~unsaved => \A i \in Ids : Apart(i)

-----------------------------------------------------------------------------
(* Type correctness *)

\* Half of the integers of the width are below zero, and there is one.
LEMMA HalfPositive == Half \in Nat \ {0}
<1>1. Width - 1 \in Nat
  BY CadenceAssumption
<1>2. IsFiniteSet(1..(Width - 1)) /\ Cardinality(1..(Width - 1)) = Width - 1
  BY <1>1, FS_Interval
<1>3. /\ IsFiniteSet(SUBSET (1..(Width - 1)))
      /\ Cardinality(SUBSET (1..(Width - 1))) = Half
  BY <1>2, FS_SUBSET DEF Half
<1>4. SUBSET (1..(Width - 1)) # {}
  OBVIOUS
<1> HIDE DEF Half
<1>5. Half \in Nat
  BY <1>3, FS_CardinalityType, Zenon
<1>6. Half # 0
  BY <1>3, <1>4, FS_EmptySet, Zenon
<1> QED
  BY <1>5, <1>6

\* Addition wraps into the integers, and not at all while the sum fits.
LEMMA WrappedIs ==
  ASSUME NEW x \in Int
  PROVE  /\ Wrapped(x) \in Int
         /\ 0 <= x /\ x < Half => Wrapped(x) = x
<1>1. Half \in Nat /\ Half > 0
  BY HalfPositive
<1>2. 2 * Half \in Nat /\ 2 * Half > 0
  BY <1>1
<1>3. x + Half \in Int
  BY <1>1
<1>4. \A d \in Nat, y \in Int : d > 0 => y % d \in Int
  OBVIOUS
<1>5. \A d \in Nat, y \in Nat : y < d => y % d = y
  OBVIOUS
<1>6. Wrapped(x) \in Int
  BY <1>1, <1>2, <1>3, <1>4 DEF Wrapped
<1>7. 0 <= x /\ x < Half => x + Half \in Nat /\ x + Half < 2 * Half
  BY <1>1
<1> QED
  BY <1>1, <1>2, <1>5, <1>6, <1>7 DEF Wrapped

\* A function on 1..n is a sequence.
LEMMA IsSeq ==
  ASSUME NEW R, NEW n \in Nat, NEW g \in [1..n -> R]
  PROVE  g \in Seq(R) /\ Len(g) = n
OBVIOUS

LEMMA Fields ==
  ASSUME NEW s \in Schedule
  PROVE  /\ s.id \in Ids /\ s.every \in Int /\ s.every >= MinEvery
         /\ s.next \in Int /\ s.runs \in Nat
BY DEF Schedule

LEMMA Initially == SchedInit => SchedIInv /\ TurnsInv /\ FloorInv
<1> SUFFICES ASSUME SchedInit PROVE SchedIInv /\ TurnsInv /\ FloorInv
  OBVIOUS
<1>1. FileItems = <<>> /\ IdsIn(<<>>) = {}
  BY DEF SchedInit, NoFile, FileItems, IdsIn
<1>2. SchedTypeOK
  <2>1. clock \in 0..MaxClock /\ crashes \in 0..MaxCrashes
    BY CadenceAssumption DEF SchedInit
  <2>2. items \in Seq(Schedule) /\ schedFile \in [parses : BOOLEAN, items : Seq(Schedule)]
    BY DEF SchedInit, NoFile
  <2>3. /\ fires \in [Ids -> Seq(0..MaxClock)] /\ starts \in [Ids -> Seq(0..MaxClock)]
        /\ cadence \in [Ids -> Int] /\ done \in [Ids -> Nat]
    BY DEF SchedInit
  <2>4. /\ hb \in [at : {"sleep", "checked", "next", "run"}, queue : Seq(Ids)]
        /\ writing \in [at : {"free", "truncate", "write"}, by : {"none", "api", "hb"}]
    BY DEF SchedInit, NotWriting, Asleep
  <2> QED
    BY <2>1, <2>2, <2>3, <2>4 DEF SchedInit, SchedTypeOK
<1>3. StoresInv /\ QueueInv /\ HistoryInv
  BY <1>1 DEF SchedInit, StoresInv, WellFormed, QueueInv, HistoryInv, Asleep
<1>4. SavedInv
  BY <1>1 DEF SchedInit, SavedInv, Faithful
<1>5. \A i \in Ids : fires[i] = <<>> /\ starts[i] = <<>> /\ Len(starts[i]) = 0 /\ ~Waits(i)
  <2>1. hb.queue = <<>>
    BY DEF SchedInit, Asleep
  <2>2. DOMAIN hb.queue = {}
    BY <2>1
  <2> QED
    BY <2>2 DEF SchedInit, Waits
<1>6. TurnsInv
  <2>1. ASSUME NEW i \in Ids PROVE InTurn(i)
    <3>1. fires[i] = <<>> /\ starts[i] = <<>> /\ ~(Len(starts[i]) >= 2) /\ ~Waits(i)
      BY <1>5
    <3> QED
      BY <3>1, Zenon DEF InTurn
  <2> QED
    BY <2>1 DEF TurnsInv
<1>7. FloorKept /\ \A i \in Ids : Apart(i)
  BY <1>5 DEF FloorKept, Apart
<1>8. FloorInv
  BY <1>1, <1>7 DEF SchedInit, FloorInv, Spaced
<1> QED
  BY <1>2, <1>3, <1>4, <1>6, <1>8 DEF SchedIInv

LEMMA TypedNext == SchedTypeOK /\ QueueInv /\ [SchedNext]_schedVars => SchedTypeOK'
<1> SUFFICES ASSUME SchedTypeOK, QueueInv, [SchedNext]_schedVars PROVE SchedTypeOK'
  OBVIOUS
<1> USE DEF SchedTypeOK, worldVars, lossVars, runVars, NotWriting, StoreFree, Save
<1>1. CASE SaveTruncate
  <2>1. NoFile \in [parses : BOOLEAN, items : Seq(Schedule)]
    BY DEF NoFile
  <2>2. schedFile' \in [parses : BOOLEAN, items : Seq(Schedule)]
    BY <1>1, <2>1 DEF SaveTruncate
  <2>3. writing' \in [at : {"free", "truncate", "write"}, by : {"none", "api", "hb"}]
    BY <1>1 DEF SaveTruncate
  <2>4. saveFailed' \in BOOLEAN
    BY <1>1, Zenon DEF SaveTruncate
  <2> QED
    BY <1>1, <2>2, <2>3, <2>4 DEF SaveTruncate
<1>2. CASE SaveWrite
  <2>a. [parses |-> TRUE, items |-> items] \in [parses : BOOLEAN, items : Seq(Schedule)]
    OBVIOUS
  <2>1. schedFile' \in [parses : BOOLEAN, items : Seq(Schedule)]
    BY <1>2, <2>a, Zenon DEF SaveWrite
  <2>2. saveFailed' \in BOOLEAN
    BY <1>2, Zenon DEF SaveWrite
  <2> QED
    BY <1>2, <2>1, <2>2 DEF SaveWrite
<1>3. ASSUME NEW id \in Ids, Remove(id) PROVE SchedTypeOK'
  <2>1. items' \in Seq(Schedule)
    BY <1>3, PickedIs DEF Remove
  <2> QED
    BY <1>3, <2>1 DEF Remove
<1>4. ASSUME NEW id \in Ids, NEW e \in Everys, Add(id, e) PROVE SchedTypeOK'
  <2>1. [id |-> id, every |-> AtLeast(e, MinEvery), next |-> clock, runs |-> 0] \in Schedule
    BY CadenceAssumption DEF Schedule, AtLeast
  <2>2. items' \in Seq(Schedule)
    BY <1>4, <2>1 DEF Add
  <2>3. cadence' \in [Ids -> Int]
    BY <1>4, CadenceAssumption DEF Add, AtLeast
  <2> QED
    BY <1>4, <2>2, <2>3 DEF Add
<1>5. CASE Wake
  BY <1>5 DEF Wake
<1>6. CASE TakeDue
  <2> DEFINE due == Picked(items, {k \in DOMAIN items : Due(items[k])})
             queue == [k \in DOMAIN due |-> due[k].id]
  <2>1. due \in Seq(Schedule)
    BY PickedIs
  <2>2. /\ items' = [k \in DOMAIN items |->
                        IF Due(items[k])
                        THEN [items[k] EXCEPT !.next = Wrapped(clock + items[k].every)]
                        ELSE items[k]]
        /\ \/ hb' = Asleep /\ UNCHANGED writing
           \/ hb' = [at |-> "next", queue |-> queue] /\ Save("hb")
        /\ fires' = [i \in Ids |-> IF i \in IdsIn(due) THEN Append(fires[i], clock)
                                   ELSE fires[i]]
        /\ UNCHANGED <<worldVars, schedFile, issued, live, starts, cadence, done, lossVars>>
    BY <1>6 DEF TakeDue
  <2> HIDE DEF due, queue
  <2>3. queue \in Seq(Ids)
    <3>1. DOMAIN due = 1..Len(due) /\ Len(due) \in Nat
      BY <2>1
    <3>2. ASSUME NEW k \in 1..Len(due) PROVE due[k].id \in Ids
      <4>1. due[k] \in Schedule
        BY <2>1
      <4> QED
        BY <4>1 DEF Schedule
    <3>3. queue \in [1..Len(due) -> Ids]
      BY <3>1, <3>2 DEF queue
    <3> QED
      BY <3>1, <3>3, IsSeq
  <2>4. items' \in Seq(Schedule)
    <3>1. ASSUME NEW k \in DOMAIN items
          PROVE  /\ items[k] \in Schedule
                 /\ [items[k] EXCEPT !.next = Wrapped(clock + items[k].every)] \in Schedule
      <4>1. items[k] \in Schedule
        OBVIOUS
      <4>2. clock + items[k].every \in Int
        BY <4>1 DEF Schedule
      <4>3. Wrapped(clock + items[k].every) \in Int
        BY <4>2, WrappedIs
      <4> QED
        BY <4>1, <4>3 DEF Schedule
    <3>2. DOMAIN items = 1..Len(items) /\ Len(items) \in Nat
      OBVIOUS
    <3>3. items' \in [1..Len(items) -> Schedule]
      BY <2>2, <3>1, <3>2
    <3> QED
      BY <3>2, <3>3, IsSeq
  <2>5. fires' \in [Ids -> Seq(0..MaxClock)]
    <3>1. \A i \in Ids : fires[i] \in Seq(0..MaxClock) /\ Append(fires[i], clock) \in Seq(0..MaxClock)
      OBVIOUS
    <3> QED
      BY <2>2, <3>1
  <2>6. hb' \in [at : {"sleep", "checked", "next", "run"}, queue : Seq(Ids)]
    <3>1. [at |-> "next", queue |-> queue] \in [at : {"sleep", "checked", "next", "run"}, queue : Seq(Ids)]
      BY <2>3
    <3>2. Asleep \in [at : {"sleep", "checked", "next", "run"}, queue : Seq(Ids)]
      BY DEF Asleep
    <3> QED
      BY <2>2, <3>1, <3>2
  <2>7. writing' \in [at : {"free", "truncate", "write"}, by : {"none", "api", "hb"}]
    BY <2>2
  <2> QED
    BY <2>2, <2>4, <2>5, <2>6, <2>7
<1>7. CASE StartRun
  <2>1. Head(hb.queue) \in Ids
    BY <1>7 DEF StartRun
  <2>2. \A i \in Ids : starts[i] \in Seq(0..MaxClock) /\ Append(starts[i], clock) \in Seq(0..MaxClock)
    OBVIOUS
  <2>3. starts' = [starts EXCEPT ![Head(hb.queue)] = Append(@, clock)]
    BY <1>7 DEF StartRun
  <2>4. starts' \in [Ids -> Seq(0..MaxClock)]
    BY <2>1, <2>2, <2>3
  <2>5. hb' \in [at : {"sleep", "checked", "next", "run"}, queue : Seq(Ids)]
    BY <1>7 DEF StartRun
  <2> QED
    BY <1>7, <2>4, <2>5 DEF StartRun
<1>8. CASE FinishRun
  <2>1. hb.queue # <<>> /\ Head(hb.queue) \in Ids
    BY <1>8 DEF FinishRun, QueueInv
  <2>2. items' \in Seq(Schedule)
    <3>1. DOMAIN items = 1..Len(items) /\ Len(items) \in Nat
      OBVIOUS
    <3>2. ASSUME NEW k \in 1..Len(items)
          PROVE  items[k] \in Schedule /\ [items[k] EXCEPT !.runs = @ + 1] \in Schedule
      <4>1. items[k] \in Schedule
        OBVIOUS
      <4>2. items[k].runs + 1 \in Nat
        BY <4>1, Fields
      <4> QED
        BY <4>1, <4>2 DEF Schedule
    <3>3. items' \in [1..Len(items) -> Schedule]
      BY <1>8, <3>1, <3>2 DEF FinishRun, Counted
    <3> QED
      BY <3>1, <3>3, IsSeq
  <2>3. hb' \in [at : {"sleep", "checked", "next", "run"}, queue : Seq(Ids)]
    BY <1>8, <2>1 DEF FinishRun, AfterRun, Asleep
  <2>4. done' \in [Ids -> Nat]
    BY <1>8, <2>1 DEF FinishRun
  <2> QED
    BY <1>8, <2>2, <2>3, <2>4 DEF FinishRun
<1>9. CASE Tick
  BY <1>9, CadenceAssumption DEF Tick
<1>10. CASE SwitchChanges
  <2>1. engaged' \in BOOLEAN
    BY <1>10, Zenon DEF SwitchChanges
  <2> QED
    BY <1>10, <2>1 DEF SwitchChanges
<1>11. CASE SchedCrash
  <2>1. unsaved' \in BOOLEAN /\ saveFailed' \in BOOLEAN /\ coreUp' \in BOOLEAN
    BY <1>11, Zenon DEF SchedCrash
  <2>2. crashes' \in 0..MaxCrashes
    BY <1>11, CadenceAssumption DEF SchedCrash
  <2> QED
    BY <1>11, <2>1, <2>2 DEF SchedCrash, Asleep
<1>12. CASE SchedBoot
  <2>1. items' \in Seq(Schedule)
    BY <1>12 DEF SchedBoot
  <2> QED
    BY <1>12, <2>1 DEF SchedBoot
<1>13. CASE UNCHANGED schedVars
  BY <1>13 DEF schedVars
<1> QED
  BY <1>1, <1>2, <1>3, <1>4, <1>5, <1>6, <1>7, <1>8, <1>9, <1>10, <1>11, <1>12, <1>13
  DEF SchedNext, Saving, Heartbeat

-----------------------------------------------------------------------------
(* The stores stay well formed *)

\* Picking from a well-formed store leaves one.
LEMMA PickedWellFormed ==
  ASSUME SchedTypeOK, WellFormed(items), NEW places
  PROVE  /\ WellFormed(Picked(items, places))
         /\ \A i \in DOMAIN Picked(items, places) :
              \E k \in DOMAIN items : k \in places /\ Picked(items, places)[i] = items[k]
         /\ \A k \in DOMAIN items :
              k \in places => \E i \in DOMAIN Picked(items, places) :
                                 Picked(items, places)[i] = items[k]
<1> DEFINE p == Picked(items, places)
<1>1. p \in Seq(Schedule) /\ DOMAIN p = 1..Len(p)
  BY PickedIs DEF SchedTypeOK
<1>2. DOMAIN items = 1..Len(items) /\ items \in Seq(Schedule)
  BY DEF SchedTypeOK
<1>3. PICK e \in [1..Len(p) -> 1..Len(items)] :
           /\ \A i \in 1..Len(p) : e[i] \in places /\ p[i] = items[e[i]]
           /\ \A i, j \in 1..Len(p) : e[i] = e[j] => i = j
           /\ \A k \in 1..Len(items) : k \in places => \E i \in 1..Len(p) : e[i] = k
  <2>1. Selects(p, items, places)
    BY <1>2, PickedIs
  <2> HIDE DEF p
  <2> QED
    BY <2>1 DEF Selects
<1> HIDE DEF p
<1>4. \A i \in DOMAIN p : e[i] \in DOMAIN items /\ e[i] \in places /\ p[i] = items[e[i]]
  BY <1>1, <1>2, <1>3
<1>5. \A k \in DOMAIN items : k \in places => \E i \in DOMAIN p : p[i] = items[k]
  BY <1>1, <1>2, <1>3
<1>6. \A i, j \in DOMAIN p : p[i].id = p[j].id => i = j
  BY <1>1, <1>3, <1>4 DEF WellFormed
<1>7. WellFormed(p)
  BY <1>4, <1>6 DEF WellFormed
<1> QED
  BY <1>4, <1>5, <1>7 DEF p

\* The store after due schedules were moved on, or a run was counted: the same
\* schedules with the same cadences, at the same places.
Same(s, t) ==
    /\ DOMAIN s = DOMAIN t
    /\ \A k \in DOMAIN t : s[k].id = t[k].id /\ s[k].every = t[k].every

LEMMA TakeDueSame ==
  ASSUME SchedTypeOK, TakeDue
  PROVE  Same(items', items) /\ \A k \in DOMAIN items : items'[k].runs = items[k].runs
<1>1. items' = [k \in DOMAIN items |->
                        IF Due(items[k])
                        THEN [items[k] EXCEPT !.next = Wrapped(clock + items[k].every)]
                        ELSE items[k]]
  BY DEF TakeDue
<1>2. ASSUME NEW k \in DOMAIN items
      PROVE  /\ items'[k].id = items[k].id /\ items'[k].every = items[k].every
             /\ items'[k].runs = items[k].runs
  <2>1. items[k] \in Schedule
    BY DEF SchedTypeOK
  <2> QED
    BY <1>1, <2>1 DEF Schedule
<1> QED
  BY <1>1, <1>2 DEF Same

LEMMA FinishRunSame ==
  ASSUME SchedTypeOK, FinishRun
  PROVE  /\ Same(items', items)
         /\ \A k \in DOMAIN items :
              /\ items'[k].runs = IF items[k].id = Head(hb.queue) THEN items[k].runs + 1
                                  ELSE items[k].runs
              /\ items'[k].next = items[k].next
<1>1. items' = [k \in DOMAIN items |->
                  IF items[k].id = Head(hb.queue) THEN [items[k] EXCEPT !.runs = @ + 1]
                  ELSE items[k]]
  BY DEF FinishRun, Counted
<1>2. ASSUME NEW k \in DOMAIN items
      PROVE  /\ items'[k].id = items[k].id /\ items'[k].every = items[k].every
             /\ items'[k].runs = IF items[k].id = Head(hb.queue) THEN items[k].runs + 1
                                 ELSE items[k].runs
             /\ items'[k].next = items[k].next
  <2>1. items[k] \in Schedule
    BY DEF SchedTypeOK
  <2> QED
    BY <1>1, <2>1 DEF Schedule
<1> QED
  BY <1>1, <1>2 DEF Same

\* The store with a new schedule behind.
LEMMA AddAppends ==
  ASSUME SchedTypeOK, NEW id \in Ids, NEW e \in Everys, Add(id, e)
  PROVE  LET n == Len(items) + 1 IN
         /\ DOMAIN items' = DOMAIN items \cup {n} /\ n \notin DOMAIN items
         /\ items'[n] = [id |-> id, every |-> AtLeast(e, MinEvery), next |-> clock, runs |-> 0]
         /\ \A k \in DOMAIN items : items'[k] = items[k]
<1>1. /\ items \in Seq(Schedule)
      /\ items' = Append(items, [id |-> id, every |-> AtLeast(e, MinEvery),
                                 next |-> clock, runs |-> 0])
  BY DEF SchedTypeOK, Add
<1> QED
  BY <1>1

\* Only what is written to the file, or read from it, changes hands.
LEMMA FileNext ==
  ASSUME [SchedNext]_schedVars
  PROVE  \/ FileItems' = FileItems
         \/ SaveTruncate /\ FileItems' = <<>>
         \/ SaveWrite /\ FileItems' = items
<1>1. CASE SaveTruncate
  BY <1>1 DEF SaveTruncate, NoFile, FileItems
<1>2. CASE SaveWrite
  BY <1>2 DEF SaveWrite, FileItems
<1>3. CASE UNCHANGED schedFile
  BY <1>3 DEF FileItems
<1> QED
  BY <1>1, <1>2, <1>3, Zenon
  DEF SchedNext, Saving, Heartbeat, Remove, Add, Wake, TakeDue, StartRun, FinishRun, Tick,
      SwitchChanges, SchedCrash, SchedBoot, schedVars

\* Ids are never taken back.
LEMMA IssuedGrow == [SchedNext]_schedVars => issued \subseteq issued'
<1>1. ASSUME NEW id \in Ids, NEW e \in Everys, Add(id, e) PROVE issued \subseteq issued'
  BY <1>1 DEF Add
<1> QED
  BY <1>1, Zenon
  DEF SchedNext, Saving, Heartbeat, Remove, SaveTruncate, SaveWrite, Wake, TakeDue, StartRun,
      FinishRun, Tick, SwitchChanges, SchedCrash, SchedBoot, schedVars

\* ... and the cadence an id was added with stays.
LEMMA CadenceStays ==
  ASSUME SchedTypeOK, [SchedNext]_schedVars
  PROVE  \A i \in issued : cadence'[i] = cadence[i]
<1>1. ASSUME NEW id \in Ids, NEW e \in Everys, Add(id, e)
      PROVE  \A i \in issued : cadence'[i] = cadence[i]
  BY <1>1 DEF Add, SchedTypeOK
<1>2. CASE UNCHANGED cadence
  BY <1>2
<1> QED
  BY <1>1, <1>2, Zenon
  DEF SchedNext, Saving, Heartbeat, Remove, SaveTruncate, SaveWrite, Wake, TakeDue, StartRun,
      FinishRun, Tick, SwitchChanges, SchedCrash, SchedBoot, schedVars, runVars

\* What an action may do to the store in memory.
LEMMA ItemsNext ==
  ASSUME [SchedNext]_schedVars
  PROVE  \/ UNCHANGED items
         \/ \E id \in Ids : Remove(id) \/ \E e \in Everys : Add(id, e)
         \/ TakeDue \/ FinishRun \/ SchedCrash \/ SchedBoot
  BY Zenon
  DEF SchedNext, Saving, Heartbeat, SaveTruncate, SaveWrite, Wake, StartRun,
      Tick, SwitchChanges, schedVars

LEMMA StoresNext == SchedIInv /\ [SchedNext]_schedVars => StoresInv'
<1> SUFFICES ASSUME SchedIInv, [SchedNext]_schedVars PROVE StoresInv'
  OBVIOUS
<1>1. WellFormed(items) /\ WellFormed(FileItems) /\ SchedTypeOK /\ issued \subseteq issued'
  BY IssuedGrow DEF SchedIInv, StoresInv
<1>a. \A i \in issued : cadence'[i] = cadence[i]
  BY <1>1, CadenceStays
<1>2. ASSUME NEW s, WellFormed(s)
      PROVE  /\ \A j, k \in DOMAIN s : s[j].id = s[k].id => j = k
             /\ \A k \in DOMAIN s : s[k].id \in issued' /\ s[k].every = cadence'[s[k].id]
  BY <1>1, <1>2, <1>a DEF WellFormed
<1>3. WellFormed(<<>>)
  BY DEF WellFormed
<1>4. WellFormed(FileItems)'
  <2>1. CASE FileItems' = FileItems
    BY <2>1, <1>1, <1>2, Zenon DEF WellFormed
  <2>2. CASE SaveTruncate /\ FileItems' = <<>>
    BY <2>2 DEF WellFormed
  <2>3. CASE SaveWrite /\ FileItems' = items
    BY <2>3, <1>1, <1>2, Zenon DEF WellFormed
  <2> QED
    BY <2>1, <2>2, <2>3, FileNext
<1>5. WellFormed(items)'
  <2>1. CASE UNCHANGED items
    BY <2>1, <1>1, <1>2, Zenon DEF WellFormed
  <2>2. ASSUME NEW id \in Ids, Remove(id) PROVE WellFormed(items)'
    <3>1. \E places : items' = Picked(items, places)
      BY <2>2 DEF Remove
    <3>2. WellFormed(items')
      BY <3>1, <1>1, PickedWellFormed
    <3> QED
      BY <3>2, <1>2, Zenon DEF WellFormed
  <2>3. ASSUME NEW id \in Ids, NEW e \in Everys, Add(id, e) PROVE WellFormed(items)'
    <3>1. id \notin issued /\ id \in issued'
      BY <2>3 DEF Add
    <3>2. cadence'[id] = AtLeast(e, MinEvery)
      BY <2>3, <1>1 DEF Add, SchedTypeOK
    <3> DEFINE n == Len(items) + 1
               new == [id |-> id, every |-> AtLeast(e, MinEvery), next |-> clock, runs |-> 0]
    <3>3. /\ DOMAIN items' = DOMAIN items \cup {n} /\ n \notin DOMAIN items
          /\ items'[n] = new /\ \A k \in DOMAIN items : items'[k] = items[k]
      BY <2>3, <1>1, AddAppends
    <3>4. new.id = id /\ new.every = AtLeast(e, MinEvery)
      OBVIOUS
    <3> HIDE DEF n, new
    <3>5. \A k \in DOMAIN items : items[k].id \in issued /\ items[k].every = cadence'[items[k].id]
      BY <1>1, <1>2 DEF WellFormed
    <3>6. \A k \in DOMAIN items' : items'[k].id \in issued' /\ items'[k].every = cadence'[items'[k].id]
      BY <1>1, <3>1, <3>2, <3>3, <3>4, <3>5
    <3>7. \A j, k \in DOMAIN items : items[j].id = items[k].id => j = k
      BY <1>1, <1>2, Zenon
    <3>8. \A j, k \in DOMAIN items' : items'[j].id = items'[k].id => j = k
      BY <3>1, <3>3, <3>4, <3>5, <3>7
    <3> QED
      BY <3>6, <3>8, Zenon DEF WellFormed
  <2>4. CASE Same(items', items)
    <3>1. DOMAIN items' = DOMAIN items
      BY <2>4 DEF Same
    <3>2. \A k \in DOMAIN items' : items'[k].id = items[k].id /\ items'[k].every = items[k].every
      BY <2>4 DEF Same
    <3>3. \A k \in DOMAIN items : items[k].id \in issued' /\ items[k].every = cadence'[items[k].id]
      BY <1>1, <1>2, Zenon
    <3>4. \A j, k \in DOMAIN items : items[j].id = items[k].id => j = k
      BY <1>1, <1>2, Zenon
    <3>5. \A k \in DOMAIN items' : items'[k].id \in issued' /\ items'[k].every = cadence'[items'[k].id]
      BY <3>1, <3>2, <3>3
    <3>6. \A j, k \in DOMAIN items' : items'[j].id = items'[k].id => j = k
      BY <3>1, <3>2, <3>4
    <3> QED
      BY <3>5, <3>6, Zenon DEF WellFormed
  <2>5. CASE SchedCrash
    <3>1. items' = <<>>
      BY <2>5 DEF SchedCrash
    <3> QED
      BY <3>1 DEF WellFormed
  <2>6. CASE SchedBoot
    <3>1. items' = FileItems
      BY <2>6 DEF SchedBoot, FileItems
    <3> QED
      BY <3>1, <1>1, <1>2, Zenon DEF WellFormed
  <2> QED
    BY <2>1, <2>2, <2>3, <2>4, <2>5, <2>6, <1>1, ItemsNext, TakeDueSame, FinishRunSame
<1> QED
  BY <1>4, <1>5 DEF StoresInv

-----------------------------------------------------------------------------
(* The heartbeat and the histories *)

\* What take_due does, said of the places of the due schedules.
DuePlaces == {k \in DOMAIN items : Due(items[k])}

LEMMA TakeDueIs ==
  ASSUME SchedTypeOK, WellFormed(items), TakeDue
  PROVE  /\ \A k \in DOMAIN items :
              items'[k].next = IF Due(items[k]) THEN Wrapped(clock + items[k].every)
                               ELSE items[k].next
         /\ \A i \in Ids : fires'[i] = IF \E k \in DuePlaces : items[k].id = i
                                       THEN Append(fires[i], clock) ELSE fires[i]
         /\ \/ hb' = Asleep
            \/ /\ hb'.at = "next"
               /\ \A k \in DOMAIN hb'.queue :
                    /\ hb'.queue[k] \in issued
                    /\ \E j \in DuePlaces : items[j].id = hb'.queue[k]
               /\ \A j, k \in DOMAIN hb'.queue : hb'.queue[j] = hb'.queue[k] => j = k
         /\ writing' # NotWriting \/ (writing' = writing /\ items' = items)
<1> DEFINE due == Picked(items, DuePlaces)
<1>1. /\ items' = [k \in DOMAIN items |->
                     IF Due(items[k])
                     THEN [items[k] EXCEPT !.next = Wrapped(clock + items[k].every)]
                     ELSE items[k]]
      /\ IF due = <<>> THEN hb' = Asleep /\ UNCHANGED writing
         ELSE /\ hb' = [at |-> "next", queue |-> [k \in DOMAIN due |-> due[k].id]]
              /\ writing' = [at |-> "truncate", by |-> "hb"]
      /\ fires' = [i \in Ids |-> IF i \in IdsIn(due) THEN Append(fires[i], clock) ELSE fires[i]]
  BY DEF TakeDue, Save, DuePlaces
<1>2. /\ WellFormed(due)
      /\ \A i \in DOMAIN due : \E k \in DOMAIN items : k \in DuePlaces /\ due[i] = items[k]
      /\ \A k \in DOMAIN items : k \in DuePlaces => \E i \in DOMAIN due : due[i] = items[k]
  BY PickedWellFormed
<1> HIDE DEF due
<1>3. ASSUME NEW k \in DOMAIN items
      PROVE  items'[k].next = IF Due(items[k]) THEN Wrapped(clock + items[k].every)
                              ELSE items[k].next
  <2>1. items[k] \in Schedule
    BY DEF SchedTypeOK
  <2> QED
    BY <1>1, <2>1 DEF Schedule
<1>4. \A i \in Ids : i \in IdsIn(due) <=> \E k \in DuePlaces : items[k].id = i
  BY <1>2 DEF IdsIn, DuePlaces
<1>5. \A i \in Ids : fires'[i] = IF \E k \in DuePlaces : items[k].id = i
                                 THEN Append(fires[i], clock) ELSE fires[i]
  BY <1>1, <1>4
<1>6. CASE due = <<>>
  <2>1. \A k \in DOMAIN items : ~Due(items[k])
    BY <1>2, <1>6 DEF DuePlaces
  <2>2. items' = [k \in DOMAIN items |-> items[k]]
    BY <1>1, <2>1
  <2>3. items = [k \in DOMAIN items |-> items[k]]
    BY DEF SchedTypeOK
  <2>4. items' = items
    BY <2>2, <2>3
  <2> QED
    BY <1>1, <1>3, <1>5, <1>6, <2>4
<1>7. CASE due # <<>>
  <2>1. \A k \in DOMAIN due : due[k].id \in issued
    BY <1>2 DEF WellFormed
  <2>2. hb' = [at |-> "next", queue |-> [k \in DOMAIN due |-> due[k].id]]
    BY <1>1, <1>7
  <2>a. \A j, k \in DOMAIN due : due[j].id = due[k].id => j = k
    BY <1>2 DEF WellFormed
  <2>b. hb'.queue = [k \in DOMAIN due |-> due[k].id] /\ hb'.at = "next"
    BY <2>2
  <2>c. DOMAIN hb'.queue = DOMAIN due /\ \A k \in DOMAIN due : hb'.queue[k] = due[k].id
    BY <2>b
  <2>3. /\ hb'.at = "next"
        /\ \A k \in DOMAIN hb'.queue :
             /\ hb'.queue[k] \in issued
             /\ \E j \in DuePlaces : items[j].id = hb'.queue[k]
        /\ \A j, k \in DOMAIN hb'.queue : hb'.queue[j] = hb'.queue[k] => j = k
    BY <1>2, <2>1, <2>a, <2>b, <2>c
  <2>4. writing' # NotWriting
    BY <1>1, <1>7 DEF NotWriting
  <2> QED
    BY <1>3, <1>5, <2>3, <2>4
<1> QED
  BY <1>6, <1>7

LEMMA QueueNext == SchedIInv /\ [SchedNext]_schedVars => QueueInv'
<1> SUFFICES ASSUME SchedIInv, [SchedNext]_schedVars PROVE QueueInv'
  OBVIOUS
<1>1. /\ SchedTypeOK /\ WellFormed(items) /\ issued \subseteq issued'
      /\ \A k \in DOMAIN hb.queue : hb.queue[k] \in issued
      /\ \A j, k \in DOMAIN hb.queue : hb.queue[j] = hb.queue[k] => j = k
      /\ hb.at = "run" => hb.queue # <<>>
  BY IssuedGrow DEF SchedIInv, StoresInv, QueueInv
<1>2. CASE UNCHANGED hb
  BY <1>1, <1>2 DEF QueueInv
<1>3. CASE hb' = Asleep
  BY <1>3 DEF QueueInv, Asleep
<1>4. CASE Wake \/ StartRun
  <2>1. hb.queue = hb'.queue /\ (hb'.at = "run" => hb.queue # <<>>)
    BY <1>1, <1>4 DEF Wake, StartRun, SchedTypeOK
  <2> QED
    BY <1>1, <2>1 DEF QueueInv
<1>5. CASE TakeDue
  BY <1>1, <1>3, <1>5, TakeDueIs DEF QueueInv
<1>6. CASE FinishRun
  <2>1. hb.queue \in Seq(Ids) /\ hb.queue # <<>>
    BY <1>1, <1>6 DEF FinishRun, SchedTypeOK
  <2>2. CASE hb' = [at |-> "next", queue |-> Tail(hb.queue)]
    <3>1. \A k \in DOMAIN Tail(hb.queue) : Tail(hb.queue)[k] \in issued
      <4>1. \A k \in DOMAIN Tail(hb.queue) :
              k + 1 \in DOMAIN hb.queue /\ Tail(hb.queue)[k] = hb.queue[k + 1]
        BY <2>1
      <4> QED
        BY <4>1, <1>1
    <3>2. hb'.queue = Tail(hb.queue) /\ hb'.at = "next"
      BY <2>2
    <3>3. ASSUME NEW j \in DOMAIN Tail(hb.queue), NEW k \in DOMAIN Tail(hb.queue),
                 Tail(hb.queue)[j] = Tail(hb.queue)[k]
          PROVE  j = k
      <4>1. /\ j + 1 \in DOMAIN hb.queue /\ Tail(hb.queue)[j] = hb.queue[j + 1]
            /\ k + 1 \in DOMAIN hb.queue /\ Tail(hb.queue)[k] = hb.queue[k + 1]
            /\ j \in Nat /\ k \in Nat
        BY <2>1
      <4>2. j + 1 = k + 1
        BY <1>1, <3>3, <4>1
      <4> QED
        BY <4>1, <4>2
    <3> QED
      BY <3>1, <3>2, <3>3, <1>1 DEF QueueInv
  <2> QED
    BY <1>3, <1>6, <2>2 DEF FinishRun, AfterRun
<1> QED
  BY <1>2, <1>3, <1>4, <1>5, <1>6, Zenon
  DEF SchedNext, Saving, Heartbeat, SaveTruncate, SaveWrite, Remove, Add, Tick,
      SwitchChanges, SchedCrash, SchedBoot, schedVars

LEMMA HistoryNext == SchedIInv /\ [SchedNext]_schedVars => HistoryInv'
<1> SUFFICES ASSUME SchedIInv, [SchedNext]_schedVars,
                    NEW i \in Ids, i \notin issued'
             PROVE  done'[i] = 0 /\ fires'[i] = <<>> /\ starts'[i] = <<>>
  BY DEF HistoryInv
<1>1. /\ SchedTypeOK /\ WellFormed(items) /\ i \notin issued
      /\ done[i] = 0 /\ fires[i] = <<>> /\ starts[i] = <<>>
  BY IssuedGrow DEF SchedIInv, StoresInv, HistoryInv
<1>2. CASE UNCHANGED <<done, fires, starts>>
  BY <1>1, <1>2
<1>3. CASE TakeDue
  <2>1. \A k \in DuePlaces : items[k].id \in issued
    BY <1>1 DEF WellFormed, DuePlaces
  <2>2. fires'[i] = fires[i]
    BY <1>1, <1>3, <2>1, TakeDueIs
  <2>3. UNCHANGED <<done, starts>>
    BY <1>3 DEF TakeDue
  <2> QED
    BY <1>1, <2>2, <2>3
<1>4. CASE FinishRun \/ StartRun
  <2>1. Head(hb.queue) \in issued
    <3>1. hb.queue \in Seq(Ids) /\ hb.queue # <<>>
      BY <1>1, <1>4 DEF FinishRun, StartRun, SchedTypeOK, SchedIInv, QueueInv
    <3>2. Head(hb.queue) = hb.queue[1] /\ 1 \in DOMAIN hb.queue
      BY <3>1
    <3> QED
      BY <3>2 DEF SchedIInv, QueueInv
  <2>2. done'[i] = done[i] /\ starts'[i] = starts[i] /\ UNCHANGED fires
    BY <1>1, <1>4, <2>1 DEF FinishRun, StartRun, SchedTypeOK, runVars
  <2> QED
    BY <1>1, <2>2
<1> QED
  BY <1>2, <1>3, <1>4, Zenon
  DEF SchedNext, Saving, Heartbeat, SaveTruncate, SaveWrite, Remove, Add, Tick, Wake,
      SwitchChanges, SchedCrash, SchedBoot, schedVars, runVars

-----------------------------------------------------------------------------
(* What the stores say stays true *)

LEMMA RemoveIs ==
  ASSUME SchedTypeOK, WellFormed(items), NEW id \in Ids, Remove(id)
  PROVE  /\ \A i \in DOMAIN items' :
              \E k \in DOMAIN items : items[k].id # id /\ items'[i] = items[k]
         /\ \A k \in DOMAIN items :
              items[k].id # id => \E i \in DOMAIN items' : items'[i] = items[k]
<1> DEFINE P == {k \in DOMAIN items : items[k].id # id}
<1>1. items' = Picked(items, P)
  BY DEF Remove
<1>2. \A k : k \in P <=> k \in DOMAIN items /\ items[k].id # id
  OBVIOUS
<1> HIDE DEF P
<1> QED
  BY <1>1, <1>2, PickedWellFormed

LEMMA FaithfulNext ==
  ASSUME SchedIInv, [SchedNext]_schedVars, coreUp, Faithful(items), ~SchedCrash
  PROVE  Faithful(items)'
<1>1. /\ SchedTypeOK /\ WellFormed(items) /\ WellFormed(items)'
      /\ IdsIn(items) = live
      /\ \A k \in DOMAIN items : items[k].runs = done[items[k].id]
  BY StoresNext DEF SchedIInv, StoresInv, Faithful
<1>2. CASE UNCHANGED <<items, live, done>>
  BY <1>1, <1>2 DEF Faithful, IdsIn
<1>3. ASSUME NEW id \in Ids, Remove(id) PROVE Faithful(items)'
  <2>1. live' = live \ {id} /\ UNCHANGED done
    BY <1>3 DEF Remove
  <2>2. /\ \A i \in DOMAIN items' :
             \E k \in DOMAIN items : items[k].id # id /\ items'[i] = items[k]
        /\ \A k \in DOMAIN items :
             items[k].id # id => \E i \in DOMAIN items' : items'[i] = items[k]
    BY <1>1, <1>3, RemoveIs
  <2>3. IdsIn(items') = live'
    BY <1>1, <2>1, <2>2 DEF IdsIn
  <2>4. \A i \in DOMAIN items' : items'[i].runs = done'[items'[i].id]
    BY <1>1, <2>1, <2>2
  <2> QED
    BY <2>3, <2>4 DEF Faithful, IdsIn
<1>4. ASSUME NEW id \in Ids, NEW e \in Everys, Add(id, e) PROVE Faithful(items)'
  <2>1. live' = live \cup {id} /\ UNCHANGED done /\ id \notin issued
    BY <1>4 DEF Add
  <2>2. done[id] = 0
    BY <2>1 DEF SchedIInv, HistoryInv
  <2> DEFINE n == Len(items) + 1
             new == [id |-> id, every |-> AtLeast(e, MinEvery), next |-> clock, runs |-> 0]
  <2>3. /\ DOMAIN items' = DOMAIN items \cup {n} /\ n \notin DOMAIN items
        /\ items'[n] = new /\ \A k \in DOMAIN items : items'[k] = items[k]
    BY <1>4, <1>1, AddAppends
  <2>4. new.id = id /\ new.runs = 0
    OBVIOUS
  <2> HIDE DEF n, new
  <2>5. IdsIn(items') = live'
    BY <1>1, <2>1, <2>3, <2>4 DEF IdsIn
  <2>6. \A k \in DOMAIN items' : items'[k].runs = done'[items'[k].id]
    BY <1>1, <2>1, <2>2, <2>3, <2>4
  <2> QED
    BY <2>5, <2>6 DEF Faithful, IdsIn
<1>5. CASE TakeDue
  <2>1. Same(items', items) /\ \A k \in DOMAIN items : items'[k].runs = items[k].runs
    BY <1>1, <1>5, TakeDueSame
  <2>2. UNCHANGED <<live, done>>
    BY <1>5 DEF TakeDue
  <2>3. IdsIn(items') = live'
    BY <1>1, <2>1, <2>2 DEF IdsIn, Same
  <2>4. \A k \in DOMAIN items' : items'[k].runs = done'[items'[k].id]
    BY <1>1, <2>1, <2>2 DEF Same
  <2> QED
    BY <2>3, <2>4 DEF Faithful, IdsIn
<1>6. CASE FinishRun
  <2>1. /\ Same(items', items)
        /\ \A k \in DOMAIN items :
             items'[k].runs = IF items[k].id = Head(hb.queue) THEN items[k].runs + 1
                              ELSE items[k].runs
    BY <1>1, <1>6, FinishRunSame
  <2>2. UNCHANGED live /\ done' = [done EXCEPT ![Head(hb.queue)] = @ + 1]
    BY <1>6 DEF FinishRun
  <2>3. IdsIn(items') = live'
    BY <1>1, <2>1, <2>2 DEF IdsIn, Same
  <2>4. ASSUME NEW k \in DOMAIN items' PROVE items'[k].runs = done'[items'[k].id]
    <3>1. k \in DOMAIN items /\ items'[k].id = items[k].id
      BY <2>1 DEF Same
    <3>2. items[k] \in Schedule
      BY <1>1, <3>1 DEF SchedTypeOK
    <3>3. items[k].id \in Ids /\ items[k].runs = done[items[k].id]
      BY <1>1, <3>1, <3>2, Fields
    <3>4. done \in [Ids -> Nat]
      BY <1>1 DEF SchedTypeOK
    <3>5. done'[items[k].id] = IF items[k].id = Head(hb.queue) THEN done[items[k].id] + 1
                               ELSE done[items[k].id]
      BY <2>2, <3>3, <3>4
    <3> QED
      BY <2>1, <3>1, <3>3, <3>5
  <2> QED
    BY <2>3, <2>4 DEF Faithful, IdsIn
<1>7. CASE SchedBoot
  BY <1>7 DEF SchedBoot
<1> QED
  BY <1>2, <1>3, <1>4, <1>5, <1>6, <1>7, Zenon
  DEF SchedNext, Saving, Heartbeat, SaveTruncate, SaveWrite, Tick, Wake, StartRun,
      SwitchChanges, schedVars

LEMMA SavedNext == SchedIInv /\ [SchedNext]_schedVars => SavedInv'
<1> SUFFICES ASSUME SchedIInv, [SchedNext]_schedVars PROVE SavedInv'
  OBVIOUS
<1>1. SchedTypeOK /\ WellFormed(items) /\ SavedInv
  BY DEF SchedIInv, StoresInv
<1>2. CASE SchedCrash
  <2>1. /\ coreUp /\ ~coreUp' /\ writing' = NotWriting /\ ~saveFailed'
        /\ UNCHANGED <<schedFile, live, done>>
        /\ ~unsaved' => ~unsaved /\ ~saveFailed /\ writing = NotWriting
    BY <1>2, Zenon DEF SchedCrash
  <2>2. ~unsaved' => FileItems = items /\ Faithful(items)
    BY <1>1, <2>1 DEF SavedInv
  <2>3. ~unsaved' => Faithful(FileItems)
    BY <2>2
  <2>4. FileItems' = FileItems
    BY <2>1 DEF FileItems
  <2>5. ~unsaved' => Faithful(FileItems)'
    BY <2>1, <2>3, <2>4 DEF Faithful, IdsIn
  <2> QED
    BY <2>1, <2>5, Zenon DEF SavedInv, NotWriting
<1>3. CASE SchedBoot
  <2>1. /\ ~coreUp /\ coreUp' /\ items' = FileItems
        /\ UNCHANGED <<schedFile, writing, live, done, saveFailed, unsaved>>
    BY <1>3 DEF SchedBoot, FileItems, lossVars
  <2>2. ~unsaved => Faithful(FileItems)
    BY <1>1, <2>1 DEF SavedInv
  <2>3. FileItems' = items'
    BY <2>1 DEF FileItems
  <2>4. ~unsaved' => Faithful(items)'
    BY <2>1, <2>2 DEF Faithful, IdsIn
  <2> QED
    BY <2>1, <2>3, <2>4, Zenon DEF SavedInv, NotWriting
<1>4. CASE coreUp /\ coreUp' /\ ~SchedCrash
  <2>1. unsaved' = unsaved
    BY <1>4, Zenon
    DEF SchedNext, Saving, Heartbeat, SaveTruncate, SaveWrite, Remove, Add, Tick, Wake, TakeDue,
        StartRun, FinishRun, SwitchChanges, SchedBoot, schedVars, lossVars
  <2>2. ~unsaved' => Faithful(items)'
    <3>1. ~unsaved' => Faithful(items)
      BY <1>1, <1>4, <2>1 DEF SavedInv
    <3> QED
      BY <1>4, <3>1, FaithfulNext
  <2>3. ASSUME ~saveFailed', ~unsaved', writing' = NotWriting PROVE FileItems' = items'
    <3>1. CASE SaveTruncate
      BY <2>3, <3>1, <1>1 DEF SaveTruncate, NotWriting, SchedTypeOK
    <3>2. CASE SaveWrite
      <4>1. schedFile' = [parses |-> TRUE, items |-> items] /\ items' = items
        BY <2>3, <3>2 DEF SaveWrite
      <4> QED
        BY <4>1 DEF FileItems
    <3>3. CASE TakeDue
      <4>1. writing' = writing /\ items' = items
        BY <1>1, <2>3, <3>3, TakeDueIs
      <4>2. UNCHANGED <<schedFile, saveFailed>>
        BY <3>3 DEF TakeDue, lossVars
      <4>3. FileItems = items
        BY <1>1, <1>4, <2>1, <2>3, <4>1, <4>2 DEF SavedInv
      <4> QED
        BY <4>1, <4>2, <4>3 DEF FileItems
    <3>4. CASE FinishRun \/ \E id \in Ids : Remove(id) \/ \E e \in Everys : Add(id, e)
      BY <2>3, <3>4 DEF FinishRun, Remove, Add, Save, NotWriting
    <3>5. CASE UNCHANGED <<items, schedFile, writing, saveFailed>>
      <4>1. FileItems = items
        BY <1>1, <1>4, <2>1, <2>3, <3>5 DEF SavedInv
      <4> QED
        BY <3>5, <4>1 DEF FileItems
    <3>6. CASE SchedBoot
      BY <3>6, <1>4 DEF SchedBoot
    <3> QED
      BY <1>4, <3>1, <3>2, <3>3, <3>4, <3>5, <3>6, Zenon
      DEF SchedNext, Saving, Heartbeat, Tick, Wake, StartRun, SwitchChanges, schedVars, lossVars
  <2> QED
    BY <1>4, <2>2, <2>3, Zenon DEF SavedInv, NotWriting
<1>5. CASE ~coreUp /\ ~coreUp'
  <2>1. UNCHANGED <<schedFile, writing, live, done, saveFailed, unsaved>>
    <3>1. writing = NotWriting
      BY <1>1, <1>5 DEF SavedInv
    <3>2. ~SaveTruncate /\ ~SaveWrite
      BY <3>1 DEF SaveTruncate, SaveWrite, NotWriting
    <3>3. ~coreUp
      BY <1>5
    <3> QED
      BY <3>2, <3>3, Zenon
      DEF SchedNext, Saving, Heartbeat, Remove, Add, Tick, Wake, TakeDue, StartRun, FinishRun,
          SwitchChanges, SchedCrash, SchedBoot, StoreFree, HbFree, schedVars, lossVars, worldVars
  <2> QED
    BY <1>1, <1>5, <2>1 DEF SavedInv, Faithful, IdsIn, FileItems
<1>6. CASE UNCHANGED coreUp \/ SchedCrash \/ SchedBoot
  BY <1>2, <1>3, <1>4, <1>5, <1>6
<1> QED
  BY <1>6, Zenon
  DEF SchedNext, Saving, Heartbeat, SaveTruncate, SaveWrite, Remove, Add, Tick, Wake, TakeDue,
      StartRun, FinishRun, SwitchChanges, schedVars, worldVars

-----------------------------------------------------------------------------
(* The floor on cadences *)

\* A sequence that is not empty has a length.
LEMMA NotEmpty ==
  ASSUME NEW S, NEW t \in Seq(S), t # <<>>
  PROVE  Len(t) \in Nat \ {0}
OBVIOUS

\* Its elements are of the set it is a sequence over.
LEMMA ElementIn ==
  ASSUME NEW S, NEW t \in Seq(S), NEW k \in 1..Len(t)
  PROVE  t[k] \in S
OBVIOUS

\* The times of a history are numbers.
LEMMA TimesIn ==
  ASSUME NEW t \in Seq(0..MaxClock), NEW k \in 1..Len(t)
  PROVE  t[k] \in Int /\ t[k] \in 0..MaxClock
<1>1. t[k] \in 0..MaxClock
  BY ElementIn
<1>2. MaxClock \in Nat
  BY CadenceAssumption
<1> QED
  BY <1>1, <1>2

\* The last number of a history that is not empty.
LEMMA LastIn ==
  ASSUME NEW t \in Seq(0..MaxClock), t # <<>>
  PROVE  Len(t) \in Nat /\ Len(t) >= 1 /\ t[Len(t)] \in Int
<1>1. Len(t) \in Nat \ {0}
  BY NotEmpty
<1>2. Len(t) \in 1..Len(t)
  BY <1>1
<1> QED
  BY <1>1, <1>2, TimesIn

LEMMA SpacedNext ==
  ASSUME SchedIInv, SchedIInv', [SchedNext]_schedVars,
         Spaced(items), ~SchedCrash, ~SchedBoot
  PROVE  Spaced(items)'
<1>1. /\ SchedTypeOK /\ WellFormed(items) /\ WellFormed(items)' /\ SchedTypeOK'
      /\ MinEvery \in Nat /\ MaxClock \in Nat /\ clock \in 0..MaxClock
  BY CadenceAssumption DEF SchedIInv, StoresInv, SchedTypeOK
<1>2. \A k \in DOMAIN items : items[k].id \in Ids
  BY <1>1, Fields DEF SchedTypeOK
<1>3. SUFFICES ASSUME NEW k \in DOMAIN items', Fits(items'[k].every), fires'[items'[k].id] # <<>>
               PROVE  items'[k].next >= fires'[items'[k].id][Len(fires'[items'[k].id])] + MinEvery
  BY DEF Spaced
<1>4. \A j \in DOMAIN items : Fits(items[j].every) /\ fires[items[j].id] # <<>> =>
         items[j].next >= fires[items[j].id][Len(fires[items[j].id])] + MinEvery
  BY DEF Spaced
<1>5. CASE UNCHANGED <<items, fires>>
  BY <1>3, <1>4, <1>5
<1>6. ASSUME NEW id \in Ids, Remove(id)
      PROVE  items'[k].next >= fires'[items'[k].id][Len(fires'[items'[k].id])] + MinEvery
  <2>1. UNCHANGED fires
    BY <1>6 DEF Remove, runVars
  <2>2. PICK j \in DOMAIN items : items'[k] = items[j]
    BY <1>1, <1>6, RemoveIs
  <2> QED
    BY <1>3, <1>4, <2>1, <2>2
<1>7. ASSUME NEW id \in Ids, NEW e \in Everys, Add(id, e)
      PROVE  items'[k].next >= fires'[items'[k].id][Len(fires'[items'[k].id])] + MinEvery
  <2>1. UNCHANGED fires /\ id \notin issued
    BY <1>7 DEF Add
  <2>2. fires[id] = <<>>
    BY <2>1 DEF SchedIInv, HistoryInv
  <2> DEFINE n == Len(items) + 1
             new == [id |-> id, every |-> AtLeast(e, MinEvery), next |-> clock, runs |-> 0]
  <2>3. /\ DOMAIN items' = DOMAIN items \cup {n} /\ n \notin DOMAIN items
        /\ items'[n] = new /\ \A j \in DOMAIN items : items'[j] = items[j]
    BY <1>7, <1>1, AddAppends
  <2>4. new.id = id
    OBVIOUS
  <2> HIDE DEF n, new
  <2> QED
    BY <1>3, <1>4, <2>1, <2>2, <2>3, <2>4
<1>8. CASE TakeDue
  <2>1. k \in DOMAIN items /\ items'[k].id = items[k].id /\ items'[k].every = items[k].every
    BY <1>1, <1>3, <1>8, TakeDueSame DEF Same
  <2> DEFINE i == items[k].id
  <2>2. items[k] \in Schedule /\ i \in Ids
    BY <1>1, <1>2, <2>1 DEF SchedTypeOK
  <2>3. \A j \in DuePlaces : items[j].id = i => j = k
    BY <1>1, <2>1 DEF WellFormed, DuePlaces
  <2>4. /\ items'[k].next = IF Due(items[k]) THEN Wrapped(clock + items[k].every)
                            ELSE items[k].next
        /\ fires'[i] = IF \E j \in DuePlaces : items[j].id = i THEN Append(fires[i], clock)
                       ELSE fires[i]
    BY <1>1, <1>8, <2>1, <2>2, TakeDueIs
  <2>5. CASE Due(items[k])
    <3>1. k \in DuePlaces
      BY <2>1, <2>5 DEF DuePlaces
    <3>2. fires'[i] = Append(fires[i], clock)
      BY <2>4, <3>1
    <3>3. fires[i] \in Seq(0..MaxClock)
      BY <1>1, <2>2 DEF SchedTypeOK
    <3>4. fires'[i][Len(fires'[i])] = clock
      BY <1>1, <3>2, <3>3
    <3>5. items[k].every \in Int /\ items[k].every >= MinEvery
      BY <2>2, Fields
    <3>6. MaxClock + items[k].every < Half
      BY <1>3, <2>1 DEF Fits
    <3>7. /\ clock + items[k].every \in Int /\ 0 <= clock + items[k].every
          /\ clock + items[k].every < Half
      BY <1>1, <3>5, <3>6, HalfPositive
    <3>8. items'[k].next = clock + items[k].every
      BY <2>4, <2>5, <3>7, WrappedIs
    <3>9. items'[k].next >= clock + MinEvery
      BY <1>1, <3>5, <3>8
    <3> QED
      BY <2>1, <3>4, <3>9
  <2>6. CASE ~Due(items[k])
    <3>1. ~\E j \in DuePlaces : items[j].id = i
      BY <2>3, <2>6 DEF DuePlaces
    <3>2. fires'[i] = fires[i] /\ items'[k].next = items[k].next
      BY <2>4, <2>6, <3>1
    <3> QED
      BY <1>3, <1>4, <2>1, <3>2
  <2> QED
    BY <2>5, <2>6
<1>9. CASE FinishRun
  <2>1. /\ k \in DOMAIN items /\ items'[k].id = items[k].id
        /\ items'[k].every = items[k].every /\ items'[k].next = items[k].next
    BY <1>1, <1>3, <1>9, FinishRunSame DEF Same
  <2>2. UNCHANGED fires
    BY <1>9 DEF FinishRun, runVars
  <2> QED
    BY <1>3, <1>4, <2>1, <2>2
<1> QED
  BY <1>5, <1>6, <1>7, <1>8, <1>9, Zenon
  DEF SchedNext, Saving, Heartbeat, SaveTruncate, SaveWrite, Tick, Wake, StartRun,
      SwitchChanges, schedVars, runVars

\* What a step does to the histories and to what waits.
LEMMA HeartbeatIs ==
  ASSUME SchedIInv, [SchedNext]_schedVars, NEW i \in Ids
  PROVE  /\ \/ /\ StartRun /\ Waits(i) /\ ~Waits(i)' /\ fires'[i] = fires[i]
               /\ starts'[i] = Append(starts[i], clock) /\ i = Head(hb.queue)
            \/ /\ TakeDue /\ fires'[i] = Append(fires[i], clock) /\ starts'[i] = starts[i]
               /\ \E k \in DuePlaces : items[k].id = i
            \/ /\ fires'[i] = fires[i] /\ starts'[i] = starts[i]
               /\ Waits(i)' => Waits(i)
         /\ clock' \in Nat /\ clock \in 0..MaxClock /\ clock' >= clock
         /\ fires[i] \in Seq(0..MaxClock) /\ starts[i] \in Seq(0..MaxClock)
         /\ Waits(i) => i \in issued
<1>1. /\ SchedTypeOK /\ WellFormed(items) /\ QueueInv /\ hb.queue \in Seq(Ids)
      /\ clock \in 0..MaxClock /\ MaxClock \in Nat
      /\ fires[i] \in Seq(0..MaxClock) /\ starts[i] \in Seq(0..MaxClock)
  BY CadenceAssumption DEF SchedIInv, StoresInv, SchedTypeOK
<1>2. clock' \in Nat /\ clock' >= clock
  <2>1. CASE UNCHANGED clock
    BY <1>1, <2>1
  <2>2. CASE Tick
    BY <1>1, <2>2 DEF Tick
  <2> QED
    BY <2>1, <2>2, Zenon
    DEF SchedNext, Saving, Heartbeat, SaveTruncate, SaveWrite, Remove, Add, Wake, TakeDue,
        StartRun, FinishRun, SwitchChanges, SchedCrash, SchedBoot, schedVars, worldVars
<1>3. Waits(i) => i \in issued
  BY <1>1 DEF Waits, QueueInv
<1> DEFINE Quiet == /\ fires'[i] = fires[i] /\ starts'[i] = starts[i]
                    /\ Waits(i)' => Waits(i)
<1>4. CASE StartRun
  <2>1. /\ hb.queue # <<>> /\ hb.at = "next" /\ hb' = [hb EXCEPT !.at = "run"]
        /\ starts' = [starts EXCEPT ![Head(hb.queue)] = Append(@, clock)] /\ UNCHANGED fires
    BY <1>4 DEF StartRun
  <2>2. 1 \in DOMAIN hb.queue /\ Head(hb.queue) = hb.queue[1] /\ hb.queue[1] \in Ids
    BY <1>1, <2>1
  <2>3. hb'.queue = hb.queue /\ hb'.at = "run"
    BY <1>1, <2>1 DEF SchedTypeOK
  <2>4. starts'[i] = IF i = hb.queue[1] THEN Append(starts[i], clock) ELSE starts[i]
    BY <1>1, <2>1, <2>2 DEF SchedTypeOK
  <2>5. Waits(i)' => Waits(i)
    BY <2>1, <2>3 DEF Waits
  <2>6. CASE i = hb.queue[1]
    <3>1. Waits(i)
      BY <2>1, <2>2, <2>6 DEF Waits
    <3>2. ~Waits(i)'
      BY <1>1, <2>2, <2>3, <2>6 DEF Waits, QueueInv
    <3> QED
      BY <1>1, <1>2, <1>3, <1>4, <2>1, <2>2, <2>4, <2>6, <3>1, <3>2
  <2> QED
    BY <1>1, <1>2, <1>3, <2>1, <2>4, <2>5, <2>6
<1>5. CASE TakeDue
  <2>1. UNCHANGED starts
    BY <1>5 DEF TakeDue
  <2>2. CASE \E k \in DuePlaces : items[k].id = i
    BY <1>1, <1>2, <1>3, <1>5, <2>1, <2>2, TakeDueIs
  <2>3. CASE ~\E k \in DuePlaces : items[k].id = i
    <3>1. ~Waits(i)'
      BY <1>1, <1>5, <2>3, TakeDueIs DEF Waits, Asleep
    <3>2. fires'[i] = fires[i]
      BY <1>1, <1>5, <2>3, TakeDueIs
    <3> QED
      BY <1>1, <1>2, <1>3, <2>1, <3>1, <3>2
  <2> QED
    BY <2>2, <2>3
<1>6. CASE FinishRun
  <2>1. UNCHANGED <<fires, starts>> /\ hb.at = "run" /\ hb' = AfterRun
    BY <1>6 DEF FinishRun, runVars
  <2>2. hb.queue # <<>>
    BY <1>1, <2>1 DEF QueueInv
  <2>3. ASSUME Waits(i)' PROVE Waits(i)
    <3>1. hb' = [at |-> "next", queue |-> Tail(hb.queue)]
      BY <2>1, <2>3 DEF AfterRun, Waits, Asleep
    <3>2. hb'.queue = Tail(hb.queue)
      BY <3>1
    <3>3. PICK k \in DOMAIN Tail(hb.queue) : Tail(hb.queue)[k] = i
      BY <2>3, <3>2 DEF Waits
    <3>4. k + 1 \in DOMAIN hb.queue /\ hb.queue[k + 1] = i /\ k + 1 # 1
      BY <1>1, <2>2, <3>3
    <3> QED
      BY <3>4 DEF Waits
  <2> QED
    BY <1>1, <1>2, <1>3, <2>1, <2>3
<1>7. CASE UNCHANGED <<fires, starts>> /\ (UNCHANGED hb \/ hb' = Asleep)
  <2>1. CASE UNCHANGED hb
    BY <1>1, <1>2, <1>3, <1>7, <2>1 DEF Waits
  <2>2. CASE hb' = Asleep
    <3>1. ~Waits(i)'
      BY <2>2 DEF Waits, Asleep
    <3> QED
      BY <1>1, <1>2, <1>3, <1>7, <3>1
  <2> QED
    BY <1>7, <2>1, <2>2
<1>8. CASE Wake
  <2>1. UNCHANGED <<fires, starts>> /\ hb'.queue = hb.queue /\ hb'.at = "checked" /\ hb.at = "sleep"
    BY <1>1, <1>8 DEF Wake, runVars, SchedTypeOK
  <2>2. Waits(i)' => Waits(i)
    BY <2>1 DEF Waits
  <2> QED
    BY <1>1, <1>2, <1>3, <2>1, <2>2
<1> QED
  BY <1>4, <1>5, <1>6, <1>7, <1>8, Zenon
  DEF SchedNext, Saving, Heartbeat, SaveTruncate, SaveWrite, Remove, Add, Tick,
      SwitchChanges, SchedCrash, SchedBoot, schedVars, runVars

LEMMA TurnsNext == SchedIInv /\ TurnsInv /\ [SchedNext]_schedVars => TurnsInv'
<1> SUFFICES ASSUME SchedIInv, TurnsInv, [SchedNext]_schedVars, NEW i \in Ids
             PROVE  InTurn(i)'
  BY DEF TurnsInv
<1> DEFINE f == fires[i]
           s == starts[i]
<1>1. /\ f \in Seq(0..MaxClock) /\ s \in Seq(0..MaxClock) /\ clock \in 0..MaxClock
      /\ clock' \in Nat /\ clock' >= clock /\ clock \in Int /\ Len(s) \in Nat /\ Len(f) \in Nat
  BY HeartbeatIs
<1>2. /\ f # <<>> => f[Len(f)] <= clock
      /\ s # <<>> => s[Len(s)] <= clock
      /\ Waits(i) => f # <<>>
      /\ Waits(i) /\ s # <<>> => s[Len(s)] <= f[Len(f)]
      /\ Len(s) >= 2 => f # <<>> /\ s[Len(s) - 1] <= f[Len(f)]
  BY DEF TurnsInv, InTurn
<1>3. /\ f # <<>> => f[Len(f)] \in Int
      /\ s # <<>> => s[Len(s)] \in Int
      /\ Len(s) >= 2 => s[Len(s) - 1] \in Int /\ s # <<>>
  <2>1. Len(s) >= 2 => Len(s) - 1 \in 1..Len(s)
    BY <1>1
  <2> HIDE DEF f, s
  <2> QED
    BY <1>1, <2>1, LastIn, TimesIn
<1> SUFFICES /\ fires'[i] # <<>> => fires'[i][Len(fires'[i])] <= clock'
             /\ starts'[i] # <<>> => starts'[i][Len(starts'[i])] <= clock'
             /\ Waits(i)' => fires'[i] # <<>>
             /\ Waits(i)' /\ starts'[i] # <<>>
                  => starts'[i][Len(starts'[i])] <= fires'[i][Len(fires'[i])]
             /\ Len(starts'[i]) >= 2
                  => fires'[i] # <<>> /\ starts'[i][Len(starts'[i]) - 1] <= fires'[i][Len(fires'[i])]
  BY DEF InTurn
<1>4. CASE /\ StartRun /\ Waits(i) /\ ~Waits(i)' /\ fires'[i] = f
           /\ starts'[i] = Append(s, clock)
  <2>1. /\ Len(starts'[i]) = Len(s) + 1 /\ starts'[i][Len(s) + 1] = clock
        /\ Len(s) >= 1 => starts'[i][Len(s)] = s[Len(s)] /\ s # <<>>
    BY <1>1, <1>4
  <2>2. f # <<>> /\ f[Len(f)] <= clock /\ f[Len(f)] \in Int
    BY <1>2, <1>3, <1>4
  <2>3. Len(s) >= 1 => s[Len(s)] <= f[Len(f)]
    BY <1>2, <1>4, <2>1
  <2> HIDE DEF f, s
  <2>4. Len(starts'[i]) >= 2 => Len(s) >= 1 /\ Len(starts'[i]) - 1 = Len(s)
    BY <1>1, <2>1
  <2>5. starts'[i][Len(starts'[i])] = clock
    BY <2>1
  <2>6. Len(starts'[i]) >= 2
          => fires'[i] # <<>> /\ starts'[i][Len(starts'[i]) - 1] <= fires'[i][Len(fires'[i])]
    BY <1>4, <2>1, <2>2, <2>3, <2>4
  <2> QED
    BY <1>1, <1>4, <2>2, <2>5, <2>6
<1>5. CASE fires'[i] = Append(f, clock) /\ starts'[i] = s
  <2>1. /\ Len(fires'[i]) = Len(f) + 1 /\ fires'[i][Len(f) + 1] = clock /\ fires'[i] # <<>>
    BY <1>1, <1>5
  <2> HIDE DEF f, s
  <2> QED
    BY <1>1, <1>2, <1>3, <1>5, <2>1
<1>6. CASE fires'[i] = f /\ starts'[i] = s /\ (Waits(i)' => Waits(i))
  <2> HIDE DEF f, s
  <2> QED
    BY <1>1, <1>2, <1>3, <1>6
<1> QED
  BY <1>4, <1>5, <1>6, HeartbeatIs

\* A schedule that is due was last taken a floor ago.
LEMMA DueIsSpaced ==
  ASSUME SchedIInv, FloorInv, TakeDue, ~unsaved, NEW i \in Ids, Fits(cadence[i]),
         \E k \in DuePlaces : items[k].id = i, fires[i] # <<>>
  PROVE  clock - fires[i][Len(fires[i])] >= MinEvery
<1>1. /\ SchedTypeOK /\ WellFormed(items) /\ MinEvery \in Nat /\ clock \in Int /\ coreUp
      /\ fires[i] \in Seq(0..MaxClock)
  BY CadenceAssumption DEF SchedIInv, StoresInv, SchedTypeOK, TakeDue, StoreFree
<1>2. PICK k \in DOMAIN items : Due(items[k]) /\ items[k].id = i
  BY DEF DuePlaces
<1>3. items[k].next \in Int /\ items[k].next <= clock
  BY <1>1, <1>2, Fields DEF Due, SchedTypeOK
<1>4. items[k].every = cadence[i]
  BY <1>1, <1>2 DEF WellFormed
<1>5. items[k].next >= fires[i][Len(fires[i])] + MinEvery
  BY <1>1, <1>2, <1>4 DEF FloorInv, Spaced
<1>6. fires[i][Len(fires[i])] \in Int
  BY <1>1, LastIn
<1> QED
  BY <1>1, <1>3, <1>5, <1>6

\* The core forgets what it lost, and the histories never do.
LEMMA LossStays == [SchedNext]_schedVars => (~unsaved' => ~unsaved)
<1> SUFFICES ASSUME [SchedNext]_schedVars PROVE ~unsaved' => ~unsaved
  OBVIOUS
<1>1. UNCHANGED unsaved \/ SchedCrash
  BY Zenon
  DEF SchedNext, Saving, Heartbeat, SaveTruncate, SaveWrite, Remove, Add, Tick, Wake, TakeDue,
      StartRun, FinishRun, SwitchChanges, SchedBoot, schedVars, lossVars
<1> QED
  BY <1>1, Zenon DEF SchedCrash

\* An id without a past is the only one that gets a cadence.
LEMMA CadenceNew ==
  ASSUME SchedIInv, [SchedNext]_schedVars, NEW i \in Ids
  PROVE  cadence'[i] = cadence[i]
         \/ /\ fires'[i] = <<>> /\ starts'[i] = <<>>
<1>1. SchedTypeOK /\ HistoryInv
  BY DEF SchedIInv
<1>2. CASE i \in issued
  BY <1>1, <1>2, CadenceStays
<1>3. CASE i \notin issued
  <2>1. fires[i] = <<>> /\ starts[i] = <<>>
    BY <1>1, <1>3 DEF HistoryInv
  <2>2. ASSUME NEW id \in Ids, NEW e \in Everys, Add(id, e)
        PROVE  fires'[i] = <<>> /\ starts'[i] = <<>>
    BY <2>1, <2>2 DEF Add
  <2>3. CASE UNCHANGED cadence
    BY <2>3
  <2> QED
    BY <2>2, <2>3, Zenon
    DEF SchedNext, Saving, Heartbeat, Remove, SaveTruncate, SaveWrite, Wake, TakeDue, StartRun,
        FinishRun, Tick, SwitchChanges, SchedCrash, SchedBoot, schedVars, runVars
<1> QED
  BY <1>2, <1>3

LEMMA ApartNext ==
  ASSUME SchedIInv, TurnsInv, FloorInv, [SchedNext]_schedVars, ~unsaved', NEW i \in Ids
  PROVE  Apart(i)'
<1> DEFINE f == fires[i]
           s == starts[i]
<1>1. /\ f \in Seq(0..MaxClock) /\ s \in Seq(0..MaxClock) /\ clock \in 0..MaxClock
      /\ clock \in Int /\ MinEvery \in Nat
  BY HeartbeatIs, CadenceAssumption
<1>2. ~unsaved /\ Apart(i) /\ InTurn(i)
  BY LossStays DEF FloorInv, TurnsInv
<1>3. SUFFICES ASSUME Fits(cadence'[i]), Waits(i)', Len(starts'[i]) >= 2
               PROVE  fires'[i][Len(fires'[i])] - starts'[i][Len(starts'[i]) - 1] >= MinEvery
  BY DEF Apart, Fits
<1>4. starts'[i] # <<>>
  BY <1>3
<1>5. cadence'[i] = cadence[i] /\ Fits(cadence[i])
  BY <1>3, <1>4, CadenceNew
<1>6. CASE fires'[i] = f /\ starts'[i] = s /\ (Waits(i)' => Waits(i))
  BY <1>2, <1>3, <1>5, <1>6 DEF Apart
<1>7. CASE /\ TakeDue /\ fires'[i] = Append(f, clock) /\ starts'[i] = s
           /\ \E k \in DuePlaces : items[k].id = i
  <2>1. f # <<>> /\ s[Len(s) - 1] <= f[Len(f)]
    BY <1>2, <1>3, <1>7 DEF InTurn
  <2>2. clock - f[Len(f)] >= MinEvery
    BY <1>2, <1>5, <1>7, <2>1, DueIsSpaced
  <2>3. f[Len(f)] \in Int /\ s[Len(s) - 1] \in Int
    <3>1. Len(s) - 1 \in 1..Len(s)
      BY <1>1, <1>3, <1>7
    <3> HIDE DEF f, s
    <3> QED
      BY <1>1, <2>1, <3>1, LastIn, TimesIn
  <2>4. fires'[i][Len(fires'[i])] = clock
    BY <1>1, <1>7
  <2> HIDE DEF f, s
  <2> QED
    BY <1>1, <1>7, <2>1, <2>2, <2>3, <2>4
<1> QED
  BY <1>3, <1>6, <1>7, HeartbeatIs

LEMMA FloorKeptNext ==
  ASSUME SchedIInv, TurnsInv, [SchedNext]_schedVars, FloorInv
  PROVE  FloorKept'
<1> SUFFICES ASSUME ~unsaved', NEW i \in Ids, Fits(cadence'[i])
             PROVE  /\ \A k \in 1..(Len(fires'[i]) - 1) : fires'[i][k + 1] - fires'[i][k] >= MinEvery
                    /\ \A k \in 1..(Len(starts'[i]) - 2) : starts'[i][k + 2] - starts'[i][k] >= MinEvery
  BY DEF FloorKept, Fits
<1> DEFINE f == fires[i]
           s == starts[i]
<1>1. /\ f \in Seq(0..MaxClock) /\ s \in Seq(0..MaxClock) /\ clock \in 0..MaxClock
      /\ clock \in Int /\ MinEvery \in Nat /\ Len(f) \in Nat /\ Len(s) \in Nat
  BY HeartbeatIs, CadenceAssumption
<1>2. ~unsaved /\ Apart(i) /\ InTurn(i) /\ FloorKept
  BY LossStays DEF FloorInv, TurnsInv
<1>3. CASE fires'[i] = <<>> /\ starts'[i] = <<>>
  BY <1>3
<1>4. CASE cadence'[i] = cadence[i]
  <2>1. Fits(cadence[i])
    BY <1>4
  <2>2. /\ \A k \in 1..(Len(f) - 1) : f[k + 1] - f[k] >= MinEvery
        /\ \A k \in 1..(Len(s) - 2) : s[k + 2] - s[k] >= MinEvery
    BY <1>2, <2>1 DEF FloorKept
  <2>3. CASE fires'[i] = f /\ starts'[i] = s
    BY <2>2, <2>3
  <2>4. CASE /\ TakeDue /\ fires'[i] = Append(f, clock) /\ starts'[i] = s
             /\ \E k \in DuePlaces : items[k].id = i
    <3>1. SUFFICES ASSUME NEW k \in 1..(Len(fires'[i]) - 1)
                   PROVE  fires'[i][k + 1] - fires'[i][k] >= MinEvery
      BY <2>2, <2>4
    <3>2. /\ k \in 1..Len(f) /\ Len(fires'[i]) = Len(f) + 1
          /\ fires'[i][Len(f) + 1] = clock /\ fires'[i][k] = f[k]
          /\ k # Len(f) => k \in 1..(Len(f) - 1) /\ fires'[i][k + 1] = f[k + 1]
      BY <1>1, <2>4, <3>1
    <3>3. CASE k = Len(f)
      <4>1. f # <<>>
        BY <1>1, <3>2
      <4>2. clock - f[Len(f)] >= MinEvery
        BY <1>2, <2>1, <2>4, <4>1, DueIsSpaced
      <4> HIDE DEF f, s
      <4> QED
        BY <3>2, <3>3, <4>2
    <3> HIDE DEF f, s
    <3> QED
      BY <2>2, <3>2, <3>3
  <2>5. CASE Waits(i) /\ fires'[i] = f /\ starts'[i] = Append(s, clock)
    <3>1. SUFFICES ASSUME NEW k \in 1..(Len(starts'[i]) - 2)
                   PROVE  starts'[i][k + 2] - starts'[i][k] >= MinEvery
      BY <2>2, <2>5
    <3>a. Len(starts'[i]) = Len(s) + 1 /\ starts'[i][Len(s) + 1] = clock
      BY <1>1, <2>5
    <3>b. k \in 1..(Len(s) - 1) /\ k \in 1..Len(s)
      BY <1>1, <3>1, <3>a
    <3>c. s[k] \in Int
      BY <1>1, <3>b, TimesIn
    <3>d. k # Len(s) - 1 => k \in 1..(Len(s) - 2) /\ k + 2 \in 1..Len(s)
      BY <1>1, <3>b
    <3>e. \A j \in 1..Len(s) : starts'[i][j] = s[j]
      BY <1>1, <2>5
    <3>2. /\ k \in 1..(Len(s) - 1) /\ Len(starts'[i]) = Len(s) + 1
          /\ starts'[i][Len(s) + 1] = clock /\ starts'[i][k] = s[k] /\ s[k] \in Int
          /\ k # Len(s) - 1 => k \in 1..(Len(s) - 2) /\ starts'[i][k + 2] = s[k + 2]
      BY <3>a, <3>b, <3>c, <3>d, <3>e
    <3>3. CASE k = Len(s) - 1
      <4>1. Len(s) >= 2 /\ k + 2 = Len(s) + 1
        BY <1>1, <3>2, <3>3
      <4>2. f[Len(f)] - s[k] >= MinEvery
        BY <1>2, <2>1, <2>5, <3>3, <4>1 DEF Apart
      <4>3. f # <<>> /\ f[Len(f)] <= clock
        BY <1>2, <2>5 DEF InTurn
      <4>4. f[Len(f)] \in Int
        BY <1>1, <4>3, LastIn
      <4> HIDE DEF f, s
      <4> QED
        BY <1>1, <3>2, <4>1, <4>2, <4>3, <4>4
    <3> HIDE DEF f, s
    <3> QED
      BY <2>2, <3>2, <3>3
  <2> QED
    BY <2>3, <2>4, <2>5, HeartbeatIs
<1> QED
  BY <1>3, <1>4, CadenceNew

LEMMA FloorNext ==
  ASSUME SchedIInv, SchedIInv', TurnsInv, [SchedNext]_schedVars, FloorInv
  PROVE  FloorInv'
<1>1. /\ SavedInv /\ FloorKept' /\ SavedInv'
      /\ ~unsaved' => \A i \in Ids : Apart(i)'
  BY FloorKeptNext, ApartNext, Zenon DEF SchedIInv
<1>2. CASE SchedCrash
  <2>1. /\ coreUp /\ ~coreUp' /\ UNCHANGED <<schedFile, fires>>
        /\ ~unsaved' => ~unsaved /\ ~saveFailed /\ writing = NotWriting
    BY <1>2, Zenon DEF SchedCrash, runVars
  <2>2. ~unsaved' => FileItems = items /\ Spaced(items)
    BY <1>1, <2>1 DEF SavedInv, FloorInv
  <2>3. ~unsaved' => Spaced(FileItems)
    BY <2>2
  <2>4. FileItems' = FileItems
    BY <2>1 DEF FileItems
  <2>5. ~unsaved' => Spaced(FileItems)'
    BY <2>1, <2>3, <2>4 DEF Spaced
  <2> QED
    BY <1>1, <2>1, <2>5, Zenon DEF FloorInv
<1>3. CASE SchedBoot
  <2>1. /\ ~coreUp /\ coreUp' /\ items' = FileItems /\ UNCHANGED <<fires, unsaved>>
    BY <1>3 DEF SchedBoot, FileItems, lossVars, runVars
  <2>2. ~unsaved' => Spaced(FileItems)
    BY <2>1 DEF FloorInv
  <2>3. ~unsaved' => Spaced(items)'
    BY <2>1, <2>2 DEF Spaced
  <2> QED
    BY <1>1, <2>1, <2>3, Zenon DEF FloorInv
<1>4. CASE coreUp /\ coreUp' /\ ~SchedCrash /\ ~SchedBoot
  <2>1. unsaved' = unsaved
    BY <1>4, Zenon
    DEF SchedNext, Saving, Heartbeat, SaveTruncate, SaveWrite, Remove, Add, Tick, Wake, TakeDue,
        StartRun, FinishRun, SwitchChanges, SchedBoot, schedVars, lossVars
  <2>2. ~unsaved' => Spaced(items)'
    BY <1>4, <2>1, SpacedNext DEF FloorInv
  <2> QED
    BY <1>1, <1>4, <2>2, Zenon DEF FloorInv
<1>5. CASE ~coreUp /\ ~coreUp'
  <2>1. UNCHANGED <<schedFile, fires, unsaved>>
    <3>1. writing = NotWriting
      BY <1>1, <1>5 DEF SavedInv
    <3>2. ~SaveTruncate /\ ~SaveWrite
      BY <3>1 DEF SaveTruncate, SaveWrite, NotWriting
    <3>3. ~coreUp
      BY <1>5
    <3> QED
      BY <3>2, <3>3, Zenon
      DEF SchedNext, Saving, Heartbeat, Remove, Add, Tick, Wake, TakeDue, StartRun, FinishRun,
          SwitchChanges, SchedCrash, SchedBoot, StoreFree, HbFree, schedVars, lossVars, worldVars, runVars
  <2>2. FileItems' = FileItems
    BY <2>1 DEF FileItems
  <2>3. ~unsaved' => Spaced(FileItems)'
    BY <1>5, <2>1, <2>2 DEF FloorInv, Spaced
  <2> QED
    BY <1>1, <1>5, <2>3, Zenon DEF FloorInv
<1>6. CASE UNCHANGED coreUp
  BY <1>2, <1>3, <1>4, <1>5, <1>6 DEF SchedCrash, SchedBoot
<1> QED
  BY <1>2, <1>3, <1>6, Zenon
  DEF SchedNext, Saving, Heartbeat, SaveTruncate, SaveWrite, Remove, Add, Tick, Wake, TakeDue,
      StartRun, FinishRun, SwitchChanges, schedVars, worldVars

-----------------------------------------------------------------------------
(* The theorems *)

LEMMA SchedIInvNext == SchedIInv /\ [SchedNext]_schedVars => SchedIInv'
  BY TypedNext, StoresNext, QueueNext, HistoryNext, SavedNext, Zenon DEF SchedIInv

LEMMA SchedIInvAlways == SchedSpec => []SchedIInv
<1>1. SchedInit => SchedIInv
  BY Initially
<1> QED
  BY <1>1, SchedIInvNext, PTL DEF SchedSpec

\* Type correctness of the schedule store and of the heartbeat.
THEOREM SchedTypeCorrect == SchedSpec => []SchedTypeOK
<1>1. SchedIInv => SchedTypeOK
  BY DEF SchedIInv
<1> QED
  BY <1>1, SchedIInvAlways, PTL

\* Adds, removes, runs, saves that fail, crashes and boots may come in any
\* order: unless a save died with its core, the store holds exactly the
\* schedules that were added and not removed.
THEOREM StoreAlwaysFaithful == SchedSpec => []StoreIsFaithful
<1>1. SchedIInv => StoreIsFaithful
  BY Zenon DEF SchedIInv, SavedInv, Faithful, StoreIsFaithful
<1> QED
  BY <1>1, SchedIInvAlways, PTL

\* ... and counts every run of theirs that was recorded, once.
THEOREM RunsCountedOnce == SchedSpec => []RunsCounted
<1>1. SchedIInv => RunsCounted
  BY Zenon DEF SchedIInv, SavedInv, Faithful, RunsCounted
<1> QED
  BY <1>1, SchedIInvAlways, PTL

\* A schedule is not taken twice within the floor on cadences, and of three of its runs
\* the last begins a floor after the first, over crashes and boots and however long runs
\* and saves take, unless a save died with its core or the cadence is so long that the
\* next run overflows the integer it is kept in.
THEOREM FloorAlwaysKept == SchedSpec => []FloorKept
<1>1. SchedInit => SchedIInv /\ TurnsInv /\ FloorInv
  BY Initially
<1>2. SchedIInv /\ TurnsInv /\ FloorInv /\ [SchedNext]_schedVars
        => (SchedIInv /\ TurnsInv /\ FloorInv)'
  BY SchedIInvNext, TurnsNext, FloorNext
<1>3. FloorInv => FloorKept
  BY DEF FloorInv
<1> QED
  BY <1>1, <1>2, <1>3, PTL DEF SchedSpec

=============================================================================
