--------------------------- MODULE ResearchProofs ---------------------------
(***************************************************************************)
(* What the judgments are based on, and what of them counts: the bar       *)
(* cache, the strategy library, and the answers of the models.             *)
(*                                                                         *)
(* The bar cache, for any bars, pages, look-backs and number of callers.   *)
(* What the file says it covers is a union of spans that different loads   *)
(* fetched at different times, and a bar may lie across two of them.       *)
(* FileTrue is therefore about whole bars, while LoadTrue says of what a   *)
(* load has fetched itself that every bar with a tick in it is there.      *)
(*                                                                         *)
(* The library, for any strategies and parameters: that a live judgment    *)
(* moves on to newer versions only follows from what a step may do to one  *)
(* version (Grows), and that a version earned its place from the sign of   *)
(* an expectancy that only a run can set.                                  *)
(***************************************************************************)
EXTENDS Klines, Strategies, Judgments, TLAPS, FiniteSetTheorems, WellFoundedInduction

USE KlinesAssumption

Bars == {k \in Int : k >= Listed}
Spans == Int \X Int

\* What a file of bars B that says it covers C is worth at the time t.
Known(B, C, t) ==
    /\ B \subseteq Bars /\ C \subseteq Int
    /\ \A x \in C : x < t
    /\ \A k \in Bars : Ticks(k) \subseteq C => k \in B

FileTrue ==
    /\ file = [bars |-> file.bars, covered |-> file.covered]
    /\ Known(file.bars, file.covered, clock)
    /\ \A k \in file.bars : ClosesOn(k) < clock

States == {"idle", "asking", "done", "failed"}
Loads == [at : States, from : Nat, to : Nat, now : Nat, bars : SUBSET Bars, covered : SUBSET Int, fetched : SUBSET Int,
          gaps : SUBSET Spans, end : Int, got : SUBSET Bars, pages : Nat, capped : BOOLEAN]

\* What a load knows: the file as it was, and all bars of what it fetched.
Fetched(s) ==
    /\ Known(s.bars, s.covered, s.now)
    /\ \A x \in s.fetched : x < s.now /\ \A k \in Bars : x \in Ticks(k) => k \in s.bars

\* Of the spans it misses, those not to be asked for any more were fetched.
Asked(s) ==
    /\ s.gaps \subseteq missingSpans(s.covered, s.from, s.to)
    /\ s.capped \/ \A r \in missingSpans(s.covered, s.from, s.to) \ s.gaps :
                       \A x \in r[1]..r[2] : x < s.now => x \in s.fetched

\* The pages of the span being asked for reach down to its end.
Paged(s) ==
    LET gap == Oldest(s.gaps) IN
    /\ s.gaps # {}
    /\ s.end <= gap[2]
    /\ \A k \in s.got : Opens(k) > s.end
    /\ \A k \in Bars : Opens(k) <= gap[2] /\ Opens(k) > s.end => k \in s.got

Complete(s) ==
    LET skipped == UNION {r[1]..r[2] : r \in {r \in Runs((s.from..s.to) \ s.covered) : r[2] - r[1] < BarSpan}}
    IN  \A k \in Traded(s.now) :
          ClosesOn(k) < s.now /\ Opens(k) >= s.from => k \in s.bars \/ s.capped \/ Ticks(k) \cap skipped # {}

LoadTrue(s) ==
    /\ s \in Loads
    /\ s.at = "asking" => s.to = s.now /\ s.from <= s.now /\ s.now <= clock /\ Fetched(s) /\ Asked(s) /\ Paged(s)
    /\ s.at = "done" => Complete(s)

KlinesInv ==
    /\ clock \in 0..EndOfTime
    /\ FileTrue
    /\ DOMAIN load = Loaders /\ load = [l \in Loaders |-> load[l]]
    /\ \A l \in Loaders : LoadTrue(load[l])

-----------------------------------------------------------------------------
(***************************************************************************)
(* Ticks and bars                                                          *)
(***************************************************************************)
\* When a bar opens and closes, in ticks.
LEMMA OpensInt == \A k \in Int : Opens(k) \in Int /\ ClosesOn(k) = Opens(k) + BarSpan - 1
  BY DEF Opens, ClosesOn

\* A bar closes before any later one opens.
LEMMA BarsApart ==
  ASSUME NEW j \in Int, NEW k \in Int, j < k
  PROVE  ClosesOn(j) < Opens(k)
  <1>1. PICK d \in Nat : k = j + 1 + d
    <2>1. k - j - 1 \in Nat /\ k = j + 1 + (k - j - 1)
      OBVIOUS
    <2> QED
      BY <2>1
  <1>2. k * BarSpan = j * BarSpan + BarSpan + d * BarSpan
    BY <1>1
  <1>3. d * BarSpan >= 0
    BY <1>1
  <1> QED
    BY <1>2, <1>3 DEF Opens, ClosesOn

\* A bar opens no earlier than its number.
LEMMA OpensLate == \A k \in Nat : Opens(k) >= k
  <1> SUFFICES ASSUME NEW k \in Nat PROVE k * BarSpan >= k
    BY DEF Opens
  <1>1. PICK b \in Nat : BarSpan = b + 1
    <2>1. BarSpan - 1 \in Nat /\ BarSpan = (BarSpan - 1) + 1
      OBVIOUS
    <2> QED
      BY <2>1
  <1>2. k * BarSpan = k * b + k /\ k * b >= 0
    BY <1>1
  <1> QED
    BY <1>2

\* The ticks of a bar lie between its opening and its close.
LEMMA TicksOf ==
  ASSUME NEW k \in Int
  PROVE  /\ Ticks(k) \subseteq Int
         /\ \A x \in Ticks(k) : Opens(k) <= x /\ x <= ClosesOn(k)
         /\ ClosesOn(k) \in Ticks(k)
  BY OpensInt DEF Ticks

\* The bars of a symbol by a time are those that have opened.
LEMMA TradedBars ==
  ASSUME NEW t \in 0..EndOfTime
  PROVE  /\ Traded(t) = {k \in Bars : Opens(k) <= t}
         /\ Traded(t) \subseteq Listed..EndOfTime
  <1>1. \A k \in Bars : Opens(k) <= t => k <= EndOfTime
    BY OpensLate, OpensInt DEF Bars
  <1> QED
    BY <1>1 DEF Traded, Bars

-----------------------------------------------------------------------------
(***************************************************************************)
(* Sets of numbers                                                         *)
(***************************************************************************)
\* A set of natural numbers has a least element.
LEMMA LeastOf ==
  ASSUME NEW S \in SUBSET Nat, S # {}
  PROVE  \E i \in S : \A j \in S : i <= j
  <1>1. IsWellFoundedOn(OpToRel(<, Nat), Nat)
    BY NatLessThanWellFounded, Zenon
  <1>2. PICK i \in S : \A j \in S : ~(<<j, i>> \in OpToRel(<, Nat))
    BY <1>1, WFMin, Zenon
  <1>3. \A j \in S : ~(j < i)
    BY <1>2 DEF OpToRel
  <1> QED
    BY <1>3

\* The minimum of a set of bars is its first bar.
LEMMA MinOf ==
  ASSUME NEW S \in SUBSET Bars, S # {}
  PROVE  Min(S) \in S /\ \A j \in S : Min(S) <= j
  <1>1. S \in SUBSET Nat
    BY DEF Bars
  <1>2. \E i \in S : \A j \in S : i <= j
    BY <1>1, LeastOf
  <1> QED
    BY <1>2 DEF Min

\* A set within an interval has a greatest element.
LEMMA GreatestOf ==
  ASSUME NEW e \in Nat, NEW S \in SUBSET (0..e), S # {}
  PROVE  \E i \in S : \A j \in S : j <= i
  <1> DEFINE D == {d \in Nat : \E j \in S : j + d = e}
  <1>1. ASSUME NEW j \in S PROVE e - j \in D
    <2>1. e - j \in Nat /\ j + (e - j) = e
      OBVIOUS
    <2> QED
      BY <2>1
  <1>2. D \in SUBSET Nat /\ D # {}
    BY <1>1
  <1>3. PICK d \in D : \A c \in D : d <= c
    BY <1>2, LeastOf
  <1>4. PICK i \in S : i + d = e
    BY <1>3
  <1>5. ASSUME NEW j \in S PROVE j <= i
    <2>1. d \in Nat /\ d <= e - j
      BY <1>1, <1>3
    <2> QED
      BY <2>1, <1>4
  <1> QED
    BY <1>5

\* Every number of a bounded set lies in a run of it.
LEMMA InARun ==
  ASSUME NEW from \in Nat, NEW to \in Nat, NEW S \in SUBSET (from..to), NEW x \in S
  PROVE  \E r \in Runs(S) : x \in r[1]..r[2]
  <1> DEFINE Up == {c \in Nat : x + c + 1 \notin S}
             Down == {c \in Nat : x - c - 1 \notin S}
  <1>0. x \in Int /\ from <= x /\ x <= to
    OBVIOUS
  <1>1. to - x \in Up /\ x - from \in Down
    <2>1. to - x \in Nat /\ x + (to - x) + 1 = to + 1 /\ to + 1 \notin S
      BY <1>0
    <2>2. x - from \in Nat /\ x - (x - from) - 1 = from - 1 /\ from - 1 \notin S
      BY <1>0
    <2> QED
      BY <2>1, <2>2
  <1>2. PICK u \in Up : \A c \in Up : u <= c
    BY <1>1, LeastOf
  <1>3. PICK d \in Down : \A c \in Down : d <= c
    BY <1>1, LeastOf
  <1>u. u \in Nat /\ (x + u + 1) \notin S /\ \A c \in Nat : c < u => (x + c + 1) \in S
    BY <1>2
  <1>d. d \in Nat /\ (x - d - 1) \notin S /\ \A c \in Nat : c < d => (x - c - 1) \in S
    BY <1>3
  <1> HIDE DEF Up, Down
  <1> DEFINE a == x - d
             b == x + u
  <1>4. a \in Int /\ b \in Int /\ a <= x /\ x <= b
    BY <1>0, <1>u, <1>d
  <1>5. \A y \in x..b : y \in S
    <2> SUFFICES ASSUME NEW y \in x..b, y # x PROVE y \in S
      OBVIOUS
    <2>1. y \in Int /\ x < y /\ y <= x + u
      BY <1>0, <1>u
    <2>2. y - x - 1 \in Nat /\ y - x - 1 < u /\ x + (y - x - 1) + 1 = y
      BY <2>1, <1>0, <1>u
    <2> QED
      BY <2>2, <1>u
  <1>6. \A y \in a..x : y \in S
    <2> SUFFICES ASSUME NEW y \in a..x, y # x PROVE y \in S
      OBVIOUS
    <2>1. y \in Int /\ y < x /\ x - d <= y
      BY <1>0, <1>d
    <2>2. x - y - 1 \in Nat /\ x - y - 1 < d /\ x - (x - y - 1) - 1 = y
      BY <2>1, <1>0, <1>d
    <2> QED
      BY <2>2, <1>d
  <1>7. a..b \subseteq S
    BY <1>0, <1>4, <1>5, <1>6
  <1>8. b + 1 \notin S /\ a - 1 \notin S
    BY <1>0, <1>u, <1>d
  <1>9. a \in S /\ b \in S
    BY <1>4, <1>7
  <1> HIDE DEF a, b
  <1>10. <<a, b>> \in Runs(S)
    BY <1>4, <1>7, <1>8, <1>9 DEF Runs
  <1> QED
    BY <1>0, <1>4, <1>10

-----------------------------------------------------------------------------
(***************************************************************************)
(* Pages and what they cover                                               *)
(***************************************************************************)
\* Bars open in their order.
LEMMA OpensOrder == \A j, k \in Int : Opens(j) <= Opens(k) <=> j <= k
  <1>1. \A j, k \in Int : j < k => Opens(j) < Opens(k)
    BY BarsApart, OpensInt
  <1> QED
    BY <1>1, OpensInt

\* A tick is in no bar before one that has opened by then.
LEMMA TickInBar ==
  ASSUME NEW j \in Int, NEW k \in Int, NEW x \in Ticks(k), Opens(j) <= x
  PROVE  j <= k
  BY BarsApart, OpensInt, TicksOf

\* The gap a load asks for is one of its gaps, within the span of the load.
LEMMA GapOf ==
  ASSUME NEW s \in Loads, s.gaps # {}, s.gaps \subseteq missingSpans(s.covered, s.from, s.to)
  PROVE  LET gap == Oldest(s.gaps) IN
         gap \in s.gaps /\ gap \in Int \X Int /\ gap[1] <= gap[2] /\ s.from <= gap[1] /\ gap[2] <= s.to
  <1>1. s.from \in Nat /\ s.to \in Nat
    BY DEF Loads
  <1>2. \A r \in s.gaps : r \in Int \X Int /\ r[1] <= r[2] /\ r[1] \in Nat /\ s.from <= r[1] /\ r[2] <= s.to
    BY <1>1 DEF missingSpans, Runs
  <1> DEFINE F == {r[1] : r \in s.gaps}
  <1>3. F \in SUBSET Nat /\ F # {}
    BY <1>2
  <1>4. PICK i \in F : \A j \in F : i <= j
    BY <1>3, LeastOf
  <1>5. \E r \in s.gaps : \A q \in s.gaps : r[1] <= q[1]
    BY <1>4
  <1>6. Oldest(s.gaps) \in s.gaps
    BY <1>5 DEF Oldest
  <1> QED
    BY <1>2, <1>6

\* A page holds all bars from its first one to the end that was asked for, and
\* is empty only when there is none.
LEMMA PageOf ==
  ASSUME clock \in 0..EndOfTime, NEW e \in Int, e <= clock
  PROVE  LET rows == Page(e) IN
         /\ rows \in SUBSET Bars
         /\ \A k \in rows : Opens(k) <= e
         /\ rows = {} => \A k \in Bars : Opens(k) > e
         /\ rows # {} => \A k \in Bars : Opens(k) <= e /\ k >= Min(rows) => k \in rows
  <1> DEFINE T == {k \in Traded(clock) : Opens(k) <= e}
             After(i) == {j \in T : j > i}
             rows == Page(e)
  <1>1. Traded(clock) = {k \in Bars : Opens(k) <= clock} /\ Traded(clock) \subseteq Listed..EndOfTime
    BY TradedBars
  <1>2. T \subseteq Listed..EndOfTime /\ \A k \in Bars : Opens(k) <= e <=> k \in T
    BY <1>1, OpensInt DEF Bars
  <1>3. T \subseteq Bars
    BY <1>1
  <1>4. rows = {k \in T : Cardinality(After(k)) < PageSize}
    BY DEF Page
  <1>5. IsFiniteSet(Listed..EndOfTime)
    BY FS_Interval
  <1>6. \A i : IsFiniteSet(After(i))
    BY <1>2, <1>5, FS_Subset
  <1>7. ASSUME NEW i \in Bars, NEW k \in Bars, i <= k
        PROVE  Cardinality(After(k)) \in Nat /\ Cardinality(After(i)) \in Nat /\ Cardinality(After(k)) <= Cardinality(After(i))
    <2>1. After(k) \subseteq After(i)
      BY <1>3, <1>7 DEF Bars
    <2> QED
      BY <1>6, <2>1, FS_Subset, FS_CardinalityType
  <1>8. T # {} => rows # {}
    <2> SUFFICES ASSUME T # {} PROVE rows # {}
      OBVIOUS
    <2>1. T \in SUBSET (0..EndOfTime)
      BY <1>2
    <2>2. PICK i \in T : \A j \in T : j <= i
      BY <2>1, GreatestOf
    <2>3. After(i) = {}
      BY <2>1, <2>2
    <2>4. Cardinality(After(i)) = 0
      BY <2>3, FS_EmptySet
    <2> QED
      BY <1>4, <2>4
  <1>9. rows \subseteq T
    BY <1>4
  <1>10. rows # {} => \A k \in T : k >= Min(rows) => k \in rows
    <2> SUFFICES ASSUME rows # {}, NEW k \in T, k >= Min(rows) PROVE k \in rows
      OBVIOUS
    <2>1. Min(rows) \in rows
      BY <1>3, <1>9, MinOf
    <2>2. Min(rows) \in Bars /\ k \in Bars /\ Cardinality(After(Min(rows))) < PageSize
      BY <1>3, <1>4, <1>9, <2>1
    <2>3. Cardinality(After(k)) < PageSize
      BY <1>7, <2>2
    <2> QED
      BY <1>4, <2>3
  <1> HIDE DEF T, rows, After
  <1>11. rows \in SUBSET Bars /\ \A k \in rows : Opens(k) <= e
    BY <1>2, <1>3, <1>9
  <1>12. rows = {} => \A k \in Bars : Opens(k) > e
    BY <1>2, <1>8, OpensInt DEF Bars
  <1>13. rows # {} => \A k \in Bars : Opens(k) <= e /\ k >= Min(rows) => k \in rows
    BY <1>2, <1>10
  <1> QED
    BY <1>11, <1>12, <1>13 DEF rows

\* What the page that ends at e adds to the bars got so far of a gap that ends at top.
Continued(e, top, got) ==
    LET rows == Page(e)
        first == Min(rows)
    IN  /\ rows \in SUBSET Bars
        /\ rows = {} => \A k \in Bars : Opens(k) <= top => k \in got
        /\ rows # {} => /\ first \in Bars /\ Opens(first) <= e
                        /\ \A k \in got \cup rows : k >= first
                        /\ \A k \in Bars : Opens(k) <= top /\ k >= first => k \in got \cup rows
                        /\ got # {} => ~(first >= Min(got))
                        /\ Min(got \cup rows) = first

\* The next page continues the earlier ones downwards: together they hold all
\* bars of the gap from the first one of the page on.
LEMMA PagesDown ==
  ASSUME clock \in 0..EndOfTime, NEW e \in Int, e <= clock, NEW top \in Int, NEW got \in SUBSET Bars,
         \A k \in got : Opens(k) > e,
         \A k \in Bars : Opens(k) <= top /\ Opens(k) > e => k \in got
  PROVE  Continued(e, top, got)
  <1> DEFINE rows == Page(e)
             first == Min(rows)
  <1>1. /\ rows \in SUBSET Bars
        /\ \A k \in rows : Opens(k) <= e
        /\ rows = {} => \A k \in Bars : Opens(k) > e
        /\ rows # {} => \A k \in Bars : Opens(k) <= e /\ k >= first => k \in rows
    BY PageOf
  <1> HIDE DEF rows
  <1>2. CASE rows = {}
    BY <1>1, <1>2 DEF rows, Continued
  <1>3. CASE rows # {}
    <2>1. first \in rows /\ \A k \in rows : first <= k
      BY <1>1, <1>3, MinOf
    <2>2. first \in Bars /\ first \in Int /\ Opens(first) <= e
      BY <1>1, <2>1 DEF Bars
    <2> HIDE DEF first
    <2>3. ASSUME NEW k \in got PROVE k \in Int /\ k > first
      <3>1. k \in Int /\ Opens(k) > e
        BY DEF Bars
      <3>2. Opens(k) \in Int /\ Opens(first) \in Int
        BY <2>2, <3>1, OpensInt
      <3>3. ~(Opens(k) <= Opens(first))
        BY <2>2, <3>1, <3>2
      <3> QED
        BY <2>2, <3>1, <3>3, OpensOrder
    <2>4. \A k \in got \cup rows : k >= first
      BY <2>1, <2>2, <2>3, <1>1 DEF Bars
    <2>5. \A k \in Bars : Opens(k) <= top /\ k >= first => k \in got \cup rows
      <3> SUFFICES ASSUME NEW k \in Bars, Opens(k) <= top, k >= first PROVE k \in got \cup rows
        OBVIOUS
      <3>1. Opens(k) \in Int
        BY OpensInt DEF Bars
      <3>2. Opens(k) <= e \/ Opens(k) > e
        BY <3>1
      <3> QED
        BY <1>1, <1>3, <3>2 DEF first
    <2>6. got # {} => ~(first >= Min(got))
      <3> SUFFICES ASSUME got # {} PROVE ~(first >= Min(got))
        OBVIOUS
      <3>1. Min(got) \in got
        BY MinOf
      <3>2. Min(got) \in Int /\ Min(got) > first
        BY <2>3, <3>1, Zenon
      <3> QED
        BY <2>2, <3>2
    <2>7. Min(got \cup rows) = first
      <3>1. got \cup rows \in SUBSET Bars /\ got \cup rows # {}
        BY <1>1, <1>3
      <3>2. Min(got \cup rows) \in got \cup rows /\ \A j \in got \cup rows : Min(got \cup rows) <= j
        BY <3>1, MinOf
      <3>3. Min(got \cup rows) \in Int /\ Min(got \cup rows) <= first /\ Min(got \cup rows) >= first
        BY <2>1, <2>4, <3>1, <3>2 DEF Bars
      <3> QED
        BY <2>2, <3>3
    <2> QED
      BY <1>1, <1>3, <2>2, <2>4, <2>5, <2>6, <2>7 DEF first, rows, Continued
  <1> QED
    BY <1>2, <1>3

\* What is then said to be covered holds no tick of a bar that was not fetched,
\* and when the pages reached the beginning of the gap it is all of the gap.
LEMMA CoversTrue ==
  ASSUME clock \in 0..EndOfTime, NEW e \in Int, e <= clock, NEW gap \in Int \X Int, NEW got \in SUBSET Bars,
         \A k \in got : Opens(k) > e,
         \A k \in Bars : Opens(k) <= gap[2] /\ Opens(k) > e => k \in got,
         NEW s \in Loads
  PROVE  LET rows == Page(e)
             reached == rows = {} \/ Opens(Min(rows)) <= gap[1] \/ (got # {} /\ Min(rows) >= Min(got))
             cover == Covers(s, gap, got \cup rows, reached)
         IN  /\ \A x \in cover : x \in Int /\ x < s.now /\ \A k \in Bars : x \in Ticks(k) => k \in got \cup rows
             /\ reached => \A x \in gap[1]..gap[2] : x < s.now => x \in cover
  <1> DEFINE rows == Page(e)
             first == Min(rows)
             reached == rows = {} \/ Opens(first) <= gap[1] \/ (got # {} /\ first >= Min(got))
             all == got \cup rows
             left == IF reached THEN gap[1] ELSE IF all = {} THEN gap[2] ELSE Opens(Min(all))
             right == IF gap[2] < s.now THEN gap[2] ELSE s.now - 1
  <1>2. gap[1] \in Int /\ gap[2] \in Int /\ s.now \in Int
    BY DEF Loads
  <1> HIDE DEF reached, left, right
  <1>1. /\ rows \in SUBSET Bars
        /\ rows = {} => \A k \in Bars : Opens(k) <= gap[2] => k \in got
        /\ rows # {} => /\ first \in Bars /\ Opens(first) <= e
                        /\ \A k \in Bars : Opens(k) <= gap[2] /\ k >= first => k \in all
                        /\ got # {} => ~(first >= Min(got))
                        /\ Min(all) = first
    <2>1. Continued(e, gap[2], got)
      BY <1>2, PagesDown
    <2> QED
      BY <2>1 DEF Continued
  <1> USE DEF reached, left, right
  <1>3. right \in Int /\ right < s.now /\ right <= gap[2] /\ \A x \in Int : x <= gap[2] /\ x < s.now => x <= right
    BY <1>2
  <1>4. Covers(s, gap, all, reached) = left..right
    BY DEF Covers
  <1> HIDE DEF rows, first, right
  <1>5. left \in Int /\ (rows # {} => Opens(first) <= left)
    <2>1. CASE rows = {}
      BY <1>2, <2>1
    <2>2. CASE rows # {}
      <3>1. Opens(first) \in Int
        BY <1>1, <2>2, OpensInt DEF Bars
      <3>2. reached => Opens(first) <= gap[1]
        BY <1>1, <2>2
      <3>3. ~reached => left = Opens(first)
        BY <1>1, <2>2
      <3> QED
        BY <1>2, <3>1, <3>2, <3>3
    <2> QED
      BY <2>1, <2>2
  <1>6. reached => left = gap[1]
    OBVIOUS
  <1> HIDE DEF left, reached
  <1>7. ASSUME NEW x \in left..right, NEW k \in Bars, x \in Ticks(k) PROVE k \in all
    <2>1. k \in Int /\ x \in Int /\ x <= gap[2] /\ left <= x
      BY <1>2, <1>3, <1>5 DEF Bars
    <2>2. Opens(k) \in Int /\ Opens(k) <= x
      BY <1>7, <2>1, TicksOf, OpensInt
    <2>3. Opens(k) <= gap[2]
      BY <1>2, <2>1, <2>2
    <2>4. CASE rows = {}
      BY <1>1, <2>3, <2>4
    <2>5. CASE rows # {}
      <3>1. first \in Int /\ Opens(first) \in Int
        BY <1>1, <2>5, OpensInt DEF Bars
      <3>2. Opens(first) <= x
        BY <1>5, <2>1, <2>5, <3>1
      <3>3. first <= k
        BY <1>7, <2>1, <3>1, <3>2, TickInBar
      <3> QED
        BY <1>1, <2>1, <2>3, <2>5, <3>1, <3>3
    <2> QED
      BY <2>4, <2>5
  <1>8. \A x \in left..right : x \in Int /\ x < s.now
    BY <1>2, <1>3, <1>5
  <1>9. reached => \A x \in gap[1]..gap[2] : x < s.now => x \in left..right
    BY <1>2, <1>3, <1>5, <1>6
  <1> QED
    BY <1>4, <1>7, <1>8, <1>9 DEF rows, first, reached

-----------------------------------------------------------------------------
(***************************************************************************)
(* Every step keeps the invariant                                          *)
(***************************************************************************)
\* The idle record of a loader claims nothing.
LEMMA IdleTrue == Idle \in Loads /\ Idle.at = "idle"
  BY DEF Idle, Loads, States

\* A step of one loader is judged by what becomes of that loader and of the file.
LEMMA OneLoader ==
  ASSUME KlinesInv, NEW l \in Loaders, NEW n, LoadTrue(n), load' = [load EXCEPT ![l] = n], clock' = clock, FileTrue'
  PROVE  KlinesInv'
  <1>1. \A m \in Loaders : load'[m] = IF m = l THEN n ELSE load[m]
    BY DEF KlinesInv
  <1>2. \A m \in Loaders : LoadTrue(load[m])
    BY DEF KlinesInv
  <1>3. \A m \in Loaders : LoadTrue(load'[m])
    BY <1>1, <1>2
  <1>4. \A m \in Loaders : LoadTrue(load[m])'
    BY <1>3 DEF LoadTrue
  <1>5. DOMAIN load' = Loaders /\ load' = [m \in Loaders |-> load'[m]]
    BY DEF KlinesInv
  <1> QED
    BY <1>4, <1>5 DEF KlinesInv

\* A load that has asked for everything it missed has every bar of its span
\* that had closed.
LEMMA AskedAll ==
  ASSUME NEW s \in Loads, s.to = s.now, s.now \in 0..EndOfTime, Fetched(s), Asked(s), s.gaps = {},
         NEW n, n = [s EXCEPT !.at = "done", !.bars = sliceBars(s.bars, s.from, s.to)]
  PROVE  n \in Loads /\ Complete(n)
  <1>1. /\ s.from \in Nat /\ s.to \in Nat /\ s.now \in Nat /\ s.bars \in SUBSET Bars /\ s.covered \in SUBSET Int
    BY DEF Loads
  <1>2. sliceBars(s.bars, s.from, s.to) \in SUBSET Bars
    BY <1>1 DEF sliceBars
  <1>3. n \in Loads
    BY <1>2 DEF Loads, States
  <1>4. n.from = s.from /\ n.to = s.to /\ n.now = s.now /\ n.covered = s.covered /\ n.capped = s.capped
        /\ n.bars = sliceBars(s.bars, s.from, s.to)
    BY DEF Loads
  <1> DEFINE M == (s.from..s.to) \ s.covered
             skipped == UNION {r[1]..r[2] : r \in {r \in Runs(M) : r[2] - r[1] < BarSpan}}
  <1>5. ASSUME NEW k \in Traded(s.now), ClosesOn(k) < s.now, Opens(k) >= s.from, ~s.capped, Ticks(k) \cap skipped = {}
        PROVE  k \in sliceBars(s.bars, s.from, s.to)
    <2>1. k \in Bars /\ k \in Int /\ Opens(k) <= s.now
      BY TradedBars DEF Bars
    <2>2. Opens(k) \in Int /\ ClosesOn(k) \in Int /\ ClosesOn(k) >= Opens(k)
      BY <2>1, OpensInt
    <2>3. k \in s.bars
      <3>1. CASE Ticks(k) \subseteq s.covered
        BY <2>1, <3>1 DEF Fetched, Known
      <3>2. CASE ~(Ticks(k) \subseteq s.covered)
        <4>1. PICK x \in Ticks(k) : x \notin s.covered
          BY <3>2
        <4>2. x \in Int /\ Opens(k) <= x /\ x <= ClosesOn(k)
          BY <2>1, TicksOf
        <4>3. x < s.now /\ x \in M
          BY <1>1, <1>5, <2>2, <4>1, <4>2
        <4> HIDE DEF M
        <4>4. M \in SUBSET (s.from..s.to)
          BY DEF M
        <4>5. PICK r \in Runs(M) : x \in r[1]..r[2]
          BY <1>1, <4>3, <4>4, InARun
        <4>6. r \in Int \X Int
          BY <4>4 DEF Runs
        <4>7. ~(r[2] - r[1] < BarSpan)
          BY <1>5, <4>1, <4>5
        <4>8. r[2] - r[1] >= BarSpan
          BY <4>6, <4>7
        <4>9. r \in missingSpans(s.covered, s.from, s.to)
          BY <4>5, <4>8 DEF missingSpans, M
        <4>10. x \in s.fetched
          BY <1>5, <4>3, <4>5, <4>9 DEF Asked
        <4> QED
          BY <2>1, <4>1, <4>10 DEF Fetched
      <3> QED
        BY <3>1, <3>2
    <2> HIDE DEF skipped, M
    <2>4. ClosesOn(k) >= s.from
      BY <1>1, <1>5, <2>2
    <2>5. Opens(k) <= s.to
      BY <2>1
    <2> QED
      BY <2>3, <2>4, <2>5 DEF sliceBars
  <1>6. Complete(n)
    <2> DEFINE missed == UNION {r[1]..r[2] : r \in {r \in Runs((n.from..n.to) \ n.covered) : r[2] - r[1] < BarSpan}}
    <2>1. missed = skipped
      BY <1>4
    <2> HIDE DEF skipped, M
    <2>2. \A k \in Traded(n.now) : ClosesOn(k) < n.now /\ Opens(k) >= n.from => k \in n.bars \/ n.capped \/ Ticks(k) \cap skipped # {}
      BY <1>1, <1>4, <1>5
    <2>3. \A k \in Traded(n.now) : ClosesOn(k) < n.now /\ Opens(k) >= n.from => k \in n.bars \/ n.capped \/ Ticks(k) \cap missed # {}
      BY <2>1, <2>2, Zenon
    <2> QED
      BY <2>3, Zenon DEF Complete
  <1> QED
    BY <1>3, <1>6

\* What a load that fetched to the end writes into the file is true of it.
LEMMA WrittenTrue ==
  ASSUME NEW s \in Loads, Fetched(s), NEW t \in Int, s.now <= t
  PROVE  /\ Known(Kept(s), s.covered \cup s.fetched, t)
         /\ \A k \in Kept(s) : ClosesOn(k) < t
  <1>1. s.now \in Int /\ s.bars \in SUBSET Bars /\ s.covered \in SUBSET Int /\ s.fetched \in SUBSET Int
    BY DEF Loads
  <1>2. \A x \in s.covered \cup s.fetched : x \in Int /\ x < s.now
    BY <1>1 DEF Fetched, Known
  <1>3. ASSUME NEW k \in Bars, Ticks(k) \subseteq s.covered \cup s.fetched
        PROVE  k \in Kept(s)
    <2>1. k \in Int
      BY DEF Bars
    <2>2. ClosesOn(k) \in Ticks(k)
      BY <2>1, TicksOf
    <2>3. ClosesOn(k) < s.now
      BY <1>2, <1>3, <2>2
    <2>4. k \in s.bars
      <3>1. CASE Ticks(k) \subseteq s.covered
        BY <3>1 DEF Fetched, Known
      <3>2. CASE ~(Ticks(k) \subseteq s.covered)
        <4>1. PICK x \in Ticks(k) : x \in s.fetched
          BY <1>3, <3>2
        <4> QED
          BY <4>1 DEF Fetched
      <3> QED
        BY <3>1, <3>2
    <2> QED
      BY <2>3, <2>4 DEF Kept
  <1>4. Kept(s) \subseteq Bars
    BY <1>1 DEF Kept
  <1>5. \A k \in Kept(s) : ClosesOn(k) < t
    <2> SUFFICES ASSUME NEW k \in Kept(s) PROVE ClosesOn(k) < t
      OBVIOUS
    <2>1. k \in Int /\ ClosesOn(k) < s.now
      BY <1>4 DEF Kept, Bars
    <2> QED
      BY <1>1, <2>1, OpensInt
  <1>6. \A x \in s.covered \cup s.fetched : x \in Int /\ x < t
    BY <1>1, <1>2
  <1> QED
    BY <1>1, <1>3, <1>4, <1>5, <1>6 DEF Known

\* A file that is not there claims nothing.
LEMMA NothingKnown == \A t \in Int : Known({}, {}, t)
  BY TicksOf DEF Known, Bars

\* The desk starts with no file, or with that of an earlier version.
LEMMA KlinesStarts == KlinesInit => KlinesInv
  <1> SUFFICES ASSUME KlinesInit PROVE KlinesInv
    OBVIOUS
  <1>1. clock \in 0..EndOfTime
    BY DEF KlinesInit
  <1>2. FileTrue
    <2>1. CASE file = Empty
      BY <1>1, <2>1, NothingKnown DEF FileTrue, Empty
    <2>2. CASE file # Empty
      <3>1. file = [bars |-> {Listed}, covered |-> spansFromBars({Listed})] /\ ClosesOn(Listed) < clock
        BY <2>2, OpensInt, <1>1 DEF KlinesInit
      <3>2. spansFromBars({Listed}) = Ticks(Listed)
        BY DEF spansFromBars
      <3>3. \A x \in Ticks(Listed) : x \in Int /\ x < clock
        BY <1>1, <3>1, TicksOf, OpensInt
      <3>4. ASSUME NEW k \in Bars, Ticks(k) \subseteq Ticks(Listed) PROVE k = Listed
        <4>1. k \in Int /\ Listed \in Int /\ k >= Listed /\ ClosesOn(k) \in Ticks(Listed)
          BY <3>4, TicksOf DEF Bars
        <4>2. ClosesOn(k) <= ClosesOn(Listed)
          BY <4>1, TicksOf
        <4>3. k <= Listed
          BY <4>1, <4>2, OpensOrder, OpensInt
        <4> QED
          BY <4>1, <4>3
      <3>5. Listed \in Bars
        BY DEF Bars
      <3> QED
        BY <3>1, <3>2, <3>3, <3>4, <3>5 DEF FileTrue, Known
    <2> QED
      BY <2>1, <2>2
  <1>3. \A l \in Loaders : LoadTrue(load[l])
    BY IdleTrue DEF KlinesInit, LoadTrue
  <1> QED
    BY <1>1, <1>2, <1>3 DEF KlinesInit, KlinesInv

\* A load begins with the file as it is.
LEMMA LoadStep ==
  ASSUME KlinesInv, NEW l \in Loaders, loadKlines(l)
  PROVE  KlinesInv'
  <1>1. clock \in 0..EndOfTime /\ clock \in Nat /\ FileTrue
    BY DEF KlinesInv
  <1>2. PICK b \in Lookbacks :
         LET from == IF clock > b THEN clock - b ELSE 0
             gaps == missingSpans(file.covered, from, clock)
             start == [Idle EXCEPT !.from = from, !.to = clock, !.now = clock, !.bars = file.bars, !.covered = file.covered]
         IN  load' = [load EXCEPT ![l] =
                IF gaps = {} THEN [start EXCEPT !.at = "done", !.bars = sliceBars(file.bars, from, clock)]
                ELSE [start EXCEPT !.at = "asking", !.gaps = gaps, !.end = Oldest(gaps)[2]]]
    BY DEF loadKlines
  <1> DEFINE from == IF clock > b THEN clock - b ELSE 0
             gaps == missingSpans(file.covered, from, clock)
             start == [Idle EXCEPT !.from = from, !.to = clock, !.now = clock, !.bars = file.bars, !.covered = file.covered]
             n == IF gaps = {} THEN [start EXCEPT !.at = "done", !.bars = sliceBars(file.bars, from, clock)]
                  ELSE [start EXCEPT !.at = "asking", !.gaps = gaps, !.end = Oldest(gaps)[2]]
  <1>3. from \in Nat /\ from <= clock
    BY <1>1
  <1> HIDE DEF from
  <1>4. file.bars \in SUBSET Bars /\ file.covered \in SUBSET Int /\ Known(file.bars, file.covered, clock)
    BY <1>1 DEF FileTrue, Known
  <1>5. /\ start.from = from /\ start.to = clock /\ start.now = clock
        /\ start.bars = file.bars /\ start.covered = file.covered
        /\ start.fetched = {} /\ start.gaps = {} /\ start.got = {}
    BY DEF Idle
  <1>6. start \in Loads
    BY <1>1, <1>3, <1>4, IdleTrue DEF Loads
  <1> HIDE DEF start
  <1>7. Fetched(start)
    BY <1>4, <1>5 DEF Fetched
  <1>8. LoadTrue(n)
    <2>1. CASE gaps = {}
      <3>1. n = [start EXCEPT !.at = "done", !.bars = sliceBars(start.bars, start.from, start.to)]
        BY <1>5, <2>1
      <3>2. Asked(start)
        BY <1>5, <2>1 DEF Asked
      <3>3. start.to = start.now /\ start.now \in 0..EndOfTime /\ start.gaps = {}
        BY <1>1, <1>5
      <3> HIDE DEF n
      <3>4. n \in Loads /\ Complete(n)
        BY <1>6, <1>7, <3>1, <3>2, <3>3, AskedAll
      <3>5. n.at = "done"
        BY <1>6, <3>1 DEF Loads
      <3> QED
        BY <3>4, <3>5 DEF LoadTrue
    <2>2. CASE gaps # {}
      <3> DEFINE top == Oldest(gaps)[2]
      <3>1. gaps \in SUBSET Spans
        BY <1>3, <1>1 DEF missingSpans, Runs, Spans
      <3> DEFINE g == [start EXCEPT !.gaps = gaps]
      <3>2. g \in Loads /\ g.gaps = gaps /\ g.covered = file.covered /\ g.from = from /\ g.to = clock
        BY <1>5, <1>6, <3>1 DEF Loads
      <3> HIDE DEF gaps, g
      <3>3. Oldest(gaps) \in Int \X Int
        <4>1. g.gaps # {} /\ g.gaps \subseteq missingSpans(g.covered, g.from, g.to)
          BY <2>2, <3>2 DEF gaps
        <4> QED
          BY <3>2, <4>1, GapOf
      <3>4. top \in Int
        BY <3>3
      <3> HIDE DEF top
      <3>5. /\ n.at = "asking" /\ n.from = from /\ n.to = clock /\ n.now = clock
            /\ n.bars = file.bars /\ n.covered = file.covered
            /\ n.fetched = {} /\ n.gaps = gaps /\ n.end = top /\ n.got = {}
        BY <1>5, <1>6, <2>2 DEF top, Loads
      <3>6. n \in Loads
        BY <1>6, <2>2, <3>1, <3>4 DEF Loads, States, top
      <3> HIDE DEF n
      <3>7. Fetched(n)
        BY <1>4, <3>5 DEF Fetched
      <3>8. Asked(n)
        BY <3>5 DEF Asked, gaps
      <3>9. Paged(n)
        <4>1. \A k \in Bars : ~(Opens(k) <= top /\ Opens(k) > top)
          BY <3>4, OpensInt DEF Bars
        <4>2. Oldest(n.gaps)[2] = top /\ n.end = top /\ n.got = {} /\ n.gaps # {}
          BY <2>2, <3>5 DEF top
        <4> QED
          BY <3>4, <4>1, <4>2 DEF Paged
      <3> QED
        BY <1>1, <1>3, <3>5, <3>6, <3>7, <3>8, <3>9 DEF LoadTrue
    <2> QED
      BY <2>1, <2>2
  <1>9. load' = [load EXCEPT ![l] = n]
    BY <1>2 DEF from, start
  <1> HIDE DEF n
  <1>10. clock' = clock /\ FileTrue'
    BY <1>1 DEF loadKlines, FileTrue
  <1> QED
    BY <1>8, <1>9, <1>10, OneLoader

\* A page that arrives: another one is asked for, the next gap is, or the load ends.
LEMMA PageStep ==
  ASSUME KlinesInv, NEW l \in Loaders, fetchKlineSpan(l)
  PROVE  KlinesInv'
  <1> DEFINE s == load[l]
             gap == Oldest(s.gaps)
             rows == Page(s.end)
             first == Min(rows)
             reached == rows = {} \/ Opens(first) <= gap[1] \/ (s.got # {} /\ first >= Min(s.got))
             got == s.got \cup rows
             cover == Covers(s, gap, got, reached)
             capped == s.pages + 1 = MaxPages
             next == [s EXCEPT !.bars = @ \cup got, !.fetched = @ \cup cover, !.capped = @ \/ ~reached,
                               !.gaps = @ \ {gap}, !.got = {}, !.pages = 0]
             page == [s EXCEPT !.got = got, !.end = Opens(first) - 1, !.pages = @ + 1]
             more == [next EXCEPT !.end = Oldest(next.gaps)[2]]
             done == [next EXCEPT !.at = "done", !.bars = sliceBars(next.bars, next.from, next.to)]
  <1>1. clock \in 0..EndOfTime /\ clock \in Nat /\ FileTrue /\ LoadTrue(s)
    BY DEF KlinesInv
  <1>2. s \in Loads /\ s.at = "asking"
    BY <1>1 DEF LoadTrue, fetchKlineSpan
  <1>3. s.to = s.now /\ s.from <= s.now /\ s.now <= clock /\ Fetched(s) /\ Asked(s) /\ Paged(s)
    BY <1>1, <1>2 DEF LoadTrue
  <1>4. \/ ~reached /\ ~capped /\ load' = [load EXCEPT ![l] = page] /\ UNCHANGED file
        \/ next.gaps # {} /\ load' = [load EXCEPT ![l] = more] /\ UNCHANGED file
        \/ next.gaps = {} /\ load' = [load EXCEPT ![l] = done]
           /\ file' \in {file, [bars |-> Kept(next), covered |-> next.covered \cup next.fetched]}
    BY DEF fetchKlineSpan, Finish
  <1>5. clock' = clock
    BY DEF fetchKlineSpan
  <1> HIDE DEF s
  <1>6. s.gaps # {} /\ s.gaps \subseteq missingSpans(s.covered, s.from, s.to)
    BY <1>3 DEF Asked, Paged
  <1>7. gap \in s.gaps /\ gap \in Int \X Int /\ gap[1] <= gap[2] /\ gap[2] <= s.to
    BY <1>2, <1>6, GapOf
  <1>8. /\ s.end <= gap[2] /\ \A k \in s.got : Opens(k) > s.end
        /\ \A k \in Bars : Opens(k) <= gap[2] /\ Opens(k) > s.end => k \in s.got
    BY <1>3 DEF Paged
  <1>9. /\ s.from \in Nat /\ s.to \in Nat /\ s.now \in Nat /\ s.end \in Int /\ s.got \in SUBSET Bars /\ s.pages \in Nat
        /\ s.bars \in SUBSET Bars /\ s.covered \in SUBSET Int /\ s.fetched \in SUBSET Int /\ s.capped \in BOOLEAN
        /\ s.gaps \in SUBSET Spans
    BY <1>2 DEF Loads
  <1> HIDE DEF gap
  <1>10. s.end <= clock /\ gap[2] \in Int
    BY <1>1, <1>3, <1>7, <1>8, <1>9
  <1> HIDE DEF reached, cover, capped, next, page, more, done
  <1>11. /\ rows \in SUBSET Bars
         /\ rows = {} => \A k \in Bars : Opens(k) <= gap[2] => k \in s.got
         /\ rows # {} => /\ first \in Bars /\ Opens(first) <= s.end
                         /\ \A k \in got : k >= first
                         /\ \A k \in Bars : Opens(k) <= gap[2] /\ k >= first => k \in got
                         /\ s.got # {} => ~(first >= Min(s.got))
                         /\ Min(got) = first
    <2>1. clock \in 0..EndOfTime /\ s.end \in Int /\ s.end <= clock /\ gap[2] \in Int /\ s.got \in SUBSET Bars
      BY <1>1, <1>9, <1>10
    <2>2. /\ \A k \in s.got : Opens(k) > s.end
          /\ \A k \in Bars : Opens(k) <= gap[2] /\ Opens(k) > s.end => k \in s.got
      BY <1>8
    <2>3. Continued(s.end, gap[2], s.got)
      BY <2>1, <2>2, PagesDown
    <2> QED
      BY <2>3 DEF Continued
  <1> USE DEF reached, cover, capped, next, page, more, done
  <1>12. /\ \A x \in cover : x \in Int /\ x < s.now /\ \A k \in Bars : x \in Ticks(k) => k \in got
         /\ reached => \A x \in gap[1]..gap[2] : x < s.now => x \in cover
    BY <1>1, <1>2, <1>7, <1>8, <1>9, <1>10, CoversTrue, ZenonT(60)
  <1>13. got \in SUBSET Bars /\ cover \in SUBSET Int /\ reached \in BOOLEAN /\ (rows = {} => reached)
    BY <1>9, <1>11, <1>12
  <1> HIDE DEF rows, first, reached, got, cover, capped
  <1>14. next \in Loads
    BY <1>2, <1>9, <1>13 DEF Loads
  <1>15. /\ next.at = "asking" /\ next.from = s.from /\ next.to = s.to /\ next.now = s.now
         /\ next.bars = s.bars \cup got /\ next.covered = s.covered /\ next.fetched = s.fetched \cup cover
         /\ next.capped = (s.capped \/ ~reached) /\ next.gaps = s.gaps \ {gap} /\ next.got = {}
    BY <1>2 DEF Loads
  <1> HIDE DEF next
  <1>16. Fetched(next)
    <2>1. Known(s.bars \cup got, s.covered, s.now)
      BY <1>3, <1>9, <1>13 DEF Fetched, Known
    <2>2. \A x \in s.fetched \cup cover : x < s.now /\ \A k \in Bars : x \in Ticks(k) => k \in s.bars \cup got
      BY <1>3, <1>12 DEF Fetched
    <2> QED
      BY <1>15, <2>1, <2>2 DEF Fetched
  <1>17. Asked(next)
    <2>1. ASSUME ~next.capped, NEW r \in missingSpans(next.covered, next.from, next.to) \ next.gaps,
                 NEW x \in r[1]..r[2], x < next.now
          PROVE  x \in next.fetched
      <3>1. CASE r = gap
        BY <1>12, <1>13, <1>15, <2>1, <3>1
      <3>2. CASE r # gap
        <4>1. ~s.capped /\ r \in missingSpans(s.covered, s.from, s.to) \ s.gaps
          BY <1>9, <1>13, <1>15, <2>1, <3>2
        <4> QED
          BY <1>3, <1>15, <2>1, <4>1 DEF Asked
      <3> QED
        BY <3>1, <3>2
    <2>2. next.gaps \subseteq missingSpans(next.covered, next.from, next.to)
      BY <1>6, <1>15
    <2> QED
      BY <2>1, <2>2 DEF Asked
  <1>18. CASE ~reached /\ ~capped /\ load' = [load EXCEPT ![l] = page] /\ UNCHANGED file
    <2>1. rows # {} /\ first \in Bars /\ first \in Int
      BY <1>11, <1>13, <1>18 DEF Bars
    <2>2. Opens(first) \in Int /\ Opens(first) <= s.end
      BY <1>11, <2>1, OpensInt
    <2>p. Opens(first) - 1 \in Int /\ s.pages + 1 \in Nat
      BY <1>9, <2>2
    <2>3. page \in Loads
      BY <1>2, <1>13, <2>p DEF Loads
    <2>4. /\ page.at = "asking" /\ page.from = s.from /\ page.to = s.to /\ page.now = s.now
          /\ page.bars = s.bars /\ page.covered = s.covered /\ page.fetched = s.fetched
          /\ page.capped = s.capped /\ page.gaps = s.gaps /\ page.got = got /\ page.end = Opens(first) - 1
      BY <1>2 DEF Loads
    <2> HIDE DEF page
    <2>5. Fetched(page) /\ Asked(page)
      BY <1>3, <2>4 DEF Fetched, Asked
    <2>6. Paged(page)
      <3>1. Oldest(page.gaps) = gap
        BY <2>4 DEF gap
      <3>2. page.end <= gap[2]
        BY <1>8, <1>9, <1>10, <2>2, <2>4
      <3>3. ASSUME NEW k \in got PROVE Opens(k) > page.end
        <4>1. k \in Int /\ first <= k
          BY <1>11, <1>13, <2>1 DEF Bars
        <4>2. Opens(first) <= Opens(k) /\ Opens(k) \in Int
          BY <2>1, <4>1, OpensOrder, OpensInt
        <4> QED
          BY <2>2, <2>4, <4>2
      <3>4. ASSUME NEW k \in Bars, Opens(k) <= gap[2], Opens(k) > page.end PROVE k \in got
        <4>1. k \in Int /\ Opens(k) \in Int
          BY OpensInt DEF Bars
        <4>2. Opens(first) <= Opens(k)
          BY <2>2, <2>4, <3>4, <4>1
        <4>3. first <= k
          BY <2>1, <4>1, <4>2, OpensOrder
        <4> QED
          BY <1>11, <2>1, <3>4, <4>1, <4>3
      <3>5. page.gaps # {}
        BY <1>6, <2>4
      <3> QED
        BY <2>4, <3>1, <3>2, <3>3, <3>4, <3>5 DEF Paged
    <2>7. LoadTrue(page)
      BY <1>3, <2>3, <2>4, <2>5, <2>6 DEF LoadTrue
    <2>8. FileTrue'
      BY <1>1, <1>5, <1>18 DEF FileTrue
    <2> QED
      BY <1>5, <1>18, <2>7, <2>8, OneLoader
  <1>19. CASE next.gaps # {} /\ load' = [load EXCEPT ![l] = more] /\ UNCHANGED file
    <2> DEFINE top == Oldest(next.gaps)[2]
    <2>1. next.gaps \subseteq missingSpans(next.covered, next.from, next.to)
      BY <1>17 DEF Asked
    <2>2. Oldest(next.gaps) \in Int \X Int
      BY <1>14, <1>19, <2>1, GapOf
    <2>3. top \in Int
      BY <2>2
    <2> HIDE DEF top
    <2>4. more \in Loads
      BY <1>14, <2>3 DEF Loads, top
    <2>5. /\ more.at = "asking" /\ more.from = next.from /\ more.to = next.to /\ more.now = next.now
          /\ more.bars = next.bars /\ more.covered = next.covered /\ more.fetched = next.fetched
          /\ more.capped = next.capped /\ more.gaps = next.gaps /\ more.got = {} /\ more.end = top
      BY <1>14, <1>15 DEF Loads, top
    <2> HIDE DEF more
    <2>6. Fetched(more) /\ Asked(more)
      BY <1>16, <1>17, <2>5 DEF Fetched, Asked
    <2>7. Paged(more)
      <3>1. \A k \in Bars : ~(Opens(k) <= top /\ Opens(k) > top)
        BY <2>3, OpensInt DEF Bars
      <3>2. Oldest(more.gaps)[2] = top /\ more.end = top /\ more.got = {} /\ more.gaps # {}
        BY <1>19, <2>5 DEF top
      <3> QED
        BY <2>3, <3>1, <3>2 DEF Paged
    <2>8. LoadTrue(more)
      BY <1>3, <1>15, <2>4, <2>5, <2>6, <2>7 DEF LoadTrue
    <2>9. FileTrue'
      BY <1>1, <1>5, <1>19 DEF FileTrue
    <2> QED
      BY <1>5, <1>19, <2>8, <2>9, OneLoader
  <1>20. CASE /\ next.gaps = {} /\ load' = [load EXCEPT ![l] = done]
              /\ file' \in {file, [bars |-> Kept(next), covered |-> next.covered \cup next.fetched]}
    <2>1. next.to = next.now /\ next.now \in 0..EndOfTime /\ next.now <= clock
      BY <1>1, <1>3, <1>9, <1>15
    <2>2. done \in Loads /\ Complete(done)
      BY <1>14, <1>16, <1>17, <1>20, <2>1, AskedAll
    <2>3. done.at = "done"
      BY <1>14 DEF Loads
    <2> HIDE DEF done
    <2>4. LoadTrue(done)
      BY <2>2, <2>3 DEF LoadTrue
    <2>5. FileTrue'
      <3>1. CASE file' = file
        BY <1>1, <1>5, <3>1 DEF FileTrue
      <3>2. CASE file' = [bars |-> Kept(next), covered |-> next.covered \cup next.fetched]
        <4> HIDE DEF reached, cover, capped, next, page, more
        <4>1. next \in Loads /\ Fetched(next) /\ clock \in Int /\ next.now <= clock
          BY <1>1, <1>14, <1>16, <2>1
        <4>2. /\ Known(Kept(next), next.covered \cup next.fetched, clock)
              /\ \A k \in Kept(next) : ClosesOn(k) < clock
          BY <4>1, WrittenTrue, Zenon
        <4> QED
          BY <1>5, <3>2, <4>2 DEF FileTrue
      <3> QED
        BY <1>20, <3>1, <3>2
    <2> QED
      BY <1>5, <1>20, <2>4, <2>5, OneLoader
  <1> QED
    BY <1>4, <1>18, <1>19, <1>20

\* A load that fails leaves the file as it is.
LEMMA FailStep ==
  ASSUME KlinesInv, NEW l \in Loaders, FetchFails(l)
  PROVE  KlinesInv'
  <1> DEFINE n == [Idle EXCEPT !.at = "failed"]
  <1>1. n \in Loads /\ n.at = "failed"
    BY IdleTrue DEF Loads, States
  <1>2. load' = [load EXCEPT ![l] = n] /\ clock' = clock
    BY DEF FetchFails
  <1> HIDE DEF n
  <1>3. LoadTrue(n)
    BY <1>1 DEF LoadTrue
  <1>4. FileTrue'
    BY <1>2 DEF FetchFails, KlinesInv, FileTrue
  <1> QED
    BY <1>2, <1>3, <1>4, OneLoader

\* After a crash nothing is loading, and the file is as it was or gone.
LEMMA CrashStep ==
  ASSUME KlinesInv, KlinesCrash
  PROVE  KlinesInv'
  <1>1. clock' = clock /\ clock \in 0..EndOfTime /\ FileTrue /\ load' = [l \in Loaders |-> Idle] /\ file' \in {file, Empty}
    BY DEF KlinesInv, KlinesCrash
  <1>2. FileTrue'
    <2>1. CASE file' = file
      BY <1>1, <2>1 DEF FileTrue
    <2>2. CASE file' = Empty
      BY <1>1, <2>2, NothingKnown DEF FileTrue, Empty
    <2> QED
      BY <1>1, <2>1, <2>2
  <1>3. \A l \in Loaders : LoadTrue(load[l])'
    BY <1>1, IdleTrue DEF LoadTrue
  <1> QED
    BY <1>1, <1>2, <1>3 DEF KlinesInv

\* Time only adds to what has closed.
LEMMA TickStep ==
  ASSUME KlinesInv, KlinesTick
  PROVE  KlinesInv'
  <1>1. clock \in 0..EndOfTime /\ clock' = clock + 1 /\ clock' \in 0..EndOfTime /\ UNCHANGED <<file, load>>
    BY DEF KlinesInv, KlinesTick
  <1>2. FileTrue'
    <2>1. Known(file.bars, file.covered, clock) /\ \A k \in file.bars : ClosesOn(k) < clock
      BY DEF KlinesInv, FileTrue
    <2>2. \A k \in file.bars : ClosesOn(k) \in Int
      BY <2>1, OpensInt DEF Known, Bars
    <2>3. Known(file.bars, file.covered, clock') /\ \A k \in file.bars : ClosesOn(k) < clock'
      BY <1>1, <2>1, <2>2 DEF Known
    <2> QED
      BY <1>1, <2>3 DEF FileTrue, KlinesInv
  <1>3. ASSUME NEW l \in Loaders PROVE LoadTrue(load[l])'
    <2>1. LoadTrue(load[l]) /\ load[l] \in Loads /\ load'[l] = load[l]
      BY <1>1 DEF KlinesInv, LoadTrue
    <2>2. load[l].now \in Nat
      BY <2>1 DEF Loads
    <2> QED
      BY <1>1, <2>1, <2>2 DEF LoadTrue
  <1> QED
    BY <1>1, <1>2, <1>3 DEF KlinesInv

\* Every step of the module keeps the invariant.
LEMMA KlinesSteps == KlinesInv /\ [KlinesNext]_klineVars => KlinesInv'
  <1> SUFFICES ASSUME KlinesInv, [KlinesNext]_klineVars PROVE KlinesInv'
    OBVIOUS
  <1>1. CASE \E l \in Loaders : loadKlines(l)
    BY <1>1, LoadStep
  <1>2. CASE \E l \in Loaders : fetchKlineSpan(l)
    BY <1>2, PageStep
  <1>3. CASE \E l \in Loaders : FetchFails(l)
    BY <1>3, FailStep
  <1>4. CASE KlinesCrash
    BY <1>4, CrashStep
  <1>5. CASE KlinesTick
    BY <1>5, TickStep
  <1>6. CASE UNCHANGED klineVars
    BY <1>6 DEF klineVars, KlinesInv, FileTrue, LoadTrue
  <1> QED
    BY <1>1, <1>2, <1>3, <1>4, <1>5, <1>6 DEF KlinesNext

\* What the invariant says of whole bars is what the property asks.
LEMMA KlinesInvHonest == KlinesInv => KlinesHonest
  <1> SUFFICES ASSUME KlinesInv PROVE KlinesHonest
    OBVIOUS
  <1>1. CoverageIsTrue
    <2>1. clock \in 0..EndOfTime /\ Known(file.bars, file.covered, clock) /\ \A k \in file.bars : ClosesOn(k) < clock
      BY DEF KlinesInv, FileTrue
    <2>2. Traded(clock) \subseteq Bars
      BY <2>1, TradedBars
    <2> QED
      BY <2>1, <2>2 DEF CoverageIsTrue, Known, Bars
  <1>2. AnswerIsComplete
    <2> SUFFICES ASSUME NEW l \in Loaders, load[l].at = "done" PROVE Complete(load[l])
      BY Zenon DEF AnswerIsComplete, Complete
    <2> QED
      BY DEF KlinesInv, LoadTrue
  <1> QED
    BY <1>1, <1>2 DEF KlinesHonest

\* Whatever loads overlap, fail or stop, the file holds every bar it says it
\* covers and none that was still open, and an answer leaves out only bars of a
\* run shorter than a bar or of a span longer than the page limit.
THEOREM BarCacheIsHonest == KlinesSpec => []KlinesHonest
  <1>1. KlinesInit => KlinesInv
    BY KlinesStarts
  <1>2. KlinesInv /\ [KlinesNext]_klineVars => KlinesInv'
    BY KlinesSteps
  <1>3. KlinesInv => KlinesHonest
    BY KlinesInvHonest
  <1> QED
    BY <1>1, <1>2, <1>3, PTL DEF KlinesSpec

------------------------------------------------------------------------------
\* The strategy library.

Statuses == Range(STATUS_ORDER) \cup {"retired"}
Stats == [runs : Nat, enough : BOOLEAN, sign : {"pos", "neg", None}, of : Nat \cup {None}]
Versions == [params : ParamMaps, hash : ParamMaps, status : Statuses, eval : Stats, lab : Stats]
Libraries == [Strategies -> Seq(Versions)]

\* Only a run gives evidence.
Evidence(lib) == \A id \in Strategies : \A i \in DOMAIN lib[id] : lib[id][i].eval.sign = "pos" => lib[id][i].eval.runs >= 1
EarnedIn(lib) == \A id \in Strategies : \A i \in DOMAIN lib[id] : i > 1 /\ PaperUp(lib[id][i]) => lib[id][i].eval.runs >= 1

LInv ==
    /\ library \in Libraries
    /\ Evidence(library) /\ Earned
    /\ runs \subseteq [kind : {"lab", "backtest"}, id : Strategies, version : Nat, nth : Nat] /\ started \in Nat
    /\ \A r \in runs : r.version \in DOMAIN library[r.id]

\* What a step does to the versions that are there, and which it adds.
Grows(lib, new) == \A id \in Strategies :
    /\ Len(lib[id]) <= Len(new[id])
    /\ \A i \in DOMAIN new[id] \ DOMAIN lib[id] : i > 1 => ~PaperUp(new[id][i])
    /\ \A i \in DOMAIN lib[id] : /\ SameContent(lib[id][i], new[id][i]) /\ Moves(lib[id][i], new[id][i])
                                 /\ lib[id][i].status # new[id][i].status => i = Len(lib[id]) /\ i = Len(new[id])

------------------------------------------------------------------------------
LEMMA Ranks ==
  /\ Rank("draft") = 1 /\ Rank("backtest") = 2 /\ Rank("shadow") = 3 /\ Rank("paper") = 4 /\ Rank("live_capped") = 5
  /\ Rank("retired") = 0
<1>1. \A i \in 1..5 : i = 1 \/ i = 2 \/ i = 3 \/ i = 4 \/ i = 5
  OBVIOUS
<1> QED
  BY <1>1 DEF Rank, STATUS_ORDER

LEMMA StatusNames == Range(STATUS_ORDER) = {"draft", "backtest", "shadow", "paper", "live_capped"}
<1>1. DOMAIN STATUS_ORDER = 1..5
  BY DEF STATUS_ORDER
<1>2. \A i \in 1..5 : i = 1 \/ i = 2 \/ i = 3 \/ i = 4 \/ i = 5
  OBVIOUS
<1> QED
  BY <1>1, <1>2 DEF Range, STATUS_ORDER

LEMMA RankType == ASSUME NEW s \in Statuses PROVE Rank(s) \in 0..5
  BY Ranks, StatusNames DEF Statuses

\* A strategy resolves to the newest version at paper or above.
LEMMA ResolvesTo ==
  ASSUME NEW lib \in Libraries, NEW id \in Strategies
  PROVE  LET was == resolve(lib, id) IN
         was # None => /\ was \in DOMAIN lib[id] /\ PaperUp(lib[id][was]) /\ lib[id] # <<>>
                       /\ lib[id][Len(lib[id])].status # "retired"
                       /\ \A j \in DOMAIN lib[id] : PaperUp(lib[id][j]) => j <= was
<1> DEFINE F == {i \in DOMAIN lib[id] : PaperUp(lib[id][i])}
           was == resolve(lib, id)
<1> SUFFICES ASSUME was # None
             PROVE  /\ was \in DOMAIN lib[id] /\ PaperUp(lib[id][was]) /\ lib[id] # <<>>
                    /\ lib[id][Len(lib[id])].status # "retired"
                    /\ \A j \in DOMAIN lib[id] : PaperUp(lib[id][j]) => j <= was
  OBVIOUS
<1>1. /\ lib[id] # <<>> /\ lib[id][Len(lib[id])].status # "retired" /\ F # {}
      /\ was = CHOOSE i \in F : \A j \in F : j <= i
  BY DEF resolve
<1>2. Len(lib[id]) \in Nat /\ F \in SUBSET (0..Len(lib[id]))
  BY DEF Libraries
<1>3. \E i \in F : \A j \in F : j <= i
  BY <1>1, <1>2, GreatestOf
<1>4. was \in F /\ \A j \in F : j <= was
  BY <1>1, <1>3
<1> QED
  BY <1>1, <1>4

\* A version at paper or above stays there or is retired.
LEMMA StaysUp ==
  ASSUME NEW v \in Versions, NEW u \in Versions, Moves(v, u), PaperUp(v)
  PROVE  PaperUp(u) \/ (u.status = "retired" /\ v.status # u.status)
<1>1. Rank(v.status) \in 0..5 /\ Rank(u.status) \in 0..5
  BY RankType DEF Versions
<1> QED
  BY <1>1, Ranks DEF Moves, PaperUp

\* So a step that only grows is a step of the library: what judges live trades
\* moves to newer versions only, unless the newest is retired.
LEMMA GrowthIsAStep ==
  ASSUME NEW lib \in Libraries, NEW new \in Libraries, Grows(lib, new)
  PROVE  LibraryStep(lib, new)
<1> SUFFICES ASSUME NEW id \in Strategies, resolve(lib, id) # None
             PROVE  LET was == resolve(lib, id)
                        is == resolve(new, id)
                    IN  IF is = None THEN new[id][Len(new[id])].status = "retired" ELSE is >= was /\ PaperUp(new[id][is])
  BY DEF LibraryStep, Grows
<1> DEFINE was == resolve(lib, id)
           is == resolve(new, id)
<1>1. /\ was \in DOMAIN lib[id] /\ PaperUp(lib[id][was]) /\ lib[id] # <<>>
  BY ResolvesTo
<1>2. /\ lib[id] \in Seq(Versions) /\ new[id] \in Seq(Versions) /\ Len(lib[id]) <= Len(new[id])
      /\ DOMAIN lib[id] \subseteq DOMAIN new[id] /\ new[id] # <<>>
  BY <1>1 DEF Grows, Libraries
<1>3. lib[id][was] \in Versions /\ new[id][was] \in Versions /\ was \in DOMAIN new[id]
  BY <1>1, <1>2
<1>4. PaperUp(new[id][was]) \/ (new[id][was].status = "retired" /\ was = Len(new[id]))
  BY <1>1, <1>3, StaysUp DEF Grows
<1>5. CASE new[id][Len(new[id])].status = "retired"
  <2>1. is = None
    BY <1>5 DEF resolve
  <2> QED
    BY <1>5, <2>1
<1>6. CASE new[id][Len(new[id])].status # "retired"
  <2> DEFINE F == {i \in DOMAIN new[id] : PaperUp(new[id][i])}
  <2>1. was \in F
    BY <1>3, <1>4, <1>6
  <2>2. is = CHOOSE i \in F : \A j \in F : j <= i
    BY <1>2, <1>6, <2>1 DEF resolve
  <2>3. \E i \in F : \A j \in F : j <= i
    <3>1. Len(new[id]) \in Nat /\ F \in SUBSET (0..Len(new[id])) /\ F # {}
      BY <1>2, <2>1
    <3> QED
      BY <3>1, GreatestOf
  <2>4. is \in F /\ was <= is
    BY <2>1, <2>2, <2>3
  <2>5. is \in Nat /\ was \in Nat
    BY <1>2, <2>1, <2>4
  <2> QED
    BY <2>4, <2>5, StrategiesAssumption
<1> QED
  BY <1>5, <1>6

------------------------------------------------------------------------------
\* Promotion, retirement and statistics rewrite one version.
Put(lib, id, n, v) == [lib EXCEPT ![id][n] = v]

LEMMA OneRewritten ==
  ASSUME NEW lib \in Libraries, NEW id \in Strategies, NEW n \in DOMAIN lib[id], NEW v \in Versions,
         NEW new, new = Put(lib, id, n, v)
  PROVE  /\ new \in Libraries
         /\ \A k \in Strategies : DOMAIN new[k] = DOMAIN lib[k] /\ Len(new[k]) = Len(lib[k])
         /\ \A k \in Strategies : \A i \in DOMAIN lib[k] : new[k][i] = IF k = id /\ i = n THEN v ELSE lib[k][i]
<1>1. lib[id] \in Seq(Versions) /\ DOMAIN lib = Strategies
  BY DEF Libraries
<1>2. new = [lib EXCEPT ![id] = [lib[id] EXCEPT ![n] = v]]
  BY <1>1 DEF Put
<1>3. /\ [lib[id] EXCEPT ![n] = v] \in Seq(Versions) /\ Len([lib[id] EXCEPT ![n] = v]) = Len(lib[id])
      /\ DOMAIN [lib[id] EXCEPT ![n] = v] = DOMAIN lib[id]
  BY <1>1
<1>4. new \in Libraries
  BY <1>2, <1>3 DEF Libraries
<1>5. \A k \in Strategies : new[k] = IF k = id THEN [lib[id] EXCEPT ![n] = v] ELSE lib[k]
  BY <1>1, <1>2
<1>6. \A k \in Strategies : DOMAIN new[k] = DOMAIN lib[k] /\ Len(new[k]) = Len(lib[k])
  BY <1>3, <1>5
<1>7. \A k \in Strategies : \A i \in DOMAIN lib[k] : new[k][i] = IF k = id /\ i = n THEN v ELSE lib[k][i]
  BY <1>5
<1> QED
  BY <1>4, <1>6, <1>7

LEMMA SameStays == ASSUME NEW v PROVE SameContent(v, v) /\ Moves(v, v)
  BY DEF SameContent, Moves

\* Such a rewrite keeps what the library promises if it keeps the content,
\* moves the newest by one step at most, and only on evidence.
LEMMA RewriteKeeps ==
  ASSUME NEW lib \in Libraries, Evidence(lib), EarnedIn(lib), NEW id \in Strategies, NEW n \in DOMAIN lib[id], NEW v \in Versions,
         v.params = lib[id][n].params, Moves(lib[id][n], v), v.status # lib[id][n].status => n = Len(lib[id]),
         v.eval.sign = "pos" => v.eval.runs >= 1, n > 1 /\ PaperUp(v) => v.eval.runs >= 1,
         NEW new, new = Put(lib, id, n, v)
  PROVE  new \in Libraries /\ Grows(lib, new) /\ Evidence(new) /\ EarnedIn(new)
<1>1. /\ new \in Libraries
      /\ \A k \in Strategies : DOMAIN new[k] = DOMAIN lib[k] /\ Len(new[k]) = Len(lib[k])
      /\ \A k \in Strategies : \A i \in DOMAIN lib[k] : new[k][i] = IF k = id /\ i = n THEN v ELSE lib[k][i]
  BY OneRewritten
<1>2. \A k \in Strategies : \A i \in DOMAIN lib[k] : SameContent(lib[k][i], new[k][i]) /\ Moves(lib[k][i], new[k][i])
  BY <1>1, SameStays DEF SameContent
<1>3. \A k \in Strategies : Len(lib[k]) <= Len(new[k])
  BY <1>1 DEF Libraries
<1>4. Grows(lib, new)
  BY <1>1, <1>2, <1>3 DEF Grows
<1>5. Evidence(new) /\ EarnedIn(new)
  BY <1>1 DEF Evidence, EarnedIn
<1> QED
  BY <1>1, <1>4, <1>5

\* A version without evidence, below paper.
Added(lib, id, v) == [lib EXCEPT ![id] = Append(lib[id], v)]
Fresh(v) == v \in Versions /\ ~PaperUp(v) /\ v.eval.sign # "pos"

LEMMA AppendKeeps ==
  ASSUME NEW lib \in Libraries, Evidence(lib), EarnedIn(lib), NEW id \in Strategies, NEW v, Fresh(v),
         NEW new, new = Added(lib, id, v)
  PROVE  /\ new \in Libraries /\ Grows(lib, new) /\ Evidence(new) /\ EarnedIn(new)
         /\ \A k \in Strategies : \A i \in DOMAIN lib[k] : i \in DOMAIN new[k] /\ new[k][i] = lib[k][i]
<1>1. lib[id] \in Seq(Versions) /\ DOMAIN lib = Strategies
  BY DEF Libraries
<1> DEFINE s == Append(lib[id], v)
<1>2. /\ s \in Seq(Versions) /\ Len(s) = Len(lib[id]) + 1 /\ DOMAIN s = DOMAIN lib[id] \cup {Len(lib[id]) + 1}
      /\ \A i \in DOMAIN lib[id] : s[i] = lib[id][i]
      /\ s[Len(lib[id]) + 1] = v
  BY <1>1 DEF Fresh
<1>3. \A k \in Strategies : new[k] = IF k = id THEN s ELSE lib[k]
  BY <1>1 DEF Added
<1>4. new \in Libraries
  BY <1>2 DEF Libraries, Added
<1>5. \A k \in Strategies : \A i \in DOMAIN lib[k] : i \in DOMAIN new[k] /\ new[k][i] = lib[k][i]
  BY <1>2, <1>3
<1>6. \A k \in Strategies : \A i \in DOMAIN new[k] \ DOMAIN lib[k] : new[k][i] = v
  BY <1>2, <1>3
<1>7. \A k \in Strategies : Len(lib[k]) <= Len(new[k])
  <2>1. \A k \in Strategies : Len(lib[k]) \in Nat
    BY DEF Libraries
  <2>2. new[id] = s /\ Len(s) = Len(lib[id]) + 1
    BY <1>2, <1>3
  <2>3. Len(lib[id]) <= Len(new[id])
    BY <2>1, <2>2
  <2>4. ASSUME NEW k \in Strategies, k # id PROVE Len(lib[k]) <= Len(new[k])
    <3>1. new[k] = lib[k] /\ Len(lib[k]) \in Nat
      BY <1>3, <2>1, <2>4
    <3> QED
      BY <3>1
  <2> QED
    BY <2>3, <2>4
<1>8. Grows(lib, new)
  BY <1>5, <1>6, <1>7, SameStays DEF Grows, Fresh
<1>9. Evidence(new) /\ EarnedIn(new)
  BY <1>5, <1>6 DEF Evidence, EarnedIn, Fresh
<1> QED
  BY <1>4, <1>5, <1>8, <1>9

------------------------------------------------------------------------------
LEMMA NoStatsType == NoStats \in Stats /\ NoStats.sign # "pos"
  BY StrategiesAssumption DEF NoStats, Stats

LEMMA MapType == ASSUME NEW f, NEW K, K \subseteq Params, f \in [K -> Values] PROVE f \in ParamMaps
  BY DEF ParamMaps

\* A draft has the parameters of the newest version, with the patch's values.
DraftOf(h, patch) == [k \in DOMAIN h.params |-> IF k \in DOMAIN patch THEN patch[k] ELSE h.params[k]]
Draft(p, s) == [params |-> p, hash |-> p, status |-> s, eval |-> NoStats, lab |-> NoStats]

LEMMA DraftType == ASSUME NEW h \in Versions, NEW patch \in ParamMaps PROVE DraftOf(h, patch) \in ParamMaps
<1>1. h.params \in ParamMaps
  BY DEF Versions
<1>2. PICK K \in SUBSET Params : h.params \in [K -> Values]
  BY <1>1 DEF ParamMaps
<1>3. PICK L \in SUBSET Params : patch \in [L -> Values]
  BY DEF ParamMaps
<1>4. DraftOf(h, patch) \in [K -> Values]
  BY <1>2, <1>3 DEF DraftOf
<1> QED
  BY <1>4, MapType

LEMMA DraftIsFresh == ASSUME NEW p \in ParamMaps, NEW s \in {"draft", "backtest"} PROVE Fresh(Draft(p, s))
<1>1. Draft(p, s) \in Versions
  BY NoStatsType, StatusNames DEF Draft, Versions, Statuses
<1>2. Draft(p, s).status = s /\ Draft(p, s).eval = NoStats
  BY DEF Draft
<1> QED
  BY <1>1, <1>2, Ranks, NoStatsType DEF Fresh, PaperUp

\* Drafted is an append, or nothing.
LEMMA DraftedIs ==
  ASSUME NEW lib, NEW id, NEW patch
  PROVE  \/ Drafted(lib, id, patch) = lib
         \/ Drafted(lib, id, patch) = Added(lib, id, Draft(DraftOf(lib[id][Len(lib[id])], patch), "draft"))
  BY DEF Added, Drafted, DraftOf, Draft

LEMMA HeadType ==
  ASSUME NEW lib \in Libraries, NEW id \in Strategies, lib[id] # <<>>
  PROVE  lib[id] \in Seq(Versions) /\ Len(lib[id]) \in DOMAIN lib[id] /\ lib[id][Len(lib[id])] \in Versions
  BY DEF Libraries

\* What a good library becomes in one step.
Becomes(lib, new) == new \in Libraries /\ Grows(lib, new) /\ Evidence(new) /\ EarnedIn(new)

LEMMA SameBecomes == ASSUME NEW lib \in Libraries, Evidence(lib), EarnedIn(lib) PROVE Becomes(lib, lib)
<1>1. \A k \in Strategies : Len(lib[k]) <= Len(lib[k])
  BY DEF Libraries
<1> QED
  BY <1>1, SameStays DEF Becomes, Grows

LEMMA CreateKeeps ==
  ASSUME LInv, NEW id \in Strategies, createVersion(id)
  PROVE  Becomes(library, library')
<1>1. library \in Libraries /\ Evidence(library) /\ EarnedIn(library) /\ library[id] # <<>>
  BY DEF LInv, Earned, EarnedIn, createVersion, Open
<1>2. PICK k \in Params, x \in Values : library' = Drafted(library, id, [j \in {k} |-> x])
  BY DEF createVersion
<1> DEFINE patch == [j \in {k} |-> x]
           d == Draft(DraftOf(head(id), patch), "draft")
<1>3. patch \in ParamMaps
  <2>1. patch \in [{k} -> Values] /\ {k} \subseteq Params
    OBVIOUS
  <2> QED
    BY <2>1, MapType
<1>4. Fresh(d)
  <2>1. head(id) \in Versions
    BY <1>1, HeadType DEF head
  <2>2. DraftOf(head(id), patch) \in ParamMaps
    BY <1>3, <2>1, DraftType
  <2> QED
    BY <2>2, DraftIsFresh
<1>5. library' = library \/ library' = Added(library, id, d)
  BY <1>2, DraftedIs DEF head
<1> QED
  BY <1>1, <1>4, <1>5, AppendKeeps, SameBecomes DEF Becomes

LEMMA WrittenIs == ASSUME NEW id, NEW v PROVE Written(id, v) = Put(library, id, Len(library[id]), v)
  BY DEF Written, Put

LEMMA PromoteKeeps ==
  ASSUME LInv, NEW id \in Strategies, NEW to \in Range(STATUS_ORDER), NEW confirm \in BOOLEAN, promote(id, to, confirm)
  PROVE  Becomes(library, library')
<1> DEFINE n == Len(library[id])
           h == head(id)
           v == [h EXCEPT !.status = to]
<1>1. /\ library \in Libraries /\ Evidence(library) /\ EarnedIn(library) /\ library[id] # <<>>
      /\ library' = Put(library, id, n, v) /\ promoteGate(h, to, confirm)
  BY WrittenIs DEF LInv, Earned, EarnedIn, promote, Open
<1>2. n \in DOMAIN library[id] /\ h \in Versions /\ h = library[id][n]
  BY <1>1, HeadType DEF head
<1>3. v \in Versions /\ v.params = h.params /\ v.status = to /\ v.eval = h.eval
  BY <1>2 DEF Versions, Statuses
<1>4. Moves(h, v)
  BY <1>1, <1>3 DEF Moves, promoteGate
<1>5. h.eval.sign = "pos" => h.eval.runs >= 1
  BY <1>1, <1>2 DEF Evidence
<1>6. n > 1 /\ PaperUp(v) => h.eval.runs >= 1
  <2>1. CASE to = "paper"
    BY <1>1, <1>5, <2>1 DEF promoteGate
  <2>2. CASE to = "live_capped"
    <3>1. Rank(h.status) \in 0..5 /\ Rank(h.status) + 1 = 5
      BY <1>1, <1>2, <2>2, Ranks, RankType DEF promoteGate, Versions
    <3>2. PaperUp(h)
      BY <3>1, Ranks DEF PaperUp
    <3> QED
      BY <1>1, <1>2, <3>2 DEF EarnedIn
  <2>3. CASE to \in {"draft", "backtest", "shadow"}
    BY <1>3, <2>3, Ranks DEF PaperUp
  <2> QED
    BY <2>1, <2>2, <2>3, StatusNames
<1> QED
  BY <1>1, <1>2, <1>3, <1>4, <1>5, <1>6, RewriteKeeps DEF Becomes

LEMMA RetireKeeps ==
  ASSUME LInv, NEW id \in Strategies, retire(id)
  PROVE  Becomes(library, library')
<1> DEFINE n == Len(library[id])
           h == head(id)
           v == [h EXCEPT !.status = "retired"]
<1>1. /\ library \in Libraries /\ Evidence(library) /\ EarnedIn(library) /\ library[id] # <<>>
      /\ library' = Put(library, id, n, v) /\ h.status # "retired"
  BY WrittenIs DEF LInv, Earned, EarnedIn, retire, Open
<1>2. n \in DOMAIN library[id] /\ h \in Versions /\ h = library[id][n]
  BY <1>1, HeadType DEF head
<1>3. v \in Versions /\ v.params = h.params /\ v.status = "retired" /\ v.eval = h.eval
  BY <1>2 DEF Versions, Statuses
<1>4. Moves(h, v) /\ ~PaperUp(v)
  BY <1>1, <1>3, Ranks DEF Moves, PaperUp
<1>5. h.eval.sign = "pos" => h.eval.runs >= 1
  BY <1>1, <1>2 DEF Evidence
<1> QED
  BY <1>1, <1>2, <1>3, <1>4, <1>5, RewriteKeeps DEF Becomes

LEMMA LabKeeps ==
  ASSUME LInv, NEW r \in runs, NEW enough \in BOOLEAN, NEW sign \in {"pos", "neg"}, updateLabStats(r, enough, sign)
  PROVE  Becomes(library, library')
<1> DEFINE id == r.id
           n == r.version
           h == library[id][n]
           stats == [runs |-> 1, enough |-> enough, sign |-> sign, of |-> n]
           v == [h EXCEPT !.lab = stats]
<1>1. /\ library \in Libraries /\ Evidence(library) /\ EarnedIn(library)
      /\ id \in Strategies /\ n \in DOMAIN library[id] /\ n \in Nat
  BY DEF LInv, Earned, EarnedIn
<1>2. library' = Put(library, id, n, v)
  <2>1. library' = [library EXCEPT ![r.id][r.version].lab = stats]
    BY DEF updateLabStats
  <2> QED
    BY <2>1 DEF Put
<1>3. h \in Versions
  BY <1>1 DEF Libraries
<1>4. stats \in Stats
  BY <1>1 DEF Stats
<1>5. v \in Versions /\ v.params = h.params /\ v.status = h.status /\ v.eval = h.eval
  BY <1>3, <1>4 DEF Versions
<1>6. Moves(h, v) /\ (h.eval.sign = "pos" => h.eval.runs >= 1) /\ (n > 1 /\ PaperUp(v) => h.eval.runs >= 1)
  BY <1>1, <1>5 DEF Moves, Evidence, EarnedIn, PaperUp
<1> QED
  BY <1>1, <1>2, <1>5, <1>6, RewriteKeeps DEF Becomes

LEMMA EvalKeeps ==
  ASSUME LInv, NEW r \in runs, NEW enough \in BOOLEAN, NEW sign \in {"pos", "neg"}, updateEvalStats(r, enough, sign)
  PROVE  Becomes(library, library')
<1> DEFINE id == r.id
           n == Len(library[id])
           h == head(id)
           stats == [runs |-> h.eval.runs + 1, enough |-> enough, sign |-> sign, of |-> r.version]
           v == [h EXCEPT !.eval = stats]
<1>1. /\ library \in Libraries /\ Evidence(library) /\ EarnedIn(library)
      /\ id \in Strategies /\ r.version \in DOMAIN library[id] /\ r.version \in Nat
  BY DEF LInv, Earned, EarnedIn
<1>2. library' = Put(library, id, n, v)
  BY WrittenIs DEF updateEvalStats
<1>3. library[id] # <<>>
  BY <1>1 DEF Libraries
<1>4. n \in DOMAIN library[id] /\ h \in Versions /\ h = library[id][n]
  BY <1>1, <1>3, HeadType DEF head
<1>5. h.eval.runs \in Nat
  BY <1>4 DEF Versions, Stats
<1>6. stats \in Stats /\ stats.runs >= 1
  BY <1>1, <1>5 DEF Stats
<1>7. v \in Versions /\ v.params = h.params /\ v.status = h.status /\ v.eval = stats
  BY <1>4, <1>6 DEF Versions
<1>8. Moves(h, v)
  BY <1>7 DEF Moves
<1> QED
  BY <1>1, <1>2, <1>4, <1>6, <1>7, <1>8, RewriteKeeps DEF Becomes

\* What the start fills in keeps every parameter there was.
LEMMA FilledKeeps ==
  ASSUME NEW id \in Strategies, NEW v \in Versions
  PROVE  LET u == Filled(id, v) IN
         u \in Versions /\ SameContent(v, u) /\ u.status = v.status /\ u.eval = v.eval
<1> DEFINE b == BuiltIn[id].params
           p == v.params
           q == [k \in DOMAIN b \cup DOMAIN p |-> IF k \in DOMAIN p THEN p[k] ELSE b[k]]
           u == Filled(id, v)
<1>1. u = [v EXCEPT !.params = q]
  BY DEF Filled
<1>2. PICK K \in SUBSET Params : b \in [K -> Values]
  <2>1. BuiltIn[id] \in [params : ParamMaps, status : Range(STATUS_ORDER)]
    BY StrategiesAssumption
  <2>2. b \in ParamMaps
    BY <2>1
  <2> QED
    BY <2>2 DEF ParamMaps
<1>3. PICK L \in SUBSET Params : p \in [L -> Values]
  BY DEF Versions, ParamMaps
<1>5. q \in [K \cup L -> Values] /\ \A k \in L : q[k] = p[k]
  BY <1>2, <1>3
<1>6. q \in ParamMaps
  BY <1>5, MapType
<1>7. u \in Versions /\ u.params = q /\ u.status = v.status /\ u.eval = v.eval
  BY <1>1, <1>6 DEF Versions
<1> QED
  BY <1>3, <1>5, <1>7 DEF SameContent

LEMMA FirstType == ASSUME NEW id \in Strategies PROVE First(id) \in Versions /\ First(id).eval.sign # "pos"
<1>1. First(id) \in Versions
  BY StrategiesAssumption, NoStatsType DEF First, Versions, Statuses
<1> QED
  BY <1>1, NoStatsType DEF First

LEMMA SeedKeeps ==
  ASSUME NEW lib \in Libraries, Evidence(lib), EarnedIn(lib)
  PROVE  LET mid == seed(lib) IN
         /\ Becomes(lib, mid) /\ \A id \in Strategies : mid[id] # <<>>
         /\ \A id \in Strategies : \A i \in DOMAIN lib[id] : i \in DOMAIN mid[id] /\ mid[id][i].status = lib[id][i].status
<1> DEFINE mid == seed(lib)
<1>1. \A id \in Strategies : mid[id] = IF lib[id] = <<>> THEN <<First(id)>> ELSE [lib[id] EXCEPT ![1] = Filled(id, lib[id][1])]
  BY DEF seed
<1>2. ASSUME NEW id \in Strategies
      PROVE  /\ mid[id] \in Seq(Versions) /\ mid[id] # <<>> /\ Len(lib[id]) <= Len(mid[id])
             /\ \A i \in DOMAIN mid[id] \ DOMAIN lib[id] : i = 1 /\ mid[id][i].eval.sign # "pos"
             /\ \A i \in DOMAIN lib[id] : /\ i \in DOMAIN mid[id] /\ SameContent(lib[id][i], mid[id][i])
                                          /\ mid[id][i].status = lib[id][i].status /\ mid[id][i].eval = lib[id][i].eval
  <2>1. CASE lib[id] = <<>>
    <3>1. mid[id] = <<First(id)>>
      BY <1>1, <2>1
    <3>2. mid[id] \in Seq(Versions) /\ Len(mid[id]) = 1 /\ DOMAIN mid[id] = {1} /\ mid[id][1] = First(id)
      BY <3>1, FirstType
    <3>3. Len(lib[id]) = 0 /\ DOMAIN lib[id] = {}
      BY <2>1
    <3> QED
      BY <3>2, <3>3, FirstType
  <2>2. CASE lib[id] # <<>>
    <3> DEFINE s == lib[id]
               u == Filled(id, s[1])
    <3>1. s \in Seq(Versions) /\ 1 \in DOMAIN s /\ s[1] \in Versions
      BY <2>2 DEF Libraries
    <3>2. u \in Versions /\ SameContent(s[1], u) /\ u.status = s[1].status /\ u.eval = s[1].eval
      BY <3>1, FilledKeeps
    <3>3. mid[id] = [s EXCEPT ![1] = u]
      BY <1>1, <2>2
    <3>4. mid[id] \in Seq(Versions) /\ Len(mid[id]) = Len(s) /\ DOMAIN mid[id] = DOMAIN s
          /\ \A i \in DOMAIN s : mid[id][i] = IF i = 1 THEN u ELSE s[i]
      BY <3>1, <3>2, <3>3
    <3>5. mid[id] # <<>> /\ Len(s) <= Len(mid[id])
      BY <3>1, <3>4
    <3> QED
      BY <3>2, <3>4, <3>5, SameStays
  <2> QED
    BY <2>1, <2>2
<1>3. mid \in Libraries
  BY <1>2 DEF Libraries, seed
<1>4. Grows(lib, mid)
  BY <1>2 DEF Grows, Moves
<1>5. Evidence(mid)
  BY <1>2 DEF Evidence
<1>6. EarnedIn(mid)
  BY <1>2 DEF EarnedIn, PaperUp
<1> QED
  BY <1>2, <1>3, <1>4, <1>5, <1>6 DEF Becomes

\* The variant is added once, at once at backtest.
LEMMA EnsureIs ==
  ASSUME NEW mid \in Libraries, \A id \in Strategies : mid[id] # <<>>
  PROVE  LET new == ensureBreakoutRetestV2(mid) IN
         new = mid \/ \E d : Fresh(d) /\ new = Added(mid, Relaxed.id, d)
<1> DEFINE id == Relaxed.id
           new == ensureBreakoutRetestV2(mid)
           n == Len(mid[id])
           p == DraftOf(mid[id][n], Relaxed.params)
           mad == Added(mid, id, Draft(p, "draft"))
<1>1. id \in Strategies /\ Relaxed.params \in ParamMaps
  BY StrategiesAssumption
<1>2. mid[id] \in Seq(Versions) /\ mid[id][n] \in Versions /\ DOMAIN mid = Strategies /\ n \in Nat
  BY <1>1, HeadType DEF Libraries
<1>3. p \in ParamMaps
  BY <1>1, <1>2, DraftType
<1>4. new = mid \/ new = [mad EXCEPT ![id][Len(mad[id])].status = "backtest"]
  <2> DEFINE drafted == Drafted(mid, id, Relaxed.params)
  <2>1. drafted = mid \/ drafted = mad
    BY DraftedIs
  <2>2. new = mid \/ (drafted # mid /\ new = [drafted EXCEPT ![id][Len(drafted[id])].status = "backtest"])
    BY DEF ensureBreakoutRetestV2
  <2> QED
    BY <2>1, <2>2
<1>5. mad[id] = Append(mid[id], Draft(p, "draft")) /\ DOMAIN mad = Strategies /\ Len(mad[id]) = n + 1
  BY <1>1, <1>2, <1>3, DraftIsFresh DEF Fresh, Added
<1>6. [Append(mid[id], Draft(p, "draft")) EXCEPT ![n + 1].status = "backtest"] = Append(mid[id], Draft(p, "backtest"))
  <2>1. Draft(p, "draft") \in Versions /\ Draft(p, "backtest") \in Versions
    BY <1>3, DraftIsFresh DEF Fresh
  <2>2. [Draft(p, "draft") EXCEPT !.status = "backtest"] = Draft(p, "backtest")
    BY <2>1 DEF Draft
  <2> DEFINE s == [Append(mid[id], Draft(p, "draft")) EXCEPT ![n + 1] = Draft(p, "backtest")]
             t == Append(mid[id], Draft(p, "backtest"))
  <2>3. s = t
    <3>1. s \in Seq(Versions) /\ t \in Seq(Versions) /\ Len(s) = n + 1 /\ Len(t) = n + 1
      BY <1>2, <2>1
    <3>2. \A i \in 1..n : s[i] = mid[id][i] /\ t[i] = mid[id][i]
      <4>1. \A i \in 1..n : Append(mid[id], Draft(p, "draft"))[i] = mid[id][i]
        BY <1>2, <2>1
      <4>2. \A i \in 1..n : i # n + 1 /\ i \in DOMAIN Append(mid[id], Draft(p, "draft"))
        BY <1>2, <2>1
      <4>3. \A i \in 1..n : s[i] = mid[id][i]
        BY <4>1, <4>2
      <4>4. \A i \in 1..n : t[i] = mid[id][i]
        BY <1>2, <2>1
      <4> QED
        BY <4>3, <4>4
    <3>3. s[n + 1] = Draft(p, "backtest") /\ t[n + 1] = Draft(p, "backtest")
      BY <1>2, <2>1
    <3>4. \A i \in 1..(n + 1) : i \in 1..n \/ i = n + 1
      BY <1>2
    <3> QED
      BY <3>1, <3>2, <3>3, <3>4
  <2>4. Append(mid[id], Draft(p, "draft"))[n + 1] = Draft(p, "draft")
    BY <1>2, <2>1
  <2> QED
    BY <2>2, <2>3, <2>4
<1>7. [mad EXCEPT ![id][n + 1].status = "backtest"] = Added(mid, id, Draft(p, "backtest"))
  BY <1>1, <1>2, <1>5, <1>6 DEF Added
<1> QED
  BY <1>3, <1>4, <1>5, <1>7, DraftIsFresh

LEMMA BootKeeps == ASSUME LInv, Boot PROVE Becomes(library, library')
<1> DEFINE mid == seed(library)
           new == ensureBreakoutRetestV2(mid)
<1>1. library \in Libraries /\ Evidence(library) /\ EarnedIn(library) /\ library' = new
  BY DEF LInv, Earned, EarnedIn, Boot
<1>2. /\ Becomes(library, mid) /\ \A id \in Strategies : mid[id] # <<>>
      /\ \A id \in Strategies : \A i \in DOMAIN library[id] : i \in DOMAIN mid[id] /\ mid[id][i].status = library[id][i].status
  BY <1>1, SeedKeeps
<1>3. CASE new = mid
  BY <1>1, <1>2, <1>3
<1>4. CASE \E d : Fresh(d) /\ new = Added(mid, Relaxed.id, d)
  <2>1. PICK d : Fresh(d) /\ new = Added(mid, Relaxed.id, d)
    BY <1>4
  <2>2. /\ new \in Libraries /\ Grows(mid, new) /\ Evidence(new) /\ EarnedIn(new)
        /\ \A k \in Strategies : \A i \in DOMAIN mid[k] : i \in DOMAIN new[k] /\ new[k][i] = mid[k][i]
    <3>1. mid \in Libraries /\ Evidence(mid) /\ EarnedIn(mid) /\ Relaxed.id \in Strategies
      BY <1>2, StrategiesAssumption DEF Becomes
    <3> HIDE DEF mid, new
    <3>2. Fresh(d) /\ new = Added(mid, Relaxed.id, d)
      BY <2>1
    <3>3. /\ new \in Libraries /\ Grows(mid, new) /\ Evidence(new) /\ EarnedIn(new)
          /\ \A k \in Strategies : \A i \in DOMAIN mid[k] : i \in DOMAIN new[k] /\ new[k][i] = mid[k][i]
      BY <3>1, <3>2, AppendKeeps
    <3> QED
      BY <3>3
  <2>3. Grows(library, new)
    <3>1. \A k \in Strategies : Len(library[k]) <= Len(new[k])
      BY <1>1, <1>2, <2>2 DEF Libraries, Grows, Becomes
    <3>2. ASSUME NEW k \in Strategies, NEW i \in DOMAIN new[k] \ DOMAIN library[k], i > 1 PROVE ~PaperUp(new[k][i])
      BY <1>2, <2>2, <3>2 DEF Grows, Becomes
    <3>3. ASSUME NEW k \in Strategies, NEW i \in DOMAIN library[k]
          PROVE  /\ SameContent(library[k][i], new[k][i]) /\ Moves(library[k][i], new[k][i])
                 /\ library[k][i].status = new[k][i].status
      BY <1>2, <2>2, <3>3 DEF Grows, Becomes
    <3> QED
      BY <3>1, <3>2, <3>3 DEF Grows
  <2> QED
    BY <1>1, <2>2, <2>3 DEF Becomes
<1> QED
  BY <1>2, <1>3, <1>4, EnsureIs DEF Becomes

------------------------------------------------------------------------------
LEMMA LInvInit == LibraryInit => LInv
<1> SUFFICES ASSUME LibraryInit PROVE LInv
  OBVIOUS
<1>1. \A id \in Strategies : OldFirst(id) \in Versions /\ OldFirst(id).eval.sign # "pos"
  <2> SUFFICES ASSUME NEW id \in Strategies PROVE OldFirst(id) \in Versions /\ OldFirst(id).eval.sign # "pos"
    OBVIOUS
  <2> DEFINE f == First(id)
             q == [k \in DOMAIN f.params \ {NewParam} |-> f.params[k]]
  <2>1. PICK K \in SUBSET Params : f.params \in [K -> Values]
    BY FirstType DEF Versions, ParamMaps
  <2>2. q \in [K \ {NewParam} -> Values]
    BY <2>1
  <2>3. q \in ParamMaps
    BY <2>2, MapType
  <2>4. f.hash = f.params /\ f \in Versions /\ f.eval.sign # "pos"
    BY FirstType DEF First
  <2>5. OldFirst(id) = [f EXCEPT !.params = q, !.hash = q]
    BY <2>4 DEF OldFirst
  <2> QED
    BY <2>3, <2>4, <2>5 DEF Versions
<1>2. \A id \in Strategies : library[id] = <<>> \/ library[id] = <<OldFirst(id)>>
  BY DEF LibraryInit
<1>3. \A id \in Strategies : library[id] \in Seq(Versions) /\ \A i \in DOMAIN library[id] : i = 1 /\ library[id][i].eval.sign # "pos"
  <2> SUFFICES ASSUME NEW id \in Strategies
               PROVE  library[id] \in Seq(Versions) /\ \A i \in DOMAIN library[id] : i = 1 /\ library[id][i].eval.sign # "pos"
    OBVIOUS
  <2>1. CASE library[id] = <<>>
    BY <2>1
  <2>2. CASE library[id] = <<OldFirst(id)>>
    <3>1. library[id] \in Seq(Versions) /\ DOMAIN library[id] = {1} /\ library[id][1] = OldFirst(id)
      BY <1>1, <2>2
    <3> QED
      BY <1>1, <3>1
  <2> QED
    BY <1>2, <2>1, <2>2
<1>4. library \in Libraries
  BY <1>3 DEF Libraries, LibraryInit
<1> QED
  BY <1>3, <1>4 DEF LInv, Evidence, Earned, LibraryInit

LEMMA StepBecomes == LInv /\ [LibraryNext]_libraryVars => Becomes(library, library')
<1> SUFFICES ASSUME LInv, [LibraryNext]_libraryVars PROVE Becomes(library, library')
  OBVIOUS
<1>1. CASE library' = library
  BY <1>1, SameBecomes DEF LInv, Earned, EarnedIn
<1>2. CASE LibraryNext
  BY <1>1, <1>2, BootKeeps, CreateKeeps, RetireKeeps, PromoteKeeps, LabKeeps, EvalKeeps DEF LibraryNext, RunStarts
<1> QED
  BY <1>1, <1>2 DEF libraryVars

LEMMA RunsKeep == LInv /\ [LibraryNext]_libraryVars => LInv'
<1> SUFFICES ASSUME LInv, [LibraryNext]_libraryVars PROVE LInv'
  OBVIOUS
<1>1. library' \in Libraries /\ Evidence(library)' /\ Earned'
      /\ \A id \in Strategies : DOMAIN library[id] \subseteq DOMAIN library'[id]
  <2>1. Becomes(library, library')
    BY StepBecomes
  <2>2. \A id \in Strategies : library[id] \in Seq(Versions) /\ library'[id] \in Seq(Versions) /\ Len(library[id]) <= Len(library'[id])
    BY <2>1 DEF Becomes, Grows, Libraries, LInv
  <2> QED
    BY <2>1, <2>2 DEF Becomes, Earned, EarnedIn, Evidence
<1>2. CASE runs' \subseteq runs /\ started' = started
  BY <1>1, <1>2 DEF LInv
<1>3. ASSUME NEW id \in Strategies, NEW kind \in {"lab", "backtest"}, RunStarts(id, kind) PROVE LInv'
  <2>1. Len(library[id]) \in DOMAIN library[id] /\ Len(library[id]) \in Nat
    BY <1>3 DEF LInv, Libraries, RunStarts, Open
  <2> QED
    BY <1>1, <1>3, <2>1 DEF LInv, RunStarts
<1> QED
  BY <1>2, <1>3 DEF LibraryNext, libraryVars, Boot, createVersion, retire, promote, updateLabStats, updateEvalStats

\* strategies.ts StrategyLibrary: whatever people promote and retire, whichever runs end and
\* whenever the process starts again, versions keep what they say, move by one step, and the
\* version a live judgment uses is only replaced by a newer one, until the newest is retired.
THEOREM LiveVersionsAreEarned == LibrarySpec => LiveIsEarned
<1>1. LibraryInit => LInv
  BY LInvInit
<1>2. LInv /\ [LibraryNext]_libraryVars => LInv'
  BY RunsKeep
<1>3. LInv /\ LInv' /\ [LibraryNext]_libraryVars => [LibraryStep(library, library') /\ Earned']_library
  <2> SUFFICES ASSUME LInv, LInv', [LibraryNext]_libraryVars PROVE LibraryStep(library, library') /\ Earned'
    OBVIOUS
  <2>1. LibraryStep(library, library')
    BY StepBecomes, GrowthIsAStep DEF LInv, Becomes
  <2> QED
    BY <2>1 DEF LInv
<1> QED
  BY <1>1, <1>2, <1>3, PTL DEF LibrarySpec, LiveIsEarned

-----------------------------------------------------------------------------
(***************************************************************************)
(* Judgments: whatever the models answer, what counts of it is grounded.   *)
(***************************************************************************)
\* The marks of the registry are those of the moment the episode began.
Marked(e) == \A i \in DOMAIN e.evidence : e.evidence[i].stale = Stale(e.evidence[i], e.at)

\* While a model thinks: what was tried, and the first action that was illegal.
Attempts(e) ==
    /\ ~e.opened
    /\ e.phase \in {"read", "think"} => e.tried = <<>> /\ e.illegal = Null
    /\ e.phase = "again" =>
         \/ e.tried = <<>> /\ e.illegal = Null
         \/ \E a \in Actions : e.tried = <<a>> /\ e.illegal = a /\ a # Null /\ a \notin allowedActions(e.node)

Settled(e) ==
    /\ Legal(e) \/ (e.judgment = FailClosed(e.status) /\ ~e.opened)
    /\ FirstIllegal(e) /\ OpenedOnFresh(e)

GInv ==
    /\ DOMAIN episode = DOMAIN NoEpisode
    /\ episode.phase \in {"none", "read", "think", "again", "done"}
    /\ Thinking => Marked(episode) /\ Attempts(episode)
    /\ episode.phase = "done" => Settled(episode)
    /\ brief # Null => BriefHolds(brief)

LEMMA GInvSuffices == GInv => JudgmentsGrounded
  BY DEF GInv, JudgmentsGrounded, Settled

------------------------------------------------------------------------------
\* An answer without faults is a legal judgment, where its action is allowed.
LEMMA FaultlessIsLegal ==
  ASSUME NEW raw \in Replies, NEW e, Faults(raw, DOMAIN e.evidence, e.offered) = {},
         raw.action \in allowedActions(e.node), e.judgment = validateJudgment(raw)
  PROVE  Legal(e)
<1> DEFINE refs == DOMAIN e.evidence
           p == raw.proposal
           j == e.judgment
<1>1. raw # Malformed
  BY DEF Faults
<1>2. /\ raw.direction \in Sides \cup {Null}
      /\ \A r \in raw.reasons : r.cites \cap refs # {}
      /\ raw.evidence_refs # {} /\ raw.evidence_refs \subseteq refs
      /\ raw.action = "PROPOSE" => e.offered = {} \/ raw.strategy_id \in e.offered
      /\ raw.action = "PROPOSE" => Usable(p) /\ Malformed \notin Prices(p) /\ p.stop_price # Null
      /\ raw.action = "PROPOSE" /\ raw.direction \in Sides => p.direction = raw.direction
  <2>1. \A f \in {"told", "action", "direction", "reasons", "refs", "strategy", "proposal", "prices", "side"} :
          f \notin Faults(raw, refs, e.offered)
    OBVIOUS
  <2>2. raw.direction \in Sides \cup {Null}
    BY <1>1, "direction" \notin Faults(raw, refs, e.offered), <2>1 DEF Faults
  <2>3. \A r \in raw.reasons : r.cites \cap refs # {}
    BY <1>1, "reasons" \notin Faults(raw, refs, e.offered) DEF Faults
  <2>4. raw.evidence_refs # {} /\ raw.evidence_refs \subseteq refs
    BY <1>1, "refs" \notin Faults(raw, refs, e.offered) DEF Faults
  <2>5. raw.action = "PROPOSE" => e.offered = {} \/ raw.strategy_id \in e.offered
    BY <1>1, "strategy" \notin Faults(raw, refs, e.offered) DEF Faults
  <2>6. raw.action = "PROPOSE" => Usable(p)
    BY <1>1, "proposal" \notin Faults(raw, refs, e.offered) DEF Faults, Usable
  <2>7. Usable(p) => Malformed \notin Prices(p) /\ p.stop_price # Null
    BY <1>1, "prices" \notin Faults(raw, refs, e.offered) DEF Faults
  <2>8. raw.action = "PROPOSE" /\ Usable(p) /\ raw.direction \in Sides => p.direction = raw.direction
    BY <1>1, "side" \notin Faults(raw, refs, e.offered) DEF Faults
  <2> QED
    BY <2>2, <2>3, <2>4, <2>5, <2>6, <2>7, <2>8
<1>3. /\ j.action = raw.action /\ j.reasons = raw.reasons /\ j.evidence_refs = raw.evidence_refs
      /\ j.strategy_id = raw.strategy_id
      /\ j.proposal = IF raw.action = "PROPOSE" THEN Proposal(p) ELSE Null
      /\ j.direction = IF raw.direction = Null /\ j.proposal # Null THEN j.proposal.direction ELSE raw.direction
  BY DEF validateJudgment
<1>4. CASE raw.action # "PROPOSE"
  BY <1>2, <1>3, <1>4 DEF Legal
<1>5. CASE raw.action = "PROPOSE"
  <2>1. j.proposal # Null
    BY <1>1, <1>2, <1>3, <1>5, JudgmentsAssumption
  <2>2. j.proposal.direction = p.direction /\ j.proposal.stop_price = p.stop_price /\ p.direction \in Sides
    BY <1>2, <1>3, <1>5 DEF Proposal, Usable
  <2>3. p.stop_price \in Prices(p)
    BY DEF Prices
  <2>4. j.direction = p.direction
    BY <1>2, <1>3, <1>5, <2>1, <2>2, JudgmentsAssumption
  <2> QED
    BY <1>2, <1>3, <1>5, <2>1, <2>2, <2>3, <2>4 DEF Legal
<1> QED
  BY <1>4, <1>5

\* An accepted action is tried last and is not the illegal one; the first illegal one is kept.
LEMMA AttemptRemembered ==
  ASSUME NEW e, Attempts(e), e.phase \in {"think", "again"}, NEW a \in Actions,
         NEW f, f.node = e.node, f.tried = Append(e.tried, a),
         \/ a \in allowedActions(e.node) /\ f.illegal = e.illegal
         \/ f.illegal = IF e.illegal = Null THEN a ELSE e.illegal
  PROVE  FirstIllegal(f)
<1>1. CASE e.tried = <<>> /\ e.illegal = Null
  <2>1. f.tried = <<a>>
    BY <1>1
  <2> QED
    BY <1>1, <2>1 DEF FirstIllegal
<1>2. CASE \E b \in Actions : e.tried = <<b>> /\ e.illegal = b /\ b # Null /\ b \notin allowedActions(e.node)
  <2>1. PICK b \in Actions : e.tried = <<b>> /\ e.illegal = b /\ b # Null /\ b \notin allowedActions(e.node)
    BY <1>2
  <2>2. DOMAIN f.tried = 1..2 /\ f.tried[1] = b
    <3>1. <<b>> \in Seq(Actions) /\ Len(<<b>>) = 1 /\ f.tried = Append(<<b>>, a)
      BY <2>1
    <3> QED
      BY <3>1
  <2>3. f.illegal = b
    BY <2>1
  <2> QED
    BY <2>1, <2>2, <2>3 DEF FirstIllegal
<1> QED
  BY <1>1, <1>2 DEF Attempts

\* A string is an answer, Null the absence of one.
LEMMA NoAnswerIsNull == \A a \in Actions : a # Null
  BY JudgmentsAssumption

\* Answers of the second attempt that are dropped leave the record as it is.
LEMMA NothingTried ==
  ASSUME NEW e, Attempts(e), e.phase \in {"think", "again"}, NEW f, f.node = e.node, f.tried = e.tried,
         f.illegal = e.illegal \/ e.illegal = Null
  PROVE  FirstIllegal(f)
<1>1. CASE e.tried = <<>>
  BY <1>1 DEF FirstIllegal
<1>2. CASE \E b \in Actions : e.tried = <<b>> /\ e.illegal = b /\ b # Null
  BY <1>2 DEF FirstIllegal
<1> QED
  BY <1>1, <1>2 DEF Attempts

\* What the gates let through rests on lines that were fresh when the episode began.
LEMMA GatesKeepFresh ==
  ASSUME NEW e, Legal(e), Marked(e),
         e.opened => e.status = "none" /\ e.judgment.action = "PROPOSE" /\ e.answered - e.as_of <= StaleAfter
                     /\ e.judgment.evidence_refs \cap staleRefs(e.evidence) = {}
  PROVE  OpenedOnFresh(e)
<1> SUFFICES ASSUME e.opened PROVE OpenedOnFresh(e)
  BY DEF OpenedOnFresh
<1>1. e.node = "scan"
  BY DEF Legal, allowedActions
<1>2. ASSUME NEW i \in e.judgment.evidence_refs, e.evidence[i].limit # Null
      PROVE  e.at - e.evidence[i].at <= e.evidence[i].limit
  <2>1. i \in DOMAIN e.evidence /\ ~e.evidence[i].stale
    BY <1>2 DEF Legal, staleRefs
  <2> QED
    BY <1>2, <2>1 DEF Marked, Stale
<1> QED
  BY <1>1, <1>2 DEF OpenedOnFresh

------------------------------------------------------------------------------
\* A market state that is stored meets its contract.
LEMMA StoredStateHolds == ASSUME NEW o, NEW raw PROVE BriefHolds(MarketState(o, raw))
<1> DEFINE refs == DOMAIN o.news
           ms == MarketState(o, raw)
<1>1. CASE SummaryFaults(raw, refs) = {}
  <2>1. raw # Malformed
    BY <1>1 DEF SummaryFaults
  <2>2. \A c \in raw.candidates : c.symbol \in Watch
    BY <1>1, <2>1, "symbol" \notin SummaryFaults(raw, refs) DEF SummaryFaults
  <2>3. \A c \in raw.candidates : c.symbol \in Watch => c.direction \in Sides
    BY <1>1, <2>1, "side" \notin SummaryFaults(raw, refs) DEF SummaryFaults
  <2>4. ms.candidates = raw.candidates /\ ~ms.error
    BY <1>1 DEF MarketState
  <2> QED
    BY <2>2, <2>3, <2>4 DEF BriefHolds
<1>2. CASE SummaryFaults(raw, refs) # {}
  <2>1. ms.candidates = {} /\ ms.news = <<>> /\ ~ms.risk
    BY <1>2 DEF MarketState
  <2> QED
    BY <2>1 DEF BriefHolds
<1> QED
  BY <1>1, <1>2

LEMMA ContextIsMarked == ASSUME NEW lines, NEW now
                         PROVE  \A i \in DOMAIN Registry(lines, now) : Registry(lines, now)[i].stale = Stale(Registry(lines, now)[i], now)
  BY DEF Registry, Stale

------------------------------------------------------------------------------
LEMMA GInvInit == JudgmentsInit => GInv
  BY DEF JudgmentsInit, GInv, Thinking, NoEpisode

LEMMA NoEpisodeFits == NoEpisode.phase = "none"
  BY DEF NoEpisode

\* The jobs begin and end; the context is built.
LEMMA JobsKeep ==
  ASSUME GInv, OfficerStarts \/ (\E raw \in Summaries : OfficerAnswered(raw)) \/ OfficerThrows \/ EpisodeStarts
               \/ ContextIsBuilt \/ EpisodeFails \/ TimePasses
  PROVE  GInv'
<1>1. CASE (\E raw \in Summaries : OfficerAnswered(raw)) \/ OfficerThrows
  <2>1. episode' = episode /\ (brief' = brief \/ \E raw : brief' = MarketState(officer, raw))
    BY <1>1 DEF OfficerAnswered, OfficerThrows
  <2>2. brief' # Null => BriefHolds(brief')
    BY <2>1, StoredStateHolds DEF GInv
  <2> QED
    BY <2>1, <2>2 DEF GInv, Thinking
<1>2. CASE brief' = brief /\ (episode' = NoEpisode \/ episode' = episode)
  BY <1>2, NoEpisodeFits DEF GInv, Thinking
<1>3. CASE EpisodeStarts
  <2>1. PICK status : episode' = [NoEpisode EXCEPT !.phase = "read", !.status = status, !.at = moment]
    BY <1>3 DEF EpisodeStarts
  <2>2. /\ DOMAIN episode' = DOMAIN NoEpisode
        /\ episode'.phase = "read" /\ episode'.evidence = <<>> /\ episode'.tried = <<>> /\ episode'.illegal = Null
        /\ episode'.opened = FALSE /\ brief' = brief
    BY <1>3, <2>1 DEF NoEpisode, EpisodeStarts
  <2> QED
    BY <2>2 DEF GInv, Thinking, Marked, Attempts
<1>4. CASE ContextIsBuilt
  <2>1. PICK lines, as_of, offered, node :
          episode' = [episode EXCEPT !.phase = "think", !.as_of = as_of, !.evidence = Registry(lines, episode.at),
                                     !.offered = offered, !.node = node]
    BY <1>4 DEF ContextIsBuilt, buildContext
  <2>2. /\ DOMAIN episode' = DOMAIN NoEpisode
        /\ episode'.phase = "think" /\ episode'.evidence = Registry(lines, episode.at)
        /\ episode'.tried = episode.tried /\ episode'.illegal = episode.illegal
        /\ episode'.opened = episode.opened /\ episode'.at = episode.at /\ brief' = brief
    BY <1>4, <2>1 DEF NoEpisode, ContextIsBuilt, GInv
  <2>3. Marked(episode')
    BY <2>2, ContextIsMarked DEF Marked
  <2>4. Attempts(episode')
    BY <1>4, <2>2 DEF GInv, Thinking, Attempts, ContextIsBuilt
  <2> QED
    BY <2>2, <2>3, <2>4 DEF GInv, Thinking
<1> QED
  BY <1>1, <1>2, <1>3, <1>4 DEF OfficerStarts, EpisodeFails, TimePasses

\* An action that is legal, or the fail-closed one, is the end of the episode.
LEMMA AcceptedSettles ==
  ASSUME GInv, episode.phase \in {"think", "again"}, NEW raw \in Replies,
         Faults(raw, DOMAIN episode.evidence, episode.offered) = {}, raw.action \in allowedActions(episode.node),
         Judged(validateJudgment(raw), Append(episode.tried, raw.action))
  PROVE  DOMAIN episode' = DOMAIN NoEpisode /\ episode'.phase = "done" /\ Settled(episode')
<1> DEFINE j == validateJudgment(raw)
           tried == Append(episode.tried, raw.action)
<1>1. PICK others \in BOOLEAN :
        episode' = [episode EXCEPT !.phase = "done", !.judgment = j, !.tried = tried, !.answered = moment,
                                   !.opened = /\ episode.status = "none" /\ j.action = "PROPOSE"
                                              /\ gatesOk(episode, j) /\ others]
  BY DEF Judged
<1>2. /\ DOMAIN episode' = DOMAIN NoEpisode
      /\ episode'.phase = "done" /\ episode'.judgment = j /\ episode'.tried = tried /\ episode'.answered = moment
      /\ episode'.opened = (/\ episode.status = "none" /\ j.action = "PROPOSE" /\ gatesOk(episode, j) /\ others)
      /\ episode'.status = episode.status /\ episode'.at = episode.at /\ episode'.as_of = episode.as_of
      /\ episode'.evidence = episode.evidence /\ episode'.offered = episode.offered /\ episode'.node = episode.node
      /\ episode'.illegal = episode.illegal
  BY <1>1 DEF GInv, NoEpisode
<1>3. Attempts(episode) /\ Marked(episode)
  BY DEF GInv, Thinking
<1>4. raw.action \in Actions
  BY DEF allowedActions, Actions
<1>5. Legal(episode')
  BY <1>2, FaultlessIsLegal
<1>6. FirstIllegal(episode')
  BY <1>2, <1>3, <1>4, AttemptRemembered
<1>7. Marked(episode')
  BY <1>2, <1>3 DEF Marked
<1>8. episode'.opened => /\ episode'.status = "none" /\ episode'.judgment.action = "PROPOSE"
                         /\ episode'.answered - episode'.as_of <= StaleAfter
                         /\ episode'.judgment.evidence_refs \cap staleRefs(episode'.evidence) = {}
  BY <1>2 DEF gatesOk
<1>9. OpenedOnFresh(episode')
  BY <1>5, <1>7, <1>8, GatesKeepFresh
<1> QED
  BY <1>2, <1>5, <1>6, <1>9 DEF Settled

LEMMA ReplyKeeps == ASSUME GInv, NEW raw \in Replies, ReplyArrives(raw) PROVE GInv'
<1> DEFINE valid == Faults(raw, DOMAIN episode.evidence, episode.offered) = {}
           allowed == valid /\ raw.action \in allowedActions(episode.node)
           tried == IF valid THEN Append(episode.tried, raw.action) ELSE episode.tried
           illegal == IF valid /\ ~allowed /\ episode.illegal = Null THEN raw.action ELSE episode.illegal
           j == FailClosed(episode.status)
<1>1. Attempts(episode) /\ Marked(episode) /\ episode.phase \in {"think", "again"} /\ brief' = brief
  BY DEF GInv, Thinking, ReplyArrives
<1>2. valid => raw.action \in Actions
  <2>1. valid => raw # Malformed /\ "action" \notin Faults(raw, DOMAIN episode.evidence, episode.offered)
    BY DEF Faults
  <2> QED
    BY <2>1 DEF Faults
<1>3. CASE allowed
  <2>1. Judged(validateJudgment(raw), Append(episode.tried, raw.action))
    BY <1>3 DEF ReplyArrives
  <2>2. DOMAIN episode' = DOMAIN NoEpisode /\ episode'.phase = "done" /\ Settled(episode')
    BY <1>1, <1>3, <2>1, AcceptedSettles
  <2> QED
    BY <1>1, <2>2 DEF GInv, Thinking
<1>4. CASE ~allowed /\ episode.phase = "think"
  <2>1. episode' = [episode EXCEPT !.phase = "again", !.tried = tried, !.illegal = illegal]
    BY <1>4 DEF ReplyArrives
  <2>2. /\ DOMAIN episode' = DOMAIN NoEpisode
        /\ episode'.phase = "again" /\ episode'.tried = tried /\ episode'.illegal = illegal
        /\ episode'.opened = episode.opened /\ episode'.at = episode.at
        /\ episode'.evidence = episode.evidence /\ episode'.node = episode.node
    BY <2>1 DEF GInv, NoEpisode
  <2>3. Marked(episode')
    BY <1>1, <2>2 DEF Marked
  <2>4. episode.tried = <<>> /\ episode.illegal = Null
    BY <1>1, <1>4 DEF Attempts
  <2>5. ASSUME valid PROVE Attempts(episode')
    <3>1. episode'.tried = <<raw.action>>
      BY <2>2, <2>4, <2>5
    <3>2. episode'.illegal = raw.action
      BY <1>4, <2>2, <2>4, <2>5
    <3>3. raw.action \notin allowedActions(episode'.node)
      BY <1>4, <2>2, <2>5
    <3> QED
      BY <1>1, <1>2, <2>2, <2>5, <3>1, <3>2, <3>3, NoAnswerIsNull DEF Attempts
  <2>6. ASSUME ~valid PROVE Attempts(episode')
    BY <1>1, <2>2, <2>4, <2>6 DEF Attempts
  <2>7. Attempts(episode')
    BY <2>5, <2>6
  <2> QED
    BY <1>1, <2>2, <2>3, <2>7 DEF GInv, Thinking
<1>5. CASE ~allowed /\ episode.phase = "again"
  <2>1. episode' = [episode EXCEPT !.phase = "done", !.judgment = j, !.tried = tried, !.answered = moment,
                      !.illegal = IF illegal = Null /\ j.action \notin allowedActions(episode.node)
                                  THEN j.action ELSE illegal]
    BY <1>5 DEF ReplyArrives
  <2>2. /\ DOMAIN episode' = DOMAIN NoEpisode
        /\ episode'.phase = "done" /\ episode'.tried = tried /\ episode'.judgment = j
        /\ episode'.opened = episode.opened /\ episode'.status = episode.status /\ episode'.node = episode.node
        /\ episode'.illegal = IF illegal = Null /\ j.action \notin allowedActions(episode.node)
                              THEN j.action ELSE illegal
    BY <2>1 DEF GInv, NoEpisode
  <2>3. ~episode'.opened
    BY <1>1, <2>2 DEF Attempts
  <2>4. ASSUME valid PROVE FirstIllegal(episode')
    <3>1. illegal = IF episode.illegal = Null THEN raw.action ELSE episode.illegal
      BY <1>5, <2>4
    <3>2. illegal # Null
      BY <1>2, <2>4, <3>1, NoAnswerIsNull
    <3>3. episode'.tried = Append(episode.tried, raw.action) /\ episode'.illegal = illegal
      BY <2>2, <2>4, <3>2
    <3> HIDE DEF illegal
    <3> QED
      BY <1>1, <1>2, <2>2, <2>4, <3>1, <3>3, AttemptRemembered
  <2>5. ASSUME ~valid PROVE FirstIllegal(episode')
    <3>1. episode'.tried = episode.tried /\ (episode'.illegal = episode.illegal \/ episode.illegal = Null)
      BY <2>2, <2>5
    <3> QED
      BY <1>1, <2>2, <3>1, NothingTried
  <2>6. FirstIllegal(episode')
    BY <2>4, <2>5
  <2>7. Settled(episode')
    BY <2>2, <2>3, <2>6 DEF Settled, OpenedOnFresh
  <2> QED
    BY <1>1, <2>2, <2>7 DEF GInv, Thinking
<1> QED
  BY <1>1, <1>3, <1>4, <1>5

LEMMA GInvStep == GInv /\ [JudgmentsNext]_judgmentVars => GInv'
<1> SUFFICES ASSUME GInv, [JudgmentsNext]_judgmentVars PROVE GInv'
  OBVIOUS
<1>1. CASE UNCHANGED judgmentVars
  BY <1>1 DEF judgmentVars, GInv, Thinking
<1> QED
  BY <1>1, JobsKeep, ReplyKeeps DEF JudgmentsNext

\* Every judgment that counts is legal or the fail-closed one, a first illegal
\* answer is on record, and what opens a thread is fresh: for every watch list,
\* limit, clock and every answer a model may give (runtime.ts executeEpisode).
THEOREM JudgmentsAreGrounded == JudgmentsSpec => []JudgmentsGrounded
<1>1. GInv /\ [JudgmentsNext]_judgmentVars => GInv'
  BY GInvStep
<1>2. JudgmentsSpec => []GInv
  BY <1>1, GInvInit, PTL DEF JudgmentsSpec
<1> QED
  BY <1>2, GInvSuffices, PTL
=============================================================================
