------------------------------ MODULE Klines --------------------------------
(***************************************************************************)
(* The bar history of one symbol and timeframe, klines.ts: loadKlines      *)
(* answers from a file that holds bars and the spans already asked for,    *)
(* and pages backwards through the exchange for the rest.  Several callers *)
(* load at once, each with the file as it was when it began; only the      *)
(* requests to the exchange are awaited.                                   *)
(*                                                                         *)
(* Time is counted in ticks.  Bar k is open for BarSpan ticks from         *)
(* k * BarSpan on.                                                         *)
(* Merged spans are the set of the ticks they cover.                       *)
(***************************************************************************)
EXTENDS Integers, FiniteSets, FiniteSetsExt

CONSTANTS
    Loaders,    \* concurrent callers
    BarSpan,       \* ticks of a bar
    Listed,     \* the first bar the symbol traded
    Lookbacks,  \* how far back a caller asks
    PageSize,   \* bars of a page (1500)
    MaxPages,   \* pages of a span (200)
    EndOfTime,  \* bound: the last tick
    MaxLoads    \* bound: loads begun

ASSUME KlinesAssumption ==
    /\ BarSpan \in Nat \ {0} /\ PageSize \in Nat \ {0} /\ MaxPages \in Nat \ {0}
    /\ Listed \in Nat /\ Lookbacks \subseteq Nat /\ MaxLoads \in Nat
    /\ EndOfTime \in Nat /\ EndOfTime > 2 * BarSpan

VARIABLES
    clock,      \* the tick that is now
    file,       \* the cache file: bars, and the covered ticks
    load,       \* of each loader its state and what it holds
    loads       \* loads begun

klineVars == <<clock, file, load, loads>>

Opens(k) == k * BarSpan
ClosesOn(k) == k * BarSpan + BarSpan - 1
Ticks(k) == Opens(k)..ClosesOn(k)
Traded(t) == {k \in Listed..EndOfTime : Opens(k) <= t}

Empty == [bars |-> {}, covered |-> {}]
Idle == [at |-> "idle", from |-> 0, to |-> 0, now |-> 0, bars |-> {}, covered |-> {}, fetched |-> {},
         gaps |-> {}, end |-> 0, got |-> {}, pages |-> 0, capped |-> FALSE]

---------------------------------------------------------------------------
\* What is not covered of from..to, as runs; a run shorter than one bar is
\* not asked for.
Runs(S) == {r \in S \X S : /\ r[1] <= r[2] /\ r[1]..r[2] \subseteq S
                          /\ (r[1] - 1) \notin S /\ (r[2] + 1) \notin S}
missingSpans(covered, from, to) ==
    {r \in Runs((from..to) \ covered) : r[2] - r[1] >= BarSpan}
\* They are asked for in the order of time.
Oldest(gaps) == CHOOSE r \in gaps : \A q \in gaps : r[1] <= q[1]
spansFromBars(bars) == UNION {Ticks(k) : k \in bars}
sliceBars(bars, from, to) == {k \in bars : ClosesOn(k) >= from /\ Opens(k) <= to}

\* The newest bars of the exchange that open at or before the end.
Page(end) == LET T == {k \in Traded(clock) : Opens(k) <= end} IN {k \in T : Cardinality({j \in T : j > k}) < PageSize}

---------------------------------------------------------------------------
KlinesInit ==
    /\ clock \in {0, 2 * BarSpan + 1} /\ loads = 0
    /\ load = [l \in Loaders |-> Idle]
    \* no file, or one of a version without spans
    /\ file \in {Empty, [bars |-> {Listed}, covered |-> spansFromBars({Listed})]}
    /\ clock <= ClosesOn(Listed) => file = Empty

\* With nothing to ask for, the answer is at once that of the file.
loadKlines(l) ==
    /\ load[l].at \in {"idle", "done", "failed"} /\ loads < MaxLoads
    /\ \E b \in Lookbacks :
         LET from == IF clock > b THEN clock - b ELSE 0
             gaps == missingSpans(file.covered, from, clock)
             start == [Idle EXCEPT !.from = from, !.to = clock, !.now = clock, !.bars = file.bars, !.covered = file.covered]
         IN  load' = [load EXCEPT ![l] =
                IF gaps = {} THEN [start EXCEPT !.at = "done", !.bars = sliceBars(file.bars, from, clock)]
                ELSE [start EXCEPT !.at = "asking", !.gaps = gaps, !.end = Oldest(gaps)[2]]]
    /\ loads' = loads + 1
    /\ UNCHANGED <<clock, file>>

\* Mutant: covered as far as was asked.
CoversAll(s, gap, got, reached) == gap[1]..gap[2]

\* Coverage ends before the time the load began, and begins where the pages
\* reached.
Covers(s, gap, got, reached) ==
    LET left == IF reached THEN gap[1] ELSE IF got = {} THEN gap[2] ELSE Opens(Min(got))
        right == IF gap[2] < s.now THEN gap[2] ELSE s.now - 1
    IN  left..right

\* Only bars that had closed when the load began are kept.
Kept(s) == {k \in s.bars : ClosesOn(k) < s.now}

\* The last page of the last gap: the file is replaced by what this loader
\* knows, unless it cannot be written.
Finish(l, s) ==
    /\ load' = [load EXCEPT ![l] = [s EXCEPT !.at = "done", !.bars = sliceBars(s.bars, s.from, s.to)]]
    /\ file' \in {file, [bars |-> Kept(s), covered |-> s.covered \cup s.fetched]}

\* One page of a span arrives.
fetchKlineSpan(l) ==
    /\ load[l].at = "asking"
    /\ LET s == load[l]
           gap == Oldest(s.gaps)
           rows == Page(s.end)
           earliest == Min(rows)
           reached == rows = {} \/ Opens(earliest) <= gap[1] \/ (s.got # {} /\ earliest >= Min(s.got))
           got == s.got \cup rows
           capped == s.pages + 1 = MaxPages
           next == [s EXCEPT !.bars = @ \cup got, !.fetched = @ \cup Covers(s, gap, got, reached), !.capped = @ \/ ~reached, !.gaps = @ \ {gap}, !.got = {}, !.pages = 0]
       IN  IF ~reached /\ ~capped
           THEN /\ load' = [load EXCEPT ![l] = [s EXCEPT !.got = got, !.end = Opens(earliest) - 1, !.pages = @ + 1]]
                /\ UNCHANGED file
           ELSE IF next.gaps # {}
           THEN load' = [load EXCEPT ![l] = [next EXCEPT !.end = Oldest(next.gaps)[2]]] /\ UNCHANGED file
           ELSE Finish(l, next)
    /\ UNCHANGED <<clock, loads>>

\* A request that fails twice ends the load; nothing of it is kept.
FetchFails(l) ==
    /\ load[l].at = "asking"
    /\ load' = [load EXCEPT ![l] = [Idle EXCEPT !.at = "failed"]]
    /\ UNCHANGED <<clock, file, loads>>

\* The process dies; a file it was writing cannot be parsed and counts as none.
KlinesCrash ==
    /\ \E l \in Loaders : load[l].at = "asking"
    /\ load' = [l \in Loaders |-> Idle]
    /\ file' \in {file, Empty}
    /\ UNCHANGED <<clock, loads>>

KlinesTick == clock < EndOfTime /\ clock' = clock + 1 /\ UNCHANGED <<file, load, loads>>

KlinesNext ==
    \/ \E l \in Loaders : loadKlines(l) \/ fetchKlineSpan(l) \/ FetchFails(l)
    \/ KlinesCrash
    \/ KlinesTick

KlinesSpec == KlinesInit /\ [][KlinesNext]_klineVars

---------------------------------------------------------------------------
\* A covered span is never asked for again, so it must hold every bar that
\* lies in it, and no bar may be kept before it closed: whatever loads
\* overlap, fail or stop in between.
CoverageIsTrue ==
    /\ \A k \in Traded(clock) : Ticks(k) \subseteq file.covered => k \in file.bars
    /\ \A k \in file.bars : ClosesOn(k) < clock /\ k >= Listed

\* An answer holds every bar of the span that had closed when it was asked
\* for, except one that a run shorter than one bar left out or a span longer
\* than the page limit.
AnswerIsComplete ==
    \A l \in Loaders : load[l].at = "done" =>
        LET s == load[l]
            skipped == UNION {r[1]..r[2] : r \in {r \in Runs((s.from..s.to) \ s.covered) : r[2] - r[1] < BarSpan}}
        IN  \A k \in Traded(s.now) :
              ClosesOn(k) < s.now /\ Opens(k) >= s.from => k \in s.bars \/ s.capped \/ Ticks(k) \cap skipped # {}

KlinesHonest == CoverageIsTrue /\ AnswerIsComplete

\* Known not to hold: the run after a load made within a bar stays shorter
\* than a bar until well after that bar has closed; the answer lacks the
\* newest closed bar and the file says it is covered up to the middle of it.
NewestBarIsThere ==
    \A l \in Loaders : load[l].at = "done" /\ ~load[l].capped =>
        \A k \in Traded(load[l].now) : ClosesOn(k) < load[l].now /\ Opens(k) >= load[l].from => k \in load[l].bars
=============================================================================
