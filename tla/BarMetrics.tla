---------------------------- MODULE BarMetrics ------------------------------
(***************************************************************************)
(* What the program computes about a bar besides the indicators: features  *)
(* and regime (market.ts), per-bar metrics and their verdict               *)
(* (bar-metrics.ts), the scan checklist and the review metrics             *)
(* (review-metrics.ts), the code triggers (triggers.ts), and what happened *)
(* after a judgment (outcome.ts, reversion-stats.ts).  The screener, the   *)
(* scans and the reviews answer the same questions by different code; the  *)
(* properties compare them.                                                *)
(*                                                                         *)
(* The i-th bar closes at time i.  The higher timeframes bundle the bars   *)
(* of the window, the last bundle being the one still forming.             *)
(***************************************************************************)
EXTENDS Indicators

CONSTANTS
    Level,      \* bars of a breakout level (20)
    Warm,       \* daily bars a regime needs (30)
    Fundings,   \* the funding history: at, rate
    Thresholds, \* threshold sets of the screener
    Horizon,    \* bars a candidate is followed (48)
    Fetched,    \* bars a scan fetches (60)
    PerH1,      \* base bars of a bar of the next timeframe
    PerH4       \* and of the one above it

---------------------------------------------------------------------------
\* market.ts

\* Seeded by the first value.
emaSeries(xs, p) == Scanned(LAMBDA prev, i : IF i = 1 THEN xs[1] ELSE (xs[i] ** Frac(2, p + 1)) ++ (prev ** Frac(p - 1, p + 1)), Zero, Len(xs))
marketEma(xs, p) == emaSeries(xs, p)[Len(xs)]
Mean(F(_), S) == Total(F, S) // Whole(Cardinality(S))
LastOf(n, k) == {i \in 1..n : i > n - k}
\* The mean of the last true ranges; the first bar has none.
marketAtr(w, p) == LET S == LastOf(Len(w), p) \ {1} IN IF S = {} THEN Zero ELSE Mean(LAMBDA i : trueRange(w)[i], S)

\* The bar still forming is left out unless too few have closed.
tfFeatures(w, forming, minClosed) ==
    LET v == IF Len(w) >= minClosed THEN w ELSE w \o forming
        n == Len(v)
        now == LastOf(n, Level)
        prev == LastOf(n - 1, Level)
        cl == closes(v)
        avg == IF prev = {} THEN Zero ELSE Mean(LAMBDA i : Whole(v[i].volume), prev)
        change(k) == LET b == IF n > k THEN cl[n - k] ELSE cl[1] IN Percent(cl[n] -- b, b)
    IN  [last_close |-> cl[n], ema20 |-> marketEma(cl, Span.n20), ema50 |-> marketEma(cl, Span.n50), atr14 |-> marketAtr(v, Span.n14),
         swing_high_20 |-> Top(highs(v), now), swing_low_20 |-> Bottom(lows(v), now),
         swing_high_20_prev |-> IF prev = {} THEN Top(highs(v), now) ELSE Top(highs(v), prev),
         swing_low_20_prev |-> IF prev = {} THEN Bottom(lows(v), now) ELSE Bottom(lows(v), prev),
         vol_ratio_20 |-> IF Zero \prec avg THEN Whole(v[n].volume) // avg ELSE Whole(1),
         change_pct_last |-> change(1), change_pct_5 |-> change(5)]

\* The rank of the realized volatility is left to the caller.
dailyRegime(w, volatile) ==
    LET cl == closes(w)
        tip == cl[Len(w)]
        e20 == marketEma(cl, Span.n20)
        e50 == marketEma(cl, Span.n50)
        base == IF Len(w) > Span.n20 THEN cl[Len(w) - Span.n20] ELSE cl[1]
    IN  CASE Len(w) < Warm -> NA
          [] Len(w) >= Warm /\ volatile -> "volatile"
          [] Len(w) >= Warm /\ ~volatile /\ e20 \prec tip /\ e50 \prec e20 /\ base \prec tip -> "bull"
          [] Len(w) >= Warm /\ ~volatile /\ tip \prec e20 /\ e20 \prec e50 /\ tip \prec base -> "bear"
          [] OTHER -> "range"

---------------------------------------------------------------------------
\* klines.ts: the last entry of an ascending series at or before t.

RECURSIVE Bisect(_, _, _, _, _)
Bisect(times, t, lo, hi, ans) ==
    IF lo > hi THEN ans
    ELSE LET mid == (lo + hi) \div 2 IN
         IF times[mid] <= t THEN Bisect(times, t, mid + 1, hi, mid) ELSE Bisect(times, t, lo, mid - 1, ans)
lastClosedIndex(times, t) == Bisect(times, t, 1, Len(times), 0)
lastFundingIndex(t) == lastClosedIndex([i \in DOMAIN Fundings |-> Fundings[i].at], t)

\* Bars of a higher timeframe, k base bars each.
Bundle(w, k) ==
    LET part(j) == {i \in DOMAIN w : (i - 1) \div k = j - 1}
        ends(S) == CHOOSE i \in S : \A m \in S : m <= i
        starts(S) == CHOOSE i \in S : \A m \in S : i <= m
        Most(S) == CHOOSE x \in S : \A y \in S : y <= x
        Least(S) == CHOOSE x \in S : \A y \in S : x <= y
    IN  Each(LAMBDA j : [w[ends(part(j))] EXCEPT !.open = w[starts(part(j))].open, !.high = Most({w[i].high : i \in part(j)}),
                         !.low = Least({w[i].low : i \in part(j)})], (Len(w) + k - 1) \div k)
ClosesAt(w, k) == [j \in 1..((Len(w) + k - 1) \div k) |-> j * k]

---------------------------------------------------------------------------
\* bar-metrics.ts

\* Mutant: the running sum lets the wrong bar go.
rollingAtrSkewed(w, p) ==
    LET tr == trueRange(w)
        sums == Scanned(LAMBDA s, i : IF i = 1 THEN Zero ELSE IF i - 1 >= p THEN (s ++ tr[i]) -- tr[i - p] ELSE s ++ tr[i], Zero, Len(w))
    IN  Each(LAMBDA i : IF i - 1 >= p THEN sums[i] // Whole(p) ELSE Zero, Len(w))
\* A running sum of true ranges; zero until there are enough.
rollingAtr(w, p) ==
    LET tr == trueRange(w)
        sums == Scanned(LAMBDA s, i : IF i = 1 THEN Zero ELSE IF i - 1 > p THEN (s ++ tr[i]) -- tr[i - p] ELSE s ++ tr[i], Zero, Len(w))
    IN  Each(LAMBDA i : IF i - 1 >= p THEN sums[i] // Whole(p) ELSE Zero, Len(w))

\* The extremes of the bars up to i, or before i.
rollingExtreme(w, i, inclusive) ==
    LET S == LastOf(IF inclusive THEN i ELSE i - 1, Level) IN
    IF S = {} THEN NA ELSE [high |-> Top(highs(w), S), low |-> Bottom(lows(w), S)]
rollingVolRatio(w, i) ==
    LET S == LastOf(i - 1, Level)
        avg == IF S = {} THEN Zero ELSE Mean(LAMBDA j : Whole(w[j].volume), S)
    IN  IF Zero \prec avg THEN Whole(w[i].volume) // avg ELSE Whole(1)
\* The averages are seeded anew in each window.
windowedEmaDir(w, i, window) ==
    LET cl == closes(SubSeq(w, IF i > window THEN i - window + 1 ELSE 1, i))
        a == marketEma(cl, Span.n20)
        b == marketEma(cl, Span.n50)
    IN  [ema20 |-> a, dir |-> IF b \prec a THEN "long" ELSE IF a \prec b THEN "short" ELSE NA]

Broke(w, i) == LET x == rollingExtreme(w, i, FALSE)
                   c == Whole(w[i].close)
               IN  [up |-> x # NA /\ x.high \prec c, down |-> x # NA /\ c \prec x.low]

\* One row per bar that has a level, a range and a price.
computeMetrics(w) ==
    LET h1 == Bundle(w, PerH1)
        h4 == Bundle(w, PerH4)
        atrs == rollingAtr(w, Span.n14)
        h4Atr == rollingAtr(h4, Span.n14)
        since(i, side) == LET B == {j \in 1..i : Broke(w, j)[side]} IN IF B = {} THEN NA ELSE i - (CHOOSE j \in B : \A m \in B : m <= j)
        row(i) ==
            LET i1 == lastClosedIndex(ClosesAt(w, PerH1), i)
                i4 == lastClosedIndex(ClosesAt(w, PerH4), i)
                fIdx == lastFundingIndex(i)
                incl == rollingExtreme(w, i, TRUE)
                prev == rollingExtreme(w, i, FALSE)
                h4Dir == windowedEmaDir(h4, i4, 3)
            IN  [close |-> Whole(w[i].close), atr |-> atrs[i], atr_pct |-> Percent(atrs[i], Whole(w[i].close)),
                 hi20 |-> incl.high, lo20 |-> incl.low, hi20_prev |-> prev.high, lo20_prev |-> prev.low,
                 vol_ratio |-> rollingVolRatio(w, i), ema20 |-> windowedEmaDir(w, i, Fetched).ema20,
                 dir_h1 |-> IF i1 = 0 THEN NA ELSE windowedEmaDir(h1, i1, 3).dir, dir_h4 |-> IF i4 = 0 THEN NA ELSE h4Dir.dir,
                 h4_dist_atr |-> IF i4 = 0 \/ h4Atr[i4] = Zero THEN NA ELSE Gap(Whole(h4[i4].close), h4Dir.ema20) // h4Atr[i4],
                 regime |-> IF i1 < Warm THEN NA ELSE dailyRegime(SubSeq(h1, 1, i1), FALSE),
                 funding_abs_pct |-> IF fIdx = 0 THEN NA ELSE Gap(Fundings[fIdx].rate, Zero),
                 since_up |-> since(i, "up"), since_down |-> since(i, "down"),
                 break_vol_up |-> IF since(i, "up") = NA THEN NA ELSE rollingVolRatio(w, i - since(i, "up")),
                 break_vol_down |-> IF since(i, "down") = NA THEN NA ELSE rollingVolRatio(w, i - since(i, "down"))]
    IN  Each(LAMBDA i : IF i > Level /\ Zero \prec atrs[i] /\ w[i].close > 0 THEN row(i) ELSE NA, Len(w))

\* The verdict of one bar under one threshold set: the conditions it passes.
evaluateBar(m, th) ==
    LET dirTrend ==
            IF th.trend_mode = "both" THEN (IF m.dir_h1 = m.dir_h4 THEN m.dir_h1 ELSE NA)
            ELSE IF m.dir_h4 \notin {NA, m.dir_h1} /\ m.h4_dist_atr # NA /\ th.h4_veto_atr \prec m.h4_dist_atr THEN NA ELSE m.dir_h1
        dir == IF dirTrend # NA THEN dirTrend ELSE IF Gap(m.close, m.hi20) \preceq Gap(m.close, m.lo20) THEN "long" ELSE "short"
        long == dir = "long"
        level == IF th.breakout_level = "self" THEN (IF long THEN m.hi20 ELSE m.lo20) ELSE IF long THEN m.hi20_prev ELSE m.lo20_prev
        since == IF long THEN m.since_up ELSE m.since_down
        recent == since # NA /\ since < th.breakout_window
        breakVol == IF long THEN m.break_vol_up ELSE m.break_vol_down
        breakout == IF th.breakout_level = "self" THEN (IF long THEN m.hi20 \prec m.close ELSE m.close \prec m.lo20) ELSE recent
        volOk == \/ th.retest_vol_min \preceq m.vol_ratio
                 \/ th.vol_mode = "either" /\ recent /\ th.retest_vol_min \preceq breakVol
        pass == {c \in {"atr_ok", "trend_agree", "within_chase", "breakout", "retest_vol", "funding_ok", "regime_ok"} :
                   CASE c = "atr_ok" -> th.atr_floor \preceq m.atr_pct
                     [] c = "trend_agree" -> dirTrend # NA
                     [] c = "within_chase" -> Gap(m.close, level) \preceq th.chase_atr_max ** m.atr
                     [] c = "breakout" -> breakout
                     [] c = "retest_vol" -> volOk
                     [] c = "funding_ok" -> m.funding_abs_pct = NA \/ m.funding_abs_pct \preceq th.funding_abs_max
                     [] c = "regime_ok" ->
                          IF m.regime = NA THEN ~th.require_trend_regime
                          ELSE /\ th.require_trend_regime => m.regime \in {"bull", "bear"}
                               /\ m.regime # (IF long THEN "bear" ELSE "bull")
                               /\ m.regime = "range" => th.range_vol_min \preceq m.vol_ratio}
    IN  [dir |-> dir, dir_trend |-> dirTrend, pass |-> pass, joint |-> Cardinality(pass) = 7, level |-> level,
         retest_confirmed |-> breakout /\ volOk,
         watch_eligible |-> dirTrend # NA /\ "within_chase" \in pass /\ ~(breakout /\ volOk)]

---------------------------------------------------------------------------
\* outcome.ts: a trade walked forward bar by bar.

Sgn(dir) == IF dir = "long" THEN Whole(1) ELSE Whole(-1)
\* A stop on the wrong side of the fill cannot be walked.
openTrade(dir, fill, stop, tp) ==
    LET dist == Sgn(dir) ** (fill -- stop) IN
    IF ~(Zero \prec dist) THEN NA
    ELSE [dir |-> dir, fill |-> fill, stop |-> stop, tp |-> tp, dist |-> dist, mae |-> Zero, mfe |-> Zero, status |-> "open", exit |-> NA]
tradeR(t, px) == (Sgn(t.dir) ** (px -- t.fill)) // t.dist
\* x is at or beyond y in the direction of the trade.
Beyond(t, x, y) == IF t.dir = "long" THEN y \preceq x ELSE x \preceq y

\* The stop is looked at before the take-profit; a gap exits at the open.
stepTrade(t, bar) ==
    LET o == Whole(bar.open)
        worst == IF t.dir = "long" THEN Whole(bar.low) ELSE Whole(bar.high)
        best == IF t.dir = "long" THEN Whole(bar.high) ELSE Whole(bar.low)
        s == [t EXCEPT !.mae = Smaller(t.mae, tradeR(t, worst)), !.mfe = Larger(t.mfe, tradeR(t, best))]
    IN  IF Beyond(t, t.stop, worst) THEN [s EXCEPT !.status = "stop", !.exit = IF Beyond(t, t.stop, o) THEN o ELSE t.stop]
        ELSE IF t.tp # NA /\ Beyond(t, best, t.tp) THEN [s EXCEPT !.status = "tp", !.exit = IF Beyond(t, o, t.tp) THEN o ELSE t.tp]
        ELSE s
Walk(t, bars) == FoldLeft(LAMBDA s, b : IF s.status = "open" THEN stepTrade(s, b) ELSE s, t, bars)

\* A market order fills at the first open; a limit at the first bar that
\* touches it, or better at its open.
findFill(dir, limit, bars) ==
    IF limit = NA THEN [bar |-> 1, price |-> Whole(bars[1].open)]
    ELSE LET T == {i \in DOMAIN bars : IF dir = "long" THEN Whole(bars[i].low) \preceq limit ELSE limit \preceq Whole(bars[i].high)}
             i == CHOOSE j \in T : \A m \in T : j <= m
         IN  IF T = {} THEN NA
             ELSE [bar |-> i, price |-> IF dir = "long" THEN Smaller(Whole(bars[i].open), limit) ELSE Larger(Whole(bars[i].open), limit)]

simulateOutcome(dir, limit, stop, tp, bars) ==
    LET fill == findFill(dir, limit, bars)
        t == openTrade(dir, fill.price, stop, tp)
        s == Walk(t, SubSeq(bars, fill.bar, Len(bars)))
        exit == IF s.status = "open" THEN Whole(bars[Len(bars)].close) ELSE s.exit
    IN  IF bars = <<>> THEN [status |-> "invalid"] ELSE IF fill = NA THEN [status |-> "unfilled"]
        ELSE IF t = NA THEN [status |-> "invalid"]
        ELSE [status |-> IF s.status = "open" THEN "expired" ELSE s.status, r |-> tradeR(t, exit), mae |-> s.mae, mfe |-> s.mfe, fill |-> fill]

missedMove(p0, a, bars) == IF bars = <<>> \/ ~(Zero \prec a) THEN NA
    ELSE Larger(Top(highs(bars), DOMAIN bars) -- p0, p0 -- Bottom(lows(bars), DOMAIN bars)) // a

\* A candidate enters at the next open, stopped behind the level.
CandidateStop(w, i, m, ev, stopAtr) ==
    LET fill == Whole(w[i + 1].open) IN
    IF ev.dir = "long" THEN Smaller(ev.level, fill) -- (stopAtr ** m.atr) ELSE Larger(ev.level, fill) ++ (stopAtr ** m.atr)
CandidateTp(w, i, m, ev, stopAtr, tpR) ==
    LET fill == Whole(w[i + 1].open) IN fill ++ (tpR ** (fill -- CandidateStop(w, i, m, ev, stopAtr)))
Ahead(w, i) == SubSeq(w, i + 1, IF i + Horizon < Len(w) THEN i + Horizon ELSE Len(w))
scoreCandidate(w, i, m, ev, stopAtr, tpR) ==
    IF i = Len(w) THEN NA
    ELSE LET t == openTrade(ev.dir, Whole(w[i + 1].open), CandidateStop(w, i, m, ev, stopAtr), CandidateTp(w, i, m, ev, stopAtr, tpR))
             s == Walk(t, Ahead(w, i))
         IN  IF t = NA THEN NA ELSE tradeR(t, IF s.status = "open" THEN Whole(Ahead(w, i)[Len(Ahead(w, i))].close) ELSE s.exit)

\* reversion-stats.ts: how often a deviation of k ranges came back within H.
atrSeries(w, p) == Scanned(LAMBDA prev, i : IF i = 1 THEN Whole(w[1].high - w[1].low)
                                            ELSE ((prev ** Whole(p - 1)) ++ trueRange(w)[i]) // Whole(p), Zero, Len(w))
reversionCell(w, warm, k, H) ==
    LET e == emaSeries(closes(w), Span.n20)
        a == atrSeries(w, Span.n14)
        S == {i \in (warm + 1)..(Len(w) - H) : Zero \prec a[i] /\ k ** a[i] \preceq Gap(closes(w)[i], e[i])}
        back(i) == {j \in (i + 1)..(i + H) : Whole(w[j].low) \preceq e[j] /\ e[j] \preceq Whole(w[j].high)}
        R == {i \in S : back(i) # {}}
        took(i) == (CHOOSE j \in back(i) : \A m \in back(i) : j <= m) - i
        sorted == SortSeq(SetToSeq({<<took(i), i>> : i \in R}), LAMBDA x, y : x[1] < y[1])
        mid == Len(sorted) \div 2
    IN  [samples |-> Cardinality(S), prob |-> IF S = {} THEN NA ELSE Frac(Cardinality(R), Cardinality(S)),
         median |-> IF R = {} THEN NA ELSE IF Len(sorted) % 2 = 1 THEN Whole(sorted[mid + 1][1]) ELSE Frac(sorted[mid][1] + sorted[mid + 1][1], 2)]

---------------------------------------------------------------------------
\* review-metrics.ts and triggers.ts

tfDirection(f) == IF f = NA THEN NA ELSE IF f.ema50 \prec f.ema20 THEN "long" ELSE IF f.ema20 \prec f.ema50 THEN "short" ELSE NA
trendAgreement(h1, h4) == IF tfDirection(h1) = tfDirection(h4) THEN tfDirection(h1) ELSE NA

\* Did one of the last bars close beyond the extreme of the bars before it?
brokeWithin(w, dir, window) ==
    \E i \in LastOf(Len(w), window) : i > Level + 1 /\ (IF dir = "long" THEN Broke(w, i).up ELSE Broke(w, i).down)

scanChecklist(w, f, h1, h4, th) ==
    LET agree == trendAgreement(h1, h4)
        level == IF agree = "long" THEN f.swing_high_20 ELSE f.swing_low_20
        breakLevel == IF agree = "long" THEN f.swing_high_20_prev ELSE f.swing_low_20_prev
        within == agree # NA /\ Zero \prec f.atr14 /\ Gap(f.last_close, level) \preceq th.chase_atr_max ** f.atr14
        beyond == agree # NA /\ IF agree = "long" THEN breakLevel \prec f.last_close ELSE f.last_close \prec breakLevel
        retest == /\ beyond \/ (th.breakout_window > 1 /\ agree # NA /\ brokeWithin(w, agree, th.breakout_window))
                  /\ th.retest_vol_min \preceq f.vol_ratio_20
    IN  [trend_agree |-> agree, atr_ok |-> th.atr_floor \preceq Percent(f.atr14, f.last_close), within_chase |-> within,
         retest_confirmed |-> retest, watch_eligible |-> agree # NA /\ within /\ ~retest]

\* The numbers of a review of a thread: side, entry, stop and the
\* invalidation price its text names, if it lies within a fifth of the entry.
parseInvalidationPrice(price, ref) == IF price # NA /\ Gap(price, ref) \preceq ref ** Frac(1, 5) THEN price ELSE NA
reviewMetrics(w, f, h1, h4, side, entry, stop, named, confirmBars, buffer) ==
    LET long == side = "long"
        risk == Gap(entry, stop)
        mark == f.last_close
        inv == parseInvalidationPrice(named, entry)
        over(c) == IF long THEN c \prec inv ELSE inv \prec c
        n == Cardinality({i \in DOMAIN w : \A j \in i..Len(w) : over(closes(w)[j])})
        depth == IF Zero \prec f.atr14 THEN (Sgn(side) ** (inv -- f.last_close)) // f.atr14 ELSE NA
        agree == trendAgreement(h1, h4)
    IN  [unrealized_r |-> IF risk = Zero THEN NA ELSE (Sgn(side) ** (mark -- entry)) // risk,
         dist_to_stop_r |-> IF risk = Zero THEN NA ELSE (Sgn(side) ** (mark -- stop)) // risk,
         closed_beyond_stop |-> IF long THEN f.last_close \prec stop ELSE stop \prec f.last_close,
         closed_beyond_invalidation |-> inv # NA /\ over(f.last_close),
         bars_beyond_invalidation |-> IF inv = NA THEN NA ELSE n,
         invalidation_confirmed |-> inv # NA /\ n >= confirmBars /\ (depth = NA \/ buffer \preceq depth),
         structure_against |-> agree \notin {NA, side} \/ (IF long THEN f.last_close \prec f.ema20 ELSE f.ema20 \prec f.last_close),
         thesis_trend_flipped |-> \E x \in {f, h1} : tfDirection(x) \notin {NA, side}]

\* The kinds of triggers a closed bar fires, with the session announced once.
detectTriggers(f, p, h1, fastMove, fastLimit, funding, session, prevSession) ==
    LET atrPct == Percent(f.atr14, f.last_close)
        order(x) == IF x.ema50 \prec x.ema20 THEN 1 ELSE IF x.ema20 \prec x.ema50 THEN -1 ELSE 0
        size(x) == Gap(x, Zero)
        near == Percent(Gap(f.last_close, f.ema20), f.last_close)
    IN  {k \in {"fast_move", "breakout_up", "breakout_down", "ema_cross", "vol_spike", "retest", "funding", "session"} :
           CASE k = "fast_move" -> fastMove # NA /\ fastLimit \preceq size(fastMove)
             [] k = "breakout_up" -> IF p # NA THEN p.swing_high_20 \prec f.last_close
                                     ELSE Percent(f.swing_high_20 -- f.last_close, f.last_close) \preceq Frac(2, 100) /\ Zero \prec f.change_pct_last
             [] k = "breakout_down" -> IF p # NA THEN f.last_close \prec p.swing_low_20
                                       ELSE Percent(f.last_close -- f.swing_low_20, f.last_close) \preceq Frac(2, 100) /\ f.change_pct_last \prec Zero
             [] k = "ema_cross" -> p # NA /\ order(f) # order(p) /\ order(f) # 0
             [] k = "vol_spike" -> Whole(2) \preceq f.vol_ratio_20 /\ Frac(6, 10) ** atrPct \preceq size(f.change_pct_last) /\ Zero \prec atrPct
             [] k = "retest" -> /\ Zero \prec atrPct /\ near \preceq Frac(3, 10) ** atrPct /\ atrPct \preceq size(f.change_pct_5)
                                /\ h1 # NA /\ h1.ema20 # h1.ema50
             [] k = "funding" -> funding # NA /\ Frac(5, 100) \preceq size(funding)
             [] k = "session" -> session \in {"us_open_window", "us_close_window"} /\ prevSession # session}

\* The session at a minute of the New York day; the open and the close have
\* windows from half an hour before to a quarter of an hour after.
sessionInfo(weekend, ny, inLondon, inAsia) ==
    LET toOpen == 570 - ny
        toClose == 960 - ny
    IN  CASE weekend -> "weekend"
          [] ~weekend /\ toOpen <= 30 /\ toOpen > -15 -> "us_open_window"
          [] ~weekend /\ toClose <= 30 /\ toClose > -15 -> "us_close_window"
          [] ~weekend /\ ny >= 585 /\ ny < 930 -> "us"
          [] OTHER -> IF inLondon /\ ~weekend THEN "london" ELSE IF inAsia THEN "asia" ELSE "off"

\* The move from the oldest mark in the window; too short a span has none.
windowMovePct(samples, now, window) ==
    LET W == {i \in DOMAIN samples : now - samples[i].at <= window}
        a == samples[CHOOSE i \in W : \A j \in W : i <= j]
        b == samples[CHOOSE i \in W : \A j \in W : j <= i]
    IN  IF Cardinality(W) < 2 \/ 2 * (now - a.at) < window \/ a.mark = 0 THEN NA ELSE Percent(Whole(b.mark - a.mark), Whole(a.mark))

---------------------------------------------------------------------------
Feature(w) == tfFeatures(w, <<>>, 0)
Higher(w, k) == LET i == Len(w) \div k IN IF i = 0 THEN NA ELSE Feature(SubSeq(Bundle(w, k), 1, i))
AtOpen == {[dir |-> d, stop |-> Whole(s), tp |-> Whole(t), limit |-> l] :
              d \in {"long", "short"}, s \in {4, 6}, t \in {3, 7}, l \in {NA, Whole(5)}}

\* Scan, screener and triggers agree about the newest bar: the level it
\* broke, the range it moves in and the volume behind it; no bar breaks a
\* level that contains it; and the checklist finds a recent breakout where
\* the screener does, from the bar on where both have a full level.
SameBar(w) ==
    LET n == Len(w)
        ms == computeMetrics(w)
        m == ms[n]
        f == Feature(w)
    IN  /\ n > Span.n14 => rollingAtr(w, Span.n14)[n] = marketAtr(w, Span.n14)
        /\ lastFundingIndex(n) = Cardinality({i \in DOMAIN Fundings : Fundings[i].at <= n})
        /\ m # NA =>
             /\ m.hi20 = f.swing_high_20 /\ m.hi20_prev = f.swing_high_20_prev /\ m.lo20_prev = f.swing_low_20_prev
             /\ m.vol_ratio = f.vol_ratio_20 /\ m.atr = f.atr14
             /\ LET hits == detectTriggers(f, Feature(SubSeq(w, 1, n - 1)), Higher(w, PerH1), NA, Whole(1), m.funding_abs_pct, "us", "us")
                IN  ("breakout_up" \in hits <=> m.since_up = 0) /\ ("breakout_down" \in hits <=> m.since_down = 0)
             /\ \A th \in Thresholds :
                  LET ev == evaluateBar(m, th)
                      c == scanChecklist(w, f, Higher(w, PerH1), Higher(w, PerH4), th)
                  IN  /\ th.breakout_level = "self" => ~ev.joint /\ "breakout" \notin ev.pass
                      /\ n > Level + th.breakout_window /\ th.trend_mode = "both" /\ th.vol_mode = "current" /\ th.breakout_level = "prior"
                           /\ ev.dir_trend = c.trend_agree /\ ev.dir_trend # NA
                           => ev.retest_confirmed = c.retest_confirmed

\* Outcomes are pessimistic and never better than the path allowed; a
\* candidate's score is the outcome of its trade; the R of a review is one
\* less than its distance to the stop; a confirmed invalidation has closed
\* beyond the price.
PessimisticAhead(w) ==
    /\ \A t \in AtOpen : LET o == simulateOutcome(t.dir, t.limit, t.stop, t.tp, w) IN
         "r" \in DOMAIN o =>
            /\ o.mae \preceq o.r /\ o.r \preceq o.mfe
            /\ o.status = "tp" => ~\E i \in o.fill.bar..Len(w) :
                  /\ (IF t.dir = "long" THEN Whole(w[i].low) \preceq t.stop ELSE t.stop \preceq Whole(w[i].high))
                  /\ \A j \in o.fill.bar..(i - 1) : IF t.dir = "long" THEN Whole(w[j].high) \prec t.tp ELSE t.tp \prec Whole(w[j].low)
    /\ \A i \in DOMAIN w : LET m == computeMetrics(w)[i] IN
         m # NA => \A th \in Thresholds :
            LET ev == evaluateBar(m, th)
                r == scoreCandidate(w, i, m, ev, Frac(4, 5), Frac(3, 2))
                o == simulateOutcome(ev.dir, NA, CandidateStop(w, i, m, ev, Frac(4, 5)), CandidateTp(w, i, m, ev, Frac(4, 5), Frac(3, 2)), Ahead(w, i))
            IN  r # NA => o.r = r
    /\ \A side \in {"long", "short"} :
         LET f == Feature(w)
             v == reviewMetrics(w, f, Higher(w, PerH1), Higher(w, PerH4), side, Whole(6), Whole(IF side = "long" THEN 4 ELSE 8), Whole(5), 2, Frac(1, 5))
         IN  /\ v.dist_to_stop_r -- v.unrealized_r = Whole(1)
             /\ v.closed_beyond_stop <=> v.dist_to_stop_r \prec Zero
             /\ v.invalidation_confirmed => v.closed_beyond_invalidation /\ v.bars_beyond_invalidation >= 2
             /\ v.closed_beyond_invalidation <=> v.bars_beyond_invalidation > 0
    /\ \A k \in {1, 2}, H \in {1, 2} : LET c == reversionCell(w, 1, Frac(k, 4), H) IN
         c.samples > 0 => /\ c.prob \preceq Whole(1)
                          /\ c.median # NA => c.median \preceq Whole(H)

\* What a bar was judged by stays: a row of the screener, a trade that was
\* stopped or took its profit, and a candidate whose trade has ended are the
\* same after more bars.
RowsStay(w, v) ==
    /\ IsPrefix(computeMetrics(w), computeMetrics(v))
    /\ \A t \in AtOpen : LET o == simulateOutcome(t.dir, t.limit, t.stop, t.tp, w) IN
         o.status \in {"stop", "tp"} => simulateOutcome(t.dir, t.limit, t.stop, t.tp, v) = o

=============================================================================
