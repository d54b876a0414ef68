---------------------------- MODULE Indicators ------------------------------
(***************************************************************************)
(* The indicator library, indicators.ts, over a window of bars that grows  *)
(* by one bar at a time as the feed and the backtests grow it.  A series   *)
(* is aligned to its bars and holds NA while it warms up.  The square root *)
(* of the standard deviation is left out: bands carry the variance and are *)
(* compared by squares.                                                    *)
(***************************************************************************)
EXTENDS Rationals, Sequences, SequencesExt

CONSTANTS
    Bars,       \* open, high, low, close, volume and the day and session a bar may have
    MaxBars,    \* bound: bars of a window
    Span,       \* the periods of the snapshot, scaled down, by their name in the source
    MinRanked,  \* values a percentile needs (5)
    NA          \* not a number

VARIABLE ks     \* the bars, oldest first

---------------------------------------------------------------------------
\* Series.  Scanned(Step, init, n)[i] is the state after the i-th bar.

Scanned(Step(_, _), init, n) ==
    Tail(FoldLeft(LAMBDA acc, i : Append(acc, Step(acc[Len(acc)], i)), <<init>>, [i \in 1..n |-> i]))
Each(F(_), n) == [i \in 1..n |-> F(i)] \o <<>>
Total(F(_), S) == MapThenFoldSet(LAMBDA a, b : a ++ b, Zero, F, LAMBDA T : CHOOSE t \in T : TRUE, S)
Window(i, p) == (i - p + 1)..i
AllReady(xs, S) == \A j \in S : xs[j] # NA
Top(xs, S) == LET b == CHOOSE j \in S : \A m \in S : xs[m] \preceq xs[j] IN xs[b]
Bottom(xs, S) == LET b == CHOOSE j \in S : \A m \in S : xs[j] \preceq xs[m] IN xs[b]
Percent(a, b) == (a // b) ** Whole(100)
Both(x, y, z) == IF x # NA /\ y # NA THEN z ELSE NA

highs(w) == Each(LAMBDA i : Whole(w[i].high), Len(w))
lows(w) == Each(LAMBDA i : Whole(w[i].low), Len(w))
closes(w) == Each(LAMBDA i : Whole(w[i].close), Len(w))
volumes(w) == Each(LAMBDA i : Whole(w[i].volume), Len(w))
typicalPrices(w) == Each(LAMBDA i : Frac(w[i].high + w[i].low + w[i].close, 3), Len(w))

\* The newest entry that is ready; of a record, with every field ready.
ReadyPoint(v) == v # NA /\ \A f \in DOMAIN v : v[f] # NA
last(xs) == LET R == {i \in DOMAIN xs : ReadyPoint(xs[i])} IN
    IF R = {} THEN NA ELSE xs[CHOOSE i \in R : \A j \in R : j <= i]

---------------------------------------------------------------------------
\* Moving averages.

\* Mutant: a hole does not start the window again.
smaThroughHoles(xs, p) ==
    LET Step(s, i) ==
            IF xs[i] = NA THEN s
            ELSE IF s.count = p THEN [sum |-> s.sum ++ (xs[i] -- (IF xs[i - p] = NA THEN Zero ELSE xs[i - p])), count |-> p]
            ELSE [sum |-> s.sum ++ xs[i], count |-> s.count + 1]
        s == Scanned(Step, [sum |-> Zero, count |-> 0], Len(xs))
    IN  Each(LAMBDA i : IF s[i].count = p THEN s[i].sum // Whole(p) ELSE NA, Len(xs))

\* A hole starts the window again.
sma(xs, p) ==
    LET Step(s, i) ==
            IF xs[i] = NA THEN [sum |-> Zero, count |-> 0]
            ELSE IF s.count = p THEN [sum |-> (s.sum ++ xs[i]) -- xs[i - p], count |-> p]
            ELSE [sum |-> s.sum ++ xs[i], count |-> s.count + 1]
        s == Scanned(Step, [sum |-> Zero, count |-> 0], Len(xs))
    IN  Each(LAMBDA i : IF s[i].count = p THEN s[i].sum // Whole(p) ELSE NA, Len(xs))

\* Seeded by the mean of the first p values, then v*a + prev*(1 - a); a hole
\* is passed over.
Smoothed(xs, p, a) ==
    LET Step(s, i) ==
            IF xs[i] = NA THEN [s EXCEPT !.out = NA]
            ELSE IF s.count < p
            THEN LET sum == s.acc ++ xs[i]
                     prev == sum // Whole(p)
                 IN  IF s.count + 1 = p THEN [acc |-> prev, count |-> p, out |-> prev]
                     ELSE [acc |-> sum, count |-> s.count + 1, out |-> NA]
            ELSE LET v == (xs[i] ** a) ++ (s.acc ** (Whole(1) -- a)) IN [acc |-> v, count |-> p, out |-> v]
        s == Scanned(Step, [acc |-> Zero, count |-> 0, out |-> NA], Len(xs))
    IN  Each(LAMBDA i : s[i].out, Len(xs))

ema(xs, p) == Smoothed(xs, p, Frac(2, p + 1))
rma(xs, p) == Smoothed(xs, p, Frac(1, p))

wma(xs, p) ==
    Each(LAMBDA i : IF i >= p /\ AllReady(xs, Window(i, p))
                    THEN Total(LAMBDA j : xs[j] ** Whole(j - i + p), Window(i, p)) // Frac(p * (p + 1), 2) ELSE NA, Len(xs))

dema(xs, p) == LET e1 == ema(xs, p)
                   e2 == ema(e1, p)
               IN  Each(LAMBDA i : Both(e1[i], e2[i], (Whole(2) ** e1[i]) -- e2[i]), Len(xs))
tema(xs, p) == LET e1 == ema(xs, p)
                   e2 == ema(e1, p)
                   e3 == ema(e2, p)
               IN  Each(LAMBDA i : Both(e2[i], e3[i], (Whole(3) ** (e1[i] -- e2[i])) ++ e3[i]), Len(xs))

\* The square of stdev.
variance(xs, p) ==
    Each(LAMBDA i : IF i >= p /\ AllReady(xs, Window(i, p))
                    THEN LET mean == Total(LAMBDA j : xs[j], Window(i, p)) // Whole(p)
                         IN  Total(LAMBDA j : (xs[j] -- mean) ** (xs[j] -- mean), Window(i, p)) // Whole(p)
                    ELSE NA, Len(xs))

---------------------------------------------------------------------------
\* Oscillators.

\* 100 - 100 / (1 + g / l), with the two degenerate cases.
Strength(g, l) == IF l = Zero THEN Whole(IF g = Zero THEN 50 ELSE 100)
                  ELSE Whole(100) -- (Whole(100) // (Whole(1) ++ (g // l)))

rsi(cl, p) ==
    LET move(i) == cl[i] -- cl[i - 1]
        gains == rma(Each(LAMBDA i : IF i = 1 THEN NA ELSE Larger(move(i), Zero), Len(cl)), p)
        losses == rma(Each(LAMBDA i : IF i = 1 THEN NA ELSE Larger(Zero -- move(i), Zero), Len(cl)), p)
    IN  Each(LAMBDA i : Both(gains[i], losses[i], Strength(gains[i], losses[i])), Len(cl))

macd(cl, fast, slow, signal) ==
    LET ef == ema(cl, fast)
        es == ema(cl, slow)
        line == Each(LAMBDA i : Both(ef[i], es[i], ef[i] -- es[i]), Len(cl))
        sig == ema(line, signal)
    IN  Each(LAMBDA i : [macd |-> line[i], signal |-> sig[i], hist |-> Both(line[i], sig[i], line[i] -- sig[i])], Len(cl))

\* Where v stands between the extremes of a window; a flat one is the middle.
Position(v, ll, hh) == IF hh = ll THEN Whole(50) ELSE Percent(v -- ll, hh -- ll)

stochastic(w, k, d, smooth) ==
    LET fast == Each(LAMBDA i : IF i < k THEN NA
                     ELSE Position(closes(w)[i], Bottom(lows(w), Window(i, k)), Top(highs(w), Window(i, k))), Len(w))
        slow == sma(fast, smooth)
        dv == sma(slow, d)
    IN  Each(LAMBDA i : [fast_k |-> fast[i], k |-> slow[i], d |-> dv[i]], Len(w))

stochRsi(cl, p) ==
    LET r == rsi(cl, p)
        ready(i) == {j \in Window(i, p) : j >= 1 /\ r[j] # NA}
    IN  Each(LAMBDA i : IF r[i] = NA \/ Cardinality(ready(i)) < p THEN NA
                        ELSE Position(r[i], Bottom(r, ready(i)), Top(r, ready(i))), Len(cl))

momentum(cl, p) == Each(LAMBDA i : IF i > p THEN cl[i] -- cl[i - p] ELSE NA, Len(cl))
roc(cl, p) == Each(LAMBDA i : IF i > p /\ cl[i - p] # Zero THEN Percent(cl[i], cl[i - p]) -- Whole(100) ELSE NA, Len(cl))
trix(cl, p) ==
    LET e3 == ema(ema(ema(cl, p), p), p)
    IN  Each(LAMBDA i : IF i > 1 /\ e3[i] # NA /\ e3[i - 1] # NA /\ e3[i - 1] # Zero
                        THEN Percent(e3[i] -- e3[i - 1], e3[i - 1]) ELSE NA, Len(cl))

chaikinAd(w) ==
    Scanned(LAMBDA acc, i : IF w[i].high > w[i].low
                THEN acc ++ Frac((2 * w[i].close - w[i].low - w[i].high) * w[i].volume, w[i].high - w[i].low) ELSE acc,
            Zero, Len(w))

\* The first bar of the window that holds its extreme.
FirstAt(S, Best(_)) == CHOOSE j \in S : Best(j) /\ \A m \in S : Best(m) => j <= m
aroon(w, p) ==
    LET S(i) == (i - p)..i
        hi(i) == FirstAt(S(i), LAMBDA j : \A m \in S(i) : w[m].high <= w[j].high)
        lo(i) == FirstAt(S(i), LAMBDA j : \A m \in S(i) : w[m].low >= w[j].low)
        age(i, j) == Percent(Whole(p - (i - j)), Whole(p))
    IN  Each(LAMBDA i : IF i <= p THEN [up |-> NA, down |-> NA, osc |-> NA]
                        ELSE [up |-> age(i, hi(i)), down |-> age(i, lo(i)), osc |-> age(i, hi(i)) -- age(i, lo(i))], Len(w))

cci(w, p) ==
    LET tp == typicalPrices(w)
        base == sma(tp, p)
        md(i) == Total(LAMBDA j : Gap(tp[j], base[i]), Window(i, p)) // Whole(p)
    IN  Each(LAMBDA i : IF base[i] = NA THEN NA ELSE IF md(i) = Zero THEN Zero
                        ELSE (tp[i] -- base[i]) // (Frac(15, 1000) ** md(i)), Len(w))

williamsR(w, p) ==
    Each(LAMBDA i : IF i < p THEN NA
                    ELSE Position(closes(w)[i], Bottom(lows(w), Window(i, p)), Top(highs(w), Window(i, p))) -- Whole(100), Len(w))

mfi(w, p) ==
    LET tp == typicalPrices(w)
        flow(S) == Total(LAMBDA j : tp[j] ** Whole(w[j].volume), S)
    IN  Each(LAMBDA i : IF i <= p THEN NA
                        ELSE Strength(flow({j \in Window(i, p) : tp[j - 1] \prec tp[j]}), flow({j \in Window(i, p) : tp[j] \prec tp[j - 1]})),
             Len(w))

obv(w) ==
    Scanned(LAMBDA acc, i : IF i = 1 \/ w[i].close = w[i - 1].close THEN acc
                ELSE IF w[i].close > w[i - 1].close THEN acc ++ Whole(w[i].volume) ELSE acc -- Whole(w[i].volume),
            Zero, Len(w))

---------------------------------------------------------------------------
\* Volatility and ranges.

trueRange(w) ==
    Each(LAMBDA i : IF i = 1 THEN Whole(w[1].high - w[1].low)
                    ELSE Top(<<Whole(w[i].high - w[i].low), Whole(Magnitude(w[i].high - w[i - 1].close)),
                               Whole(Magnitude(w[i].low - w[i - 1].close))>>, 1..3), Len(w))
atr(w, p) == rma(trueRange(w), p)

\* The bands are mid +- mult * sqrt(var).
bollinger(cl, p) ==
    LET mid == sma(cl, p)
        var == variance(cl, p)
    IN  Each(LAMBDA i : [mid |-> mid[i], var |-> Both(mid[i], var[i], var[i])], Len(cl))

keltner(w, p, mult) ==
    LET mid == ema(closes(w), p)
        a == atr(w, p)
    IN  Each(LAMBDA i : [mid |-> Both(mid[i], a[i], mid[i]), upper |-> Both(mid[i], a[i], mid[i] ++ (mult ** a[i])),
                         lower |-> Both(mid[i], a[i], mid[i] -- (mult ** a[i]))], Len(w))

\* sqrt(var) * mult < room, by squares.
Within(var, mult, room) == Zero \prec room /\ (mult ** mult) ** var \prec room ** room
squeeze(w, p, bbMult, kcMult) ==
    LET bb == bollinger(closes(w), p)
        kc == keltner(w, p, kcMult)
        on(i) == /\ bb[i].mid # NA /\ kc[i].mid # NA
                 /\ Within(bb[i].var, bbMult, kc[i].upper -- bb[i].mid) /\ Within(bb[i].var, bbMult, bb[i].mid -- kc[i].lower)
    IN  Scanned(LAMBDA s, i : [on |-> on(i), bars_on |-> IF on(i) THEN s.bars_on + 1 ELSE 0], [on |-> FALSE, bars_on |-> 0], Len(w))

Channel(w, p, i) == [upper |-> Top(highs(w), Window(i, p)), lower |-> Bottom(lows(w), Window(i, p))]
Middle(c) == (c.upper ++ c.lower) // Whole(2)
donchian(w, p) ==
    Each(LAMBDA i : IF i < p THEN [upper |-> NA, lower |-> NA, mid |-> NA]
                    ELSE LET c == Channel(w, p, i) IN [upper |-> c.upper, lower |-> c.lower, mid |-> Middle(c)], Len(w))

---------------------------------------------------------------------------
\* Trend.

\* A bar without any range leaves a hole in the directional index.
adx(w, p) ==
    LET up(i) == w[i].high - w[i - 1].high
        down(i) == w[i - 1].low - w[i].low
        moves(F(_)) == rma(Each(LAMBDA i : IF i = 1 THEN NA ELSE F(i), Len(w)), p)
        tr == moves(LAMBDA i : trueRange(w)[i])
        plus == moves(LAMBDA i : Whole(IF up(i) > down(i) /\ up(i) > 0 THEN up(i) ELSE 0))
        minus == moves(LAMBDA i : Whole(IF down(i) > up(i) /\ down(i) > 0 THEN down(i) ELSE 0))
        di(i, dm) == IF tr[i] = NA \/ tr[i] = Zero THEN NA ELSE Percent(dm[i], tr[i])
        pdi == Each(LAMBDA i : di(i, plus), Len(w))
        mdi == Each(LAMBDA i : di(i, minus), Len(w))
        dx == Each(LAMBDA i : IF pdi[i] = NA THEN NA ELSE IF pdi[i] ++ mdi[i] = Zero THEN Zero
                              ELSE Percent(Gap(pdi[i], mdi[i]), pdi[i] ++ mdi[i]), Len(w))
        smooth == rma(dx, p)
    IN  Each(LAMBDA i : [adx |-> smooth[i], plus_di |-> pdi[i], minus_di |-> mdi[i]], Len(w))

\* The bands only move in the favourable direction while the trend holds.
supertrend(w, p, mult) ==
    LET a == atr(w, p)
        hl2(i) == Frac(w[i].high + w[i].low, 2)
        cl == closes(w)
        Step(s, i) ==
            IF a[i] = NA THEN s
            ELSE LET bUp == hl2(i) ++ (mult ** a[i])
                     bDn == hl2(i) -- (mult ** a[i])
                 IN  IF s.up = NA THEN [up |-> bUp, dn |-> bDn, dir |-> IF hl2(i) \preceq cl[i] THEN 1 ELSE -1]
                     ELSE [up |-> IF bUp \prec s.up \/ s.up \prec cl[i - 1] THEN bUp ELSE s.up,
                           dn |-> IF s.dn \prec bDn \/ cl[i - 1] \prec s.dn THEN bDn ELSE s.dn,
                           dir |-> IF s.up \prec cl[i] THEN 1 ELSE IF cl[i] \prec s.dn THEN -1 ELSE s.dir]
        s == Scanned(Step, [up |-> NA, dn |-> NA, dir |-> 1], Len(w))
    IN  Each(LAMBDA i : [value |-> IF s[i].up = NA THEN NA ELSE IF s[i].dir = 1 THEN s[i].dn ELSE s[i].up, dir |-> s[i].dir], Len(w))

\* The direction of the first bar is that of the second.
psar(w, step, max) ==
    LET dir0 == IF w[2].close >= w[1].close THEN 1 ELSE -1
        lo == lows(w)
        hi == highs(w)
        two(i) == {i - 1, IF i >= 3 THEN i - 2 ELSE i - 1}
        first == [dir |-> dir0, sar |-> IF dir0 = 1 THEN lo[1] ELSE hi[1], ep |-> IF dir0 = 1 THEN hi[1] ELSE lo[1], af |-> step]
        Step(s, i) ==
            LET moved == s.sar ++ (s.af ** (s.ep -- s.sar))
                sar == IF s.dir = 1 THEN Smaller(moved, Bottom(lo, two(i))) ELSE Larger(moved, Top(hi, two(i)))
                faster == Smaller(max, s.af ++ step)
            IN  IF i = 1 THEN s
                ELSE CASE s.dir = 1 /\ lo[i] \prec sar -> [dir |-> -1, sar |-> s.ep, ep |-> lo[i], af |-> step]
                       [] s.dir = -1 /\ sar \prec hi[i] -> [dir |-> 1, sar |-> s.ep, ep |-> hi[i], af |-> step]
                       [] s.dir = 1 /\ ~(lo[i] \prec sar) /\ s.ep \prec hi[i] -> [s EXCEPT !.sar = sar, !.ep = hi[i], !.af = faster]
                       [] s.dir = -1 /\ ~(sar \prec hi[i]) /\ lo[i] \prec s.ep -> [s EXCEPT !.sar = sar, !.ep = lo[i], !.af = faster]
                       [] OTHER -> [s EXCEPT !.sar = sar]
        s == Scanned(Step, first, Len(w))
    IN  IF Len(w) < 2 THEN Each(LAMBDA i : [value |-> NA, dir |-> 1], Len(w))
        ELSE Each(LAMBDA i : [value |-> s[i].sar, dir |-> s[i].dir], Len(w))

\* chikou is the close of a later bar, drawn at the bar it belongs to.
ichimoku(w, conversion, base, spanB, displacement) ==
    LET midOf(p, i) == IF i < p THEN NA ELSE Middle(Channel(w, p, i))
        a(i) == Both(midOf(conversion, i), midOf(base, i), (midOf(conversion, i) ++ midOf(base, i)) // Whole(2))
        cloud(i, Pick(_, _)) == LET src == i - displacement IN
            IF src < 1 THEN NA ELSE Both(a(src), midOf(spanB, src), Pick(a(src), midOf(spanB, src)))
    IN  Each(LAMBDA i : [tenkan |-> midOf(conversion, i), kijun |-> midOf(base, i), senkou_a |-> a(i), senkou_b |-> midOf(spanB, i),
                         cloud_top |-> cloud(i, Larger), cloud_bottom |-> cloud(i, Smaller),
                         chikou |-> IF i + displacement <= Len(w) THEN closes(w)[i + displacement] ELSE NA], Len(w))

---------------------------------------------------------------------------
\* Volume.

\* The sums start again with each day or session; a bar before any volume
\* has no price.
vwap(w, anchor) ==
    LET bucket(i) == IF anchor = "all" THEN 0 ELSE w[i][anchor]
        same(i) == {j \in 1..i : \A m \in j..i : bucket(m) = bucket(i)}
        vol(i) == Total(LAMBDA j : Whole(w[j].volume), same(i))
    IN  Each(LAMBDA i : IF vol(i) = Zero THEN NA
                        ELSE Total(LAMBDA j : typicalPrices(w)[j] ** Whole(w[j].volume), same(i)) // vol(i), Len(w))

\* The volume of a bar is spread over the bins its range covers.
profileBins(w, bins) ==
    LET hi == Top(highs(w), DOMAIN w)
        lo == Bottom(lows(w), DOMAIN w)
        step == (hi -- lo) // Whole(bins)
        binOf(x) == LET b == Floor((x -- lo) // step) IN IF b > bins - 1 THEN bins - 1 ELSE b
        cover(k) == binOf(Whole(k.low))..binOf(Whole(k.high))
    IN  Each(LAMBDA b : Total(LAMBDA i : Frac(w[i].volume, Cardinality(cover(w[i]))), {i \in DOMAIN w : (b - 1) \in cover(w[i])}), bins)

\* From the bin with the most volume outward, always to the fatter side.
valueArea(acc, pct) ==
    LET n == Len(acc)
        all == Total(LAMBDA b : acc[b], 1..n)
        poc == FirstAt(1..n, LAMBDA b : \A m \in 1..n : acc[m] \preceq acc[b])
        side(b) == IF b \in 1..n THEN acc[b] ELSE Whole(-1)
        Grow(s, i) ==
            IF ~(s.covered \prec all ** pct) \/ (s.lo = 1 /\ s.hi = n) THEN s
            ELSE IF side(s.lo - 1) \preceq side(s.hi + 1)
            THEN [s EXCEPT !.hi = s.hi + 1, !.covered = s.covered ++ Larger(Zero, side(s.hi + 1))]
            ELSE [s EXCEPT !.lo = s.lo - 1, !.covered = s.covered ++ Larger(Zero, side(s.lo - 1))]
        area == Scanned(Grow, [lo |-> poc, hi |-> poc, covered |-> acc[poc]], n)[n]
    IN  [poc |-> poc, lo |-> area.lo, hi |-> area.hi]

volumeProfile(w, bins, pct) ==
    IF Len(w) < 2 \/ ~(Bottom(lows(w), DOMAIN w) \prec Top(highs(w), DOMAIN w)) THEN NA ELSE valueArea(profileBins(w, bins), pct)

---------------------------------------------------------------------------
\* Ranks and structure.

percentileRank(xs, window) ==
    LET seen(i) == {j \in Window(i, window) : j >= 1 /\ xs[j] # NA}
    IN  Each(LAMBDA i : IF xs[i] = NA \/ Cardinality(seen(i)) < MinRanked THEN NA
                        ELSE Percent(Whole(Cardinality({j \in seen(i) : xs[j] \preceq xs[i]})), Whole(Cardinality(seen(i)))), Len(xs))

\* A swing is confirmed by the bars on both sides of it.
swingPoints(w, left, right) ==
    LET near(i) == ((i - left)..(i + right)) \ {i}
        inner == {i \in DOMAIN w : i > left /\ i <= Len(w) - right}
    IN  [highs |-> {i \in inner : \A j \in near(i) : w[j].high < w[i].high},
         lows |-> {i \in inner : \A j \in near(i) : w[j].low > w[i].low}]

trendStrengthOf(x) == CASE x = NA -> "none"
                        [] x # NA /\ Whole(40) \preceq x -> "strong"
                        [] x # NA /\ Whole(25) \preceq x /\ x \prec Whole(40) -> "moderate"
                        [] x # NA /\ Whole(20) \preceq x /\ x \prec Whole(25) -> "weak"
                        [] OTHER -> "none"

---------------------------------------------------------------------------
\* What the model is shown: the last value of everything.

indicatorSnapshot(w) ==
    LET cl == closes(w)
        tip == cl[Len(w)]
        atrs == atr(w, Span.n14)
        atrPcts == Each(LAMBDA i : IF atrs[i] # NA /\ Zero \prec cl[i] THEN Percent(atrs[i], cl[i]) ELSE NA, Len(w))
        widths == Each(LAMBDA i : LET b == bollinger(cl, Span.n20)[i] IN IF b.var = NA THEN NA ELSE b.var // (b.mid ** b.mid), Len(w))
        adxLast == last(adx(w, Span.n14))
        adxValue == IF adxLast = NA THEN NA ELSE adxLast.adx
        e20 == last(ema(cl, Span.n20))
        e50 == last(ema(cl, Span.n50))
        day == last(vwap(w, "day"))
        atrLast == last(atrs)
        \* not last(): chikou is never ready at the newest bars
        ichi == ichimoku(w, Span.n14, Span.n20, Span.n50, Span.n14)[Len(w)]
        obvs == obv(w)
        back == Len(w) - Span.slope
        step == Total(LAMBDA i : Gap(obvs[i], obvs[i - 1]), (back + 1)..Len(w))
    IN  [atr14 |-> atrLast, adx14 |-> adxLast, ema20 |-> e20, ema50 |-> e50, vwap_day |-> day,
         vwap_session |-> last(vwap(w, "session")),
         atr_pct_rank_90 |-> last(percentileRank(atrPcts, Span.rank)),
         \* the squares of the widths rank alike
         bb_width_rank_90 |-> last(percentileRank(widths, Span.rank)),
         dist_to_vwap_atr |-> IF day # NA /\ atrLast # NA /\ Zero \prec atrLast THEN (tip -- day) // atrLast ELSE NA,
         rsi14 |-> last(rsi(cl, Span.n14)), macd |-> last(macd(cl, Span.n14, Span.n20, Span.n14)),
         bb |-> last(bollinger(cl, Span.n20)), donchian20 |-> last(donchian(w, Span.n20)),
         stoch |-> last(stochastic(w, Span.n14, Span.n14, Span.n14)), squeeze |-> squeeze(w, Span.n20, Whole(2), Frac(3, 2))[Len(w)],
         obv_slope |-> IF back < 1 THEN NA ELSE IF step = Zero THEN Zero ELSE (obvs[Len(w)] -- obvs[back]) // step,
         ichimoku |-> Both(ichi.tenkan, ichi.kijun, ichi),
         price_vs_cloud |-> IF ichi.tenkan = NA \/ ichi.kijun = NA \/ ichi.cloud_top = NA THEN NA
                            ELSE IF ichi.cloud_top \prec tip THEN "above" ELSE IF tip \prec ichi.cloud_bottom THEN "below" ELSE "in",
         trend_strength |-> trendStrengthOf(adxValue),
         trend |-> IF e20 = NA \/ e50 = NA \/ adxValue = NA \/ adxValue \prec Whole(20) THEN "flat"
                   ELSE IF e50 \prec e20 THEN "up" ELSE IF e20 \prec e50 THEN "down" ELSE "flat"]

---------------------------------------------------------------------------
IndicatorsInit == ks = <<>>
\* A bar closes; time only moves forward.
BarCloses == /\ Len(ks) < MaxBars
             /\ \E b \in Bars :
                  /\ ks # <<>> => b.session >= ks[Len(ks)].session
                  /\ ks' = Append(ks, b)

---------------------------------------------------------------------------
\* Every series of the library over the bars w, at small periods.
AllSeries(w) ==
    LET cl == closes(w)
        holes == Each(LAMBDA i : IF w[i].volume = 0 THEN NA ELSE cl[i], Len(w))
    IN  [sma |-> sma(holes, 2), ema |-> ema(holes, 3), wma |-> wma(cl, 2), dema |-> dema(cl, 2), tema |-> tema(cl, 2),
         rma |-> rma(holes, 2), rsi |-> rsi(cl, 2), macd |-> macd(cl, 1, 2, 2), stochastic |-> stochastic(w, 2, 2, 2),
         stochRsi |-> stochRsi(cl, 2), momentum |-> momentum(cl, 2), roc |-> roc(cl, 2), trix |-> trix(cl, 2),
         chaikinAd |-> chaikinAd(w), aroon |-> aroon(w, 2), cci |-> cci(w, 2), williamsR |-> williamsR(w, 2), mfi |-> mfi(w, 2),
         obv |-> obv(w), atr |-> atr(w, 2), bollinger |-> bollinger(cl, 3), keltner |-> keltner(w, 2, Frac(3, 2)),
         squeeze |-> squeeze(w, 2, Whole(2), Frac(3, 2)), donchian |-> donchian(w, 2), adx |-> adx(w, 2),
         supertrend |-> supertrend(w, 2, Whole(1)), vwap |-> vwap(w, "day"), rank |-> percentileRank(cl, 3)]
Hindsight(w) == [psar |-> psar(w, Frac(1, 4), Frac(1, 2)),
                 ichimoku |-> ichimoku(w, 1, 2, 3, 1)]

In(x, lo, hi) == x = NA \/ (Whole(lo) \preceq x /\ x \preceq Whole(hi))

\* The oscillators stay in their scale, averages inside the range they
\* average, and what is kept up incrementally (sma, the squeeze counter, the
\* ratchets) is what its definition says over the whole window.
Sound(w) ==
    LET s == AllSeries(w)
        n == Len(w)
        cl == closes(w)
        holes == Each(LAMBDA i : IF w[i].volume = 0 THEN NA ELSE cl[i], n)
        prof == profileBins(w, 3)
        va == volumeProfile(w, 3, Frac(7, 10))
        vols == Total(LAMBDA i : Whole(w[i].volume), 1..n)
    IN  /\ \A i \in 1..n :
             /\ s.sma[i] = IF i >= 2 /\ AllReady(holes, Window(i, 2)) THEN (holes[i - 1] ++ holes[i]) // Whole(2) ELSE NA
             /\ \A x \in {s.rsi[i], s.stochRsi[i], s.mfi[i], s.aroon[i].up, s.aroon[i].down, s.stochastic[i].d, s.adx[i].adx, s.rank[i]} : In(x, 0, 100)
             /\ In(s.williamsR[i], -100, 0)
             /\ s.vwap[i] # NA => \E a, b \in 1..i : /\ w[a].day = w[i].day /\ w[b].day = w[i].day
                                                     /\ Whole(w[a].low) \preceq s.vwap[i] /\ s.vwap[i] \preceq Whole(w[b].high)
             /\ s.squeeze[i].bars_on = Cardinality({j \in 1..i : \A m \in j..i : s.squeeze[m].on})
             /\ i > 1 /\ s.supertrend[i].value # NA /\ s.supertrend[i - 1].value # NA /\ s.supertrend[i].dir = s.supertrend[i - 1].dir
                  => IF s.supertrend[i].dir = 1 THEN s.supertrend[i - 1].value \preceq s.supertrend[i].value
                     ELSE s.supertrend[i].value \preceq s.supertrend[i - 1].value
        /\ va # NA => /\ Total(LAMBDA b : prof[b], 1..3) = vols
                      /\ va.poc \in va.lo..va.hi
                      /\ vols ** Frac(7, 10) \preceq Total(LAMBDA b : prof[b], va.lo..va.hi)

\* A new bar only appends to every series: what a judgment saw is what a
\* replay over more bars computes for the same bar, so no indicator looks
\* ahead.  The two that do are held to what they promise: the parabolic SAR
\* is fixed from the second bar on and the lagging span of the Ichimoku is
\* the close of a later bar that has arrived; a confirmed swing stays.
Causal(w, v) ==
    /\ LET a == AllSeries(w)
           b == AllSeries(v)
       IN  \A f \in DOMAIN a : IsPrefix(a[f], b[f])
    /\ LET a == Hindsight(w)
           b == Hindsight(v)
       IN  /\ Len(w) >= 2 => IsPrefix(a.psar, b.psar)
           /\ \A i \in DOMAIN w : \A f \in DOMAIN a.ichimoku[i] :
                 a.ichimoku[i][f] = b.ichimoku[i][f] \/ (f = "chikou" /\ i = Len(w))
    /\ \A f \in {"highs", "lows"} : swingPoints(w, 1, 1)[f] \subseteq swingPoints(v, 1, 1)[f]

\* The series that judgments, backtests and charts read: causal and sound.
SeriesCausal == [][ks' # <<>> => Causal(ks, ks') /\ Sound(ks')]_ks

\* Known not to hold: the snapshot skips what is not ready at the newest bar
\* and shows an older value, as the volume-weighted price of the day before
\* while the new day has no volume yet.
SnapshotIsCurrent == ks # <<>> => indicatorSnapshot(ks).vwap_day \in {vwap(ks, "day")[Len(ks)], NA}
=============================================================================
