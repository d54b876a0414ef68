-------------------------------- MODULE Fits ---------------------------------
(***************************************************************************)
(* How well a strategy fits a symbol at its newest bar: the conditions and *)
(* the score of the screener's cards (screener.ts fitConditions, score,    *)
(* expectancyFor, buildCard) and the checklist lines a judgment is given   *)
(* for the same strategies (strategies.ts STRATEGY_EVIDENCE).  The two are *)
(* separate code for one question; the property compares them.             *)
(*                                                                         *)
(* Scores are k/14 or k/10 and the like: rounding them to three decimals,  *)
(* as score() does, neither merges nor reorders two of them.               *)
(***************************************************************************)
EXTENDS BarMetrics

CONSTANTS
    Specs,      \* the strategies in the order of their names: id and parameters
    Cooldown    \* bars between two setups

---------------------------------------------------------------------------
\* strategies.ts

\* Mean and variance of the rates up to now; none from fewer than two, and
\* no z-score where they are all the same.
fundingZScore(now) ==
    LET S == {i \in DOMAIN Fundings : Fundings[i].at <= now}
        m == Mean(LAMBDA i : Fundings[i].rate, S)
        var == Total(LAMBDA i : (Fundings[i].rate -- m) ** (Fundings[i].rate -- m), S) // Whole(Cardinality(S) - 1)
    IN  IF Cardinality(S) < 2 \/ var = Zero THEN NA ELSE [mean |-> m, var |-> var]
\* |z| >= k, by squares.
Extreme(z, rate, k) == z # NA /\ (k ** k) ** z.var \preceq (rate -- z.mean) ** (rate -- z.mean)

\* What the judgment is told; nothing where the bars do not suffice.
compressionEvidence(w, f, p) ==
    LET snap == indicatorSnapshot(w)
        compressed == \/ snap.bb_width_rank_90 # NA /\ snap.bb_width_rank_90 \preceq p.bb_width_rank_max
                      \/ squeeze(w, Span.n20, Whole(2), Frac(3, 2))[Len(w)].bars_on >= p.squeeze_bars_min
    IN  IF Len(w) < Warm THEN {} ELSE {c \in {"compressed", "expanded"} : compressed /\ (c = "expanded" => p.vol_spike_min \preceq f.vol_ratio_20)}
fundingEvidence(now, rate, p) ==
    IF rate # NA /\ p.funding_abs_min \preceq Gap(rate, Zero) /\ Extreme(fundingZScore(now), rate, p.funding_z_min) THEN {"extreme"} ELSE {}
reversionEvidence(w, f, regime, p) ==
    LET dev == IF Zero \prec f.atr14 THEN (f.last_close -- f.ema20) // f.atr14 ELSE NA
        x == IF Len(w) >= Warm THEN indicatorSnapshot(w).adx14 ELSE NA
    IN  [side |-> IF dev # NA /\ Zero \prec dev THEN "short" ELSE "long",
         holds |-> {c \in {"ranging", "deviation"} :
                      IF c = "ranging" THEN regime = "range" \/ (x # NA /\ x.adx \prec p.adx_max)
                      ELSE dev # NA /\ p.dev_atr_min \preceq Gap(dev, Zero)}]

---------------------------------------------------------------------------
\* screener.ts

cond(pass, near) == [pass |-> pass, near |-> ~pass /\ near]
score(conds) ==
    LET passed == {c \in DOMAIN conds : conds[c].pass}
        near == {c \in DOMAIN conds : conds[c].near}
    IN  Frac(2 * Cardinality(passed) + Cardinality(near), 2 * Cardinality(DOMAIN conds))

\* The parameters of a strategy as thresholds; a breakout is always judged
\* by the bars before it.
thresholdsFor(spec, base) ==
    [base EXCEPT !.breakout_level = "prior", !.vol_mode = "either", !.breakout_window = spec.params.breakout_window,
                 !.retest_vol_min = spec.params.retest_vol_min]

fitConditions(spec, base, w, m, now) ==
    LET p == spec.params
        mtf == spec.id = "mtf_alignment"
        th == IF mtf THEN [thresholdsFor(spec, base) EXCEPT !.trend_mode = "h1_veto", !.h4_veto_atr = p.veto_atr] ELSE thresholdsFor(spec, base)
        ev == evaluateBar(m, th)
        snap == indicatorSnapshot(w)
        ready == Len(w) >= Warm
        long == ev.dir = "long"
        since == IF long THEN m.since_up ELSE m.since_down
        breakVol == IF long THEN m.break_vol_up ELSE m.break_vol_down
        most(x, y) == IF y = NA THEN x ELSE Larger(x, y)
        holds(c) == c \in ev.pass
        fIdx == lastFundingIndex(now)
        rate == IF fIdx = 0 THEN NA ELSE Fundings[fIdx].rate
        settles == IF fIdx = Len(Fundings) THEN NA ELSE Fundings[fIdx + 1].at - now
        z == fundingZScore(now)
        part(x, n, d) == x ** Frac(n, d)
        adxNow == IF ready /\ snap.adx14 # NA THEN snap.adx14.adx ELSE NA
        rank == IF ready THEN snap.bb_width_rank_90 ELSE NA
        bars == IF ready THEN snap.squeeze.bars_on ELSE 0
        dev == IF Zero \prec m.atr THEN (m.close -- m.ema20) // m.atr ELSE NA
        off == IF dev = NA THEN Zero ELSE Gap(dev, Zero)
        cell == reversionCell(w, 1, p.dev_atr_min, p.horizon_bars)
        atrOk == cond(holds("atr_ok"), part(th.atr_floor, 8, 10) \preceq m.atr_pct)
        trend == cond(holds("trend_agree"), m.dir_h1 # NA)
        chase == cond(holds("within_chase"), Gap(m.close, ev.level) \preceq part(th.chase_atr_max ** m.atr, 5, 4))
        broke == cond(holds("breakout"), since # NA /\ since < 2 * th.breakout_window)
        volume == cond(holds("retest_vol"), part(th.retest_vol_min, 8, 10) \preceq most(m.vol_ratio, breakVol))
    IN  CASE spec.id = "breakout_retest" ->
               [conditions |-> [atr_ok |-> atrOk, trend_agree |-> trend, within_chase |-> chase, breakout |-> broke, retest_vol |-> volume,
                                funding_ok |-> cond(holds("funding_ok"), FALSE), regime_ok |-> cond(holds("regime_ok"), FALSE)],
                direction |-> ev.dir_trend, thresholds |-> th]
          [] spec.id = "mtf_alignment" ->
               [conditions |-> [atr_ok |-> atrOk, confirm_dir |-> trend, within_chase |-> chase, breakout |-> broke,
                                regime_ok |-> cond(holds("regime_ok"), FALSE)],
                direction |-> ev.dir_trend, thresholds |-> th]
          [] spec.id = "vol_compression_expansion" ->
               [conditions |-> [compressed |-> cond((rank # NA /\ rank \preceq p.bb_width_rank_max) \/ (ready /\ bars >= p.squeeze_bars_min),
                                                    (rank # NA /\ rank \preceq part(p.bb_width_rank_max, 3, 2)) \/ (ready /\ 10 * bars >= 6 * p.squeeze_bars_min)),
                                expansion_vol |-> cond(p.vol_spike_min \preceq most(m.vol_ratio, breakVol),
                                                       part(p.vol_spike_min, 8, 10) \preceq most(m.vol_ratio, breakVol)),
                                breakout |-> broke, within_chase |-> chase, atr_ok |-> atrOk],
                direction |-> IF holds("breakout") THEN ev.dir ELSE NA, thresholds |-> th]
          [] spec.id = "funding_oi_extreme" ->
               [conditions |-> [funding_abs |-> cond(rate # NA /\ p.funding_abs_min \preceq Gap(rate, Zero), rate # NA /\ part(p.funding_abs_min, 7, 10) \preceq Gap(rate, Zero)),
                                funding_z |-> cond(rate # NA /\ Extreme(z, rate, p.funding_z_min), rate # NA /\ Extreme(z, rate, part(p.funding_z_min, 7, 10))),
                                not_settling |-> cond(settles = NA \/ settles > p.before_funding, FALSE), atr_ok |-> atrOk],
                direction |-> IF rate = NA THEN NA ELSE IF Gap(rate, Zero) \prec p.funding_abs_min THEN NA ELSE IF Zero \prec rate THEN "short" ELSE "long",
                thresholds |-> th]
          [] spec.id = "range_mean_reversion" ->
               [conditions |-> [ranging |-> cond(m.regime = "range" \/ (adxNow # NA /\ adxNow \prec p.adx_max), adxNow # NA /\ adxNow \prec part(p.adx_max, 5, 4)),
                                deviation |-> cond(dev # NA /\ p.dev_atr_min \preceq off, dev # NA /\ part(p.dev_atr_min, 7, 10) \preceq off),
                                reversion_prob |-> cond(cell.prob # NA /\ p.min_reversion_prob \preceq cell.prob,
                                                        cell.prob # NA /\ part(p.min_reversion_prob, 8, 10) \preceq cell.prob),
                                atr_ok |-> atrOk],
                direction |-> IF dev = NA THEN NA ELSE IF off \prec part(p.dev_atr_min, 7, 10) THEN NA ELSE IF Zero \prec dev THEN "short" ELSE "long",
                thresholds |-> th]
          \* a strategy of the user's own
          [] OTHER -> [conditions |-> [atr_ok |-> atrOk, trend_agree |-> trend, within_chase |-> chase, breakout |-> cond(holds("breakout"), FALSE),
                                       retest_vol |-> cond(holds("retest_vol"), FALSE)],
                       direction |-> ev.dir_trend, thresholds |-> th]

\* Setups at least a cooldown apart, the first of each.
dedupeHits(hits) == FoldLeft(LAMBDA out, i : IF out # <<>> /\ i - out[Len(out)] < Cooldown THEN out ELSE Append(out, i), <<>>, hits)

\* Only of the strategies whose conditions are those of a bar.
expectancyFor(spec, base, w) ==
    IF spec.id \notin {"breakout_retest", "mtf_alignment"} THEN NA
    ELSE LET th == IF spec.id = "mtf_alignment" THEN [thresholdsFor(spec, base) EXCEPT !.trend_mode = "h1_veto", !.h4_veto_atr = spec.params.veto_atr]
                   ELSE thresholdsFor(spec, base)
             ms == computeMetrics(w)
             hits == SetToSortSeq({i \in DOMAIN ms : ms[i] # NA /\ evaluateBar(ms[i], th).joint}, LAMBDA a, b : a < b)
             kept == dedupeHits(hits)
             r(i) == scoreCandidate(w, i, ms[i], evaluateBar(ms[i], th), Frac(4, 5), Frac(3, 2))
             scored == {i \in Range(kept) : r(i) # NA}
         IN  [setups |-> kept, n |-> Cardinality(scored),
              win_rate |-> IF scored = {} THEN NA ELSE Frac(Cardinality({i \in scored : Zero \prec r(i)}), Cardinality(scored)),
              expectancy_r |-> IF scored = {} THEN NA ELSE Mean(r, scored)]

\* The best strategy first; ties by name.
buildCard(base, w) ==
    LET n == Len(w)
        m == computeMetrics(w)[n]
        fit(i) == LET f == fitConditions(Specs[i], base, w, m, n) IN f @@ [id |-> Specs[i].id, at |-> i, fit_score |-> score(f.conditions)]
        fits == SetToSortSeq({fit(i) : i \in DOMAIN Specs},
                             LAMBDA a, b : b.fit_score \prec a.fit_score \/ (b.fit_score = a.fit_score /\ a.at < b.at))
    IN  IF n = 0 \/ m = NA THEN NA
        ELSE [strategies |-> fits, best |-> fits[1], agree |-> IF m.dir_h1 # NA /\ m.dir_h1 = m.dir_h4 THEN m.dir_h1 ELSE NA]

---------------------------------------------------------------------------
FundingNow(n) == LET i == lastFundingIndex(n) IN IF i = 0 THEN NA ELSE Fundings[i].rate
Recent(w) == SubSeq(w, IF Len(w) > Fetched THEN Len(w) - Fetched + 1 ELSE 1, Len(w))
Full(f) == \A c \in DOMAIN f.conditions : f.conditions[c].pass

\* A card and the judgment that follows it agree: a strategy that fits in
\* full has a direction and, where its conditions are those of a bar, is a
\* setup; its checklist line says the same of the same bar; the best of a
\* card is fitted best; setups keep their distance.
CardAgrees(base, w) ==
    LET n == Len(w)
        m == computeMetrics(w)[n]
        card == buildCard(base, w)
        f == Feature(Recent(w))
    IN  card # NA =>
          /\ \A i \in DOMAIN card.strategies :
               LET fit == card.strategies[i]
                   spec == Specs[fit.at]
                   held(c) == fit.conditions[c].pass
               IN  /\ fit.fit_score \preceq card.best.fit_score
                   /\ Full(fit) <=> fit.fit_score = Whole(1)
                   /\ Full(fit) => fit.direction # NA
                   /\ fit.id = "breakout_retest" => (Full(fit) <=> evaluateBar(m, fit.thresholds).joint)
                   /\ fit.id = "vol_compression_expansion" =>
                        LET e == compressionEvidence(w, f, spec.params) IN
                        /\ "compressed" \in e <=> held("compressed")
                        /\ "expanded" \in e => held("expansion_vol")
                   /\ fit.id = "funding_oi_extreme" =>
                        (fundingEvidence(n, FundingNow(n), spec.params) # {} <=> held("funding_abs") /\ held("funding_z"))
                   /\ fit.id = "range_mean_reversion" =>
                        LET e == reversionEvidence(w, f, m.regime, spec.params) IN
                        /\ \A c \in {"ranging", "deviation"} : c \in e.holds <=> held(c)
                        /\ fit.direction # NA => fit.direction = e.side
          /\ \A s \in Range(Specs) : LET x == expectancyFor(s, base, w) IN
               x # NA => \A i \in 1..(Len(x.setups) - 1) : x.setups[i + 1] - x.setups[i] >= Cooldown

\* More bars add setups and never take one back.
SetupsStay(base, w, v) ==
    \A s \in Range(Specs) : expectancyFor(s, base, w) # NA => IsPrefix(expectancyFor(s, base, w).setups, expectancyFor(s, base, v).setups)

\* The rows, the checklists, the cards and the outcomes agree with each other
\* and look only at closed bars (bar-metrics.ts, review-metrics.ts,
\* screener.ts, strategies.ts, outcome.ts).
BarsAgree ==
    [][LET base == CHOOSE th \in Thresholds : th.trend_mode = "both" /\ th.breakout_level = "prior" /\ th.breakout_window = 1
       IN  /\ ks # <<>> => RowsStay(ks, ks') /\ SetupsStay(base, ks, ks')
           /\ ks' # <<>> => SameBar(ks') /\ PessimisticAhead(ks') /\ CardAgrees(base, ks')]_ks
=============================================================================
