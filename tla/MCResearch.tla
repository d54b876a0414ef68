------------------------------ MODULE MCResearch ------------------------------
(***************************************************************************)
(* The parts of the desk that share no state with each other, checked in   *)
(* one run: sizing, the series on bars, the kline cache, the strategy      *)
(* library, the screener, episodes with the information officer, and what  *)
(* the gateway and execd must agree on: messages, status machines and      *)
(* streams of bytes.  A behaviour is one of a single area; the variables   *)
(* of the others stay at one of their initial values.                      *)
(***************************************************************************)
EXTENDS Sizing, Fits, Klines, Strategies, Screener, Contracts, Judgments

VARIABLE area

--------------------------------------------------------------------------
MCProposal(d, e, l, s, t, c) == [direction |-> d, entry |-> e, limit_price |-> l, stop_price |-> Whole(s),
                                 take_profit_price |-> t, confidence |-> Frac(c, 10)]
MCProposals == {MCProposal("long", "market", Nothing, 96, Nothing, 6),
                MCProposal("long", "limit", Whole(102), 97, Whole(110), 6),
                MCProposal("long", "limit", Whole(98), 97, Whole(110), 6),
                MCProposal("short", "limit", Whole(98), 103, Nothing, 4),
                MCProposal("short", "market", Nothing, 104, Whole(90), 4),
                MCProposal("short", "market", Nothing, 104, Whole(120), 4),
                MCProposal("long", "market", Nothing, 96, Nothing, 3)}
MCRuleSets == {[step_size |-> s, min_qty |-> Frac(1, 10), max_qty |-> Whole(x), min_notional |-> Whole(n)] :
                  s \in {Frac(1, 10), Whole(1), Zero}, x \in {0, 3}, n \in {0, 20, 101}}
MCMarks == {Whole(95), Whole(100), Whole(102)}
MCEquities == {Whole(100), Whole(400)}
MCRiskPcts == {Frac(1, 2), Whole(2)}
MCCalm == [halted |-> FALSE, paused |-> FALSE, held |-> FALSE, opens |-> 0, stale |-> FALSE]
MCSituations == {MCCalm, [MCCalm EXCEPT !.halted = TRUE], [MCCalm EXCEPT !.held = TRUE],
                 [MCCalm EXCEPT !.opens = 2], [MCCalm EXCEPT !.stale = TRUE], [MCCalm EXCEPT !.paused = TRUE]}
MCMinStop == Frac(3, 10)
MCMaxStop == Whole(5)
MCMultiple == Whole(3)
MCConfidence == Frac(2, 5)
MCRiskTolerance == Frac(105, 100)
MCCapTolerance == Frac(10001, 10000)

--------------------------------------------------------------------------
MCBar(o, h, l, c, v, d, s) == [open |-> o, high |-> h, low |-> l, close |-> c, volume |-> v, day |-> d, session |-> s]
MCBars == {MCBar(5, 7, 4, 6, 2, 0, 0), MCBar(6, 6, 3, 3, 1, 0, 1), MCBar(4, 9, 4, 9, 3, 1, 2), MCBar(5, 5, 5, 5, 0, 1, 2)}
MCSpan == [n14 |-> 1, n20 |-> 2, n50 |-> 3, slope |-> 2, rank |-> 3]
MCBase == [trend_mode |-> "both", breakout_level |-> "prior", breakout_window |-> 1, vol_mode |-> "current",
           retest_vol_min |-> Whole(1), atr_floor |-> Whole(1), chase_atr_max |-> Frac(3, 2), h4_veto_atr |-> Whole(1),
           funding_abs_max |-> Frac(5, 100), require_trend_regime |-> FALSE, range_vol_min |-> Frac(3, 2)]
MCThresholds == {MCBase, [MCBase EXCEPT !.breakout_level = "self"], [MCBase EXCEPT !.breakout_window = 2],
                 [MCBase EXCEPT !.trend_mode = "h1_veto", !.vol_mode = "either", !.breakout_window = 2, !.require_trend_regime = TRUE]}
MCFundings == <<[at |-> 1, rate |-> Frac(6, 100)], [at |-> 4, rate |-> Frac(-1, 100)], [at |-> 6, rate |-> Frac(4, 100)]>>
MCSpecParams == [breakout_window |-> 2, retest_vol_min |-> Whole(1), veto_atr |-> Whole(1), bb_width_rank_max |-> Whole(50),
                 squeeze_bars_min |-> 2, vol_spike_min |-> Frac(3, 2), funding_abs_min |-> Frac(1, 100), funding_z_min |-> Frac(1, 2),
                 adx_max |-> Whole(40), dev_atr_min |-> Frac(1, 4), before_funding |-> 1, horizon_bars |-> 1, min_reversion_prob |-> Frac(1, 2)]
MCSpecIds == <<"breakout_retest", "custom", "funding_oi_extreme", "mtf_alignment", "range_mean_reversion", "vol_compression_expansion">>
MCSpecs == [i \in 1..6 |-> [id |-> MCSpecIds[i], params |-> MCSpecParams]]

--------------------------------------------------------------------------
MCBuiltIn == ("br" :> [params |-> [win |-> 1, vol |-> 1], status |-> "paper"])
MCRelaxed == [id |-> "br", params |-> [win |-> 2, vol |-> 2]]

MCLine(s, t, i) == [symbol |-> s, strategy |-> t, invented |-> i]
MCSymbols == <<"A", "B", "C">>
MCCardFits == {[fits |-> [x |-> 2, y |-> 1], expectancy |-> 0], [fits |-> [x |-> 0, y |-> 1], expectancy |-> 1],
               [fits |-> [x |-> 1, y |-> 0], expectancy |-> 0], [fits |-> NoCard, expectancy |-> 0]}
\* Two lines about one symbol, one about a symbol that was not asked for, one
\* with an unknown strategy and one with an invented number.
MCAnswers == {<<MCLine("B", "x", FALSE), MCLine("Z", "x", FALSE), MCLine("A", "x", FALSE), MCLine("C", "z", FALSE),
                MCLine("C", "y", TRUE), MCLine("B", "y", FALSE)>>}
MCWhitelist == <<"B", "D", "C">>
MCPicks == {<<>>, <<"Z", "A">>, <<"B">>}
MCEarlier ==
    LET c == <<[symbol |-> "C", fits |-> [x |-> 2, y |-> 1], expectancy |-> 0], [symbol |-> "B", fits |-> [x |-> 0, y |-> 1], expectancy |-> 0]>>
    IN  <<[status |-> "done", horizon |-> "swing", at |-> 0, symbols |-> <<"B", "C">>, cards |-> c, candidates |-> Candidates(c),
           proposal |-> <<"C", "B">>, lines |-> <<>>]>>

--------------------------------------------------------------------------
\* Two feeds that share links and titles; an officer whose model answers well,
\* badly or not at all; answers that go wrong in every part of the contract.
\* Line 5 of a scan is computed, line 4 a price or computed, line 7 and beyond
\* the officer's or the account.
Reason(cites, caught) == [cites |-> cites, caught |-> caught]
Buy == [direction |-> "long", entry |-> "limit", limit_price |-> 99, stop_price |-> 95, take_profit_price |-> Null,
        take_profits |-> <<110>>, entry_zone |-> <<99, 98>>]
Good == [told |-> TRUE, action |-> "PROPOSE", direction |-> "long", reasons |-> {Reason({1, 5}, {1})},
         evidence_refs |-> {1, 5}, strategy_id |-> "breakout", proposal |-> Buy]
MCReplies ==
  { Malformed, Good,
    [Good EXCEPT !.direction = Null, !.evidence_refs = {3}],
    [Good EXCEPT !.evidence_refs = {4, 7}, !.proposal.take_profit_price = 110, !.proposal.take_profits = <<90>>],
    [Good EXCEPT !.direction = "short"],
    [Good EXCEPT !.strategy_id = Null],
    [Good EXCEPT !.evidence_refs = {40}],
    [Good EXCEPT !.proposal.stop_price = Null],
    [Good EXCEPT !.action = "WATCH"],
    [Good EXCEPT !.action = "HOLD", !.direction = Null, !.proposal = Null],
    [Good EXCEPT !.action = "EXIT", !.reasons = {Reason({40}, {})}] }

Item(keys, at) == [keys |-> keys, at |-> at]
MCFeeds ==
  { <<<<Item({"a"}, 0), Item({"b", "c"}, 1), Item({"c"}, 2)>>, <<Item({"a"}, 2), Item({"d"}, 3)>>>>,
    <<Malformed, <<Item({"d"}, 3)>>>> }
MCMaxAge == <<2, 3>>

Note(ref, relevant) == [ref |-> ref, relevant |-> relevant]
Summary == [told |-> TRUE, news |-> <<Note(1, TRUE)>>, candidates |-> {[symbol |-> "A", direction |-> "long"]}, risk |-> FALSE]
MCSummaries ==
  { Malformed, Summary,
    [Summary EXCEPT !.news = <<Note(2, FALSE), Note(1, TRUE)>>, !.risk = TRUE],
    [Summary EXCEPT !.news = <<>>, !.candidates = {[symbol |-> "Q", direction |-> "long"]}] }

MCViews == { [funding |-> TRUE, open_interest |-> FALSE, computed |-> 1],
             [funding |-> FALSE, open_interest |-> FALSE, computed |-> 0] }
MCOffers == {{}, {"breakout"}}
MCWatch == {"A", "B"}

--------------------------------------------------------------------------
Init ==
    /\ area \in {"sizing", "bars", "klines", "library", "screener", "judgments", "wire", "status", "bytes"}
    /\ SizingInit
    /\ area # "sizing" => /\ order = CHOOSE o \in [proposal : Proposals, rules : parse_symbol_rules(RuleSets), situation : Situations] : TRUE
                          /\ mark = Whole(100) /\ equity = Whole(100) /\ risk_pct = Whole(2)
    /\ IndicatorsInit
    /\ KlinesInit /\ (area # "klines" => clock = 0)
    /\ LibraryInit /\ (area # "library" => \A id \in Strategies : library[id] = <<>>)
    /\ ScreenerInit
    /\ area # "screener" => /\ settings.watchlist_max = 1 /\ settings.apply = "propose"
                            /\ settings.universe = "explicit" /\ ~settings.use_brain
    /\ JudgmentsInit
    /\ ContractsInit
    /\ area # "status" => lifecycle.machine = "intent_status"

deskVars == <<sizingVars, ks, klineVars, libraryVars, screenVars, judgmentVars>>

Next ==
    /\ UNCHANGED area
    /\ \/ /\ UNCHANGED contractVars
          /\ \/ area = "sizing"   /\ SizingNext   /\ UNCHANGED <<ks, klineVars, libraryVars, screenVars, judgmentVars>>
             \/ area = "bars"     /\ BarCloses    /\ UNCHANGED <<sizingVars, klineVars, libraryVars, screenVars, judgmentVars>>
             \/ area = "klines"   /\ KlinesNext   /\ UNCHANGED <<sizingVars, ks, libraryVars, screenVars, judgmentVars>>
             \/ area = "library"  /\ LibraryNext  /\ UNCHANGED <<sizingVars, ks, klineVars, screenVars, judgmentVars>>
             \/ area = "screener" /\ ScreenerNext /\ UNCHANGED <<sizingVars, ks, klineVars, libraryVars, judgmentVars>>
             \/ area = "judgments" /\ JudgmentsNext /\ UNCHANGED <<sizingVars, ks, klineVars, libraryVars, screenVars>>
       \/ /\ UNCHANGED deskVars
          /\ \/ area = "wire"     /\ WireNext      /\ UNCHANGED <<lifecycle, stream>>
             \/ area = "status"   /\ StatusChanges /\ UNCHANGED <<wire, stream>>
             \/ area = "bytes"    /\ ChunkArrives  /\ UNCHANGED <<wire, lifecycle>>

Spec == Init /\ [][Next]_<<area, deskVars, contractVars>>

(***************************************************************************)
(* Formulas known to fail; see the README.                                 *)
(***************************************************************************)

\* Only evidence_refs is compared with the marks; a reason may
\* rest on a line that was STALE.
ReasonsAreFresh ==
    episode.opened => \A r \in episode.judgment.reasons : r.cites \cap staleRefs(episode.evidence) = {}

\* The officer's line is fresh evidence also when the model
\* failed and the line says so.
CitedBriefIsWritten ==
    episode.opened => \A i \in episode.judgment.evidence_refs : episode.evidence[i].of = "brief" => ~brief.error

\* After two malformed answers in the review of an ended thread
\* the fail-closed HOLD is recorded as an illegal action of the model.
IllegalIsTheModels == episode.illegal # Null => \E i \in DOMAIN episode.tried : episode.tried[i] = episode.illegal

\* The guard tp_side of the graph (graph.ts GUARDS): the target that is placed lies on
\* the profit side of the entry.  Fails: the gate compares take_profit_price,
\* executeOpen places the first of take_profits.
TargetIsAhead ==
    episode.opened => LET p == episode.judgment.proposal IN p.take_profits # <<>> => IsAhead(p, p.take_profits[1])
=============================================================================
