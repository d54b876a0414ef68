------------------------------ MODULE Judgments ------------------------------
(***************************************************************************)
(* What a model is shown and what of its answer counts: the evidence       *)
(* registry (context.ts), the contract of an answer (schema.ts), the two   *)
(* attempts and the fail-closed answer of an episode (runtime.ts           *)
(* executeEpisode), the gate on fresh evidence (gates.ts), and the market  *)
(* state of the information officer (info.ts), which is evidence of later  *)
(* episodes.  One job runs at a time; time passes while a model thinks.    *)
(*                                                                         *)
(* An answer is the record of what the validator tells apart.  Null is an  *)
(* absent value, Malformed one of the wrong type or form; texts are        *)
(* reduced to whether they are there, lists of refs to sets.  A list over  *)
(* its limit is cut before it is checked, and so is one of the shorter     *)
(* ones.                                                                   *)
(***************************************************************************)
EXTENDS JudgmentGraph, Integers, Sequences, SequencesExt

CONSTANTS
    Null, Malformed,
    Symbol, Watch,          \* the symbol that is judged, the watch list
    Mark,                   \* its mark price
    Offers,                 \* sets of strategy ids that episodes offer
    Replies, Summaries,     \* answers of the two models; Malformed: no JSON object
    Feeds,                  \* what the news sources may answer: sequences of feeds
    Views,                  \* [funding, open_interest, computed]: which optional lines there are
    MaxAge,                 \* of the items of each source: max_age_hours or NEWS_MAX_AGE_MS
    PerSource, TotalNews,   \* NEWS_PER_SOURCE_MAX, NEWS_TOTAL_MAX
    StaleAfter, BriefStaleAfter, NewsStaleAfter,
    LastMoment              \* bound: the clock

VARIABLES
    brief,      \* this.marketState
    officer,    \* runInformationOfficer in progress
    episode,    \* the episode that runs or has just ended
    moment      \* Date.now()

Sides == {"long", "short"}
judgmentVars == <<brief, officer, episode, moment>>

AtMost(seq, n) == SubSeq(seq, 1, IF Len(seq) < n THEN Len(seq) ELSE n)

--------------------------------------------------------------------------
(***************************************************************************)
(* The information officer.                                                *)
(***************************************************************************)
\* parseRss: the items that are young enough.  A feed that could not be read is
\* Malformed and gives none.
parseRss(feed, now, max_age) ==
    LET young(item) == now - item.at <= max_age IN
    IF feed = Malformed THEN <<>> ELSE AtMost(SelectSeq(feed, young), PerSource)

\* newsDedupeKeys: an item is dropped when an earlier one has its link or title.
Registered(news, item) == IF \E i \in DOMAIN news : news[i].keys \cap item.keys # {} THEN news ELSE Append(news, item)

\* The newest first; the refs I1, I2, ... are the positions.
collectInfo(feeds, now) ==
    LET items == FlattenSeq([i \in DOMAIN feeds |-> parseRss(feeds[i], now, MaxAge[i])])
        newer(x, y) == x.at > y.at
    IN  AtMost(SortSeq(FoldLeft(Registered, <<>>, items), newer), TotalNews)

\* What validateMarketState objects to.  Entries that are no objects are skipped
\* there, and are no part of an answer here.
SummaryFaults(raw, refs) ==
    IF raw = Malformed THEN {"object"}
    ELSE {f \in {"told", "news", "symbol", "side"} :
            CASE f = "told"   -> ~raw.told   \* regime, bias, summary, points, risk events
              [] f = "news"   -> \E i \in DOMAIN raw.news : raw.news[i].ref \notin refs
              [] f = "symbol" -> \E c \in raw.candidates : c.symbol \notin Watch
              [] f = "side"   -> \E c \in raw.candidates : c.symbol \in Watch /\ c.direction \notin Sides}

\* The state that is stored is dated when the collection began; without a
\* usable answer it has the numbers only.
MarketState(o, raw) ==
    IF SummaryFaults(raw, DOMAIN o.news) = {}
    THEN [as_of |-> o.as_of, error |-> FALSE, candidates |-> raw.candidates, risk |-> raw.risk,
          news |-> [i \in DOMAIN raw.news |-> [at |-> o.news[raw.news[i].ref].at, relevant |-> raw.news[i].relevant]]]
    ELSE [as_of |-> o.as_of, error |-> TRUE, candidates |-> {}, risk |-> FALSE, news |-> <<>>]

NoEpisode == [phase |-> "none", status |-> "none", at |-> 0, as_of |-> 0, evidence |-> <<>>, offered |-> {}, node |-> "scan",
              tried |-> <<>>, illegal |-> Null, judgment |-> Null, answered |-> 0, opened |-> FALSE]
IdleOfficer == [phase |-> "idle", as_of |-> 0, news |-> <<>>]
Thinking == episode.phase \in {"read", "think", "again"}

OfficerStarts ==
    /\ officer.phase = "idle" /\ ~Thinking
    /\ \E feeds \in Feeds : officer' = [phase |-> "asked", as_of |-> moment, news |-> collectInfo(feeds, moment)]
    /\ episode' = NoEpisode
    /\ UNCHANGED <<brief, moment>>

\* A first answer with faults is sent back once.
OfficerAnswered(raw) ==
    /\ officer.phase \in {"asked", "again"}
    /\ IF officer.phase = "asked" /\ SummaryFaults(raw, DOMAIN officer.news) # {}
       THEN officer' = [officer EXCEPT !.phase = "again"] /\ UNCHANGED brief
       ELSE brief' = MarketState(officer, raw) /\ officer' = IdleOfficer
    /\ UNCHANGED <<episode, moment>>

\* A call that throws ends the attempts.
OfficerThrows ==
    /\ officer.phase \in {"asked", "again"}
    /\ brief' = MarketState(officer, Malformed) /\ officer' = IdleOfficer
    /\ UNCHANGED <<episode, moment>>

--------------------------------------------------------------------------
(***************************************************************************)
(* The context.  The registry is a sequence of lines; the ref of a line is *)
(* its position.  A line has the age beyond which it is marked STALE, Null *)
(* when it never is.                                                       *)
(***************************************************************************)
Line(of, at, limit) == [of |-> of, at |-> at, limit |-> limit]
Lines(there, line) == IF there THEN <<line>> ELSE <<>>

\* The price first; a number the exchange did not give has no line.
MarketLines(v, as_of) ==
    <<Line("price", as_of, StaleAfter)>>
    \o Lines(v.funding, Line("market", as_of, StaleAfter))
    \o Lines(v.open_interest, Line("market", as_of, StaleAfter))
    \o <<Line("market", as_of, StaleAfter)>>

\* Structure, checklists, lines of the strategies, daily regime, session and
\* triggers; and the metrics of an open thread, dated like the prices.
ComputedLines(v, now, as_of, status) ==
    [i \in 1..v.computed |-> Line("computed", now, Null)]
    \o Lines(status \in {"pending_entry", "in_position"}, Line("position", as_of, StaleAfter))

\* The market state and its numbers, three items of its news, its risk events
\* and its candidate.
BriefLines(ms) ==
    LET line(of) == Line(of, ms.as_of, BriefStaleAfter)
        relevant(n) == n.relevant
        news == AtMost(SelectSeq(ms.news, relevant), 3)
    IN  IF ms = Null THEN <<>>
        ELSE <<line("brief")>> \o Lines(Symbol \in Watch, line("brief"))
             \o [i \in DOMAIN news |-> Line("news", news[i].at, NewsStaleAfter)]
             \o Lines(ms.risk, line("brief")) \o Lines(\E c \in ms.candidates : c.symbol = Symbol, line("candidate"))

Stale(line, now) == line.limit # Null /\ ~(now - line.at <= line.limit)
\* The registry, each line with its mark.
Registry(lines, now) ==
    [i \in DOMAIN lines |-> [of |-> lines[i].of, at |-> lines[i].at, limit |-> lines[i].limit, stale |-> Stale(lines[i], now)]]
buildContext(v, now, as_of, status) ==
    Registry(MarketLines(v, as_of) \o ComputedLines(v, now, as_of, status) \o BriefLines(brief)
             \o <<Line("account", as_of, StaleAfter)>>, now)

PriceIsStale(evidence) == \E i \in DOMAIN evidence : evidence[i].of = "price" /\ evidence[i].stale
\* Mutant: the marks are for the model only, the gate does not look.
staleRefsNone(evidence) == {}
staleRefs(evidence) == {i \in DOMAIN evidence : evidence[i].stale}

--------------------------------------------------------------------------
(***************************************************************************)
(* The contract of a judgment.                                             *)
(***************************************************************************)
Prices(p) == {p.limit_price, p.stop_price, p.take_profit_price} \cup Range(p.take_profits)
             \cup (IF p.entry_zone \in {Null, Malformed} THEN {p.entry_zone} ELSE Range(p.entry_zone))

\* The proposal that is kept: one with a direction and an entry.
Usable(p) == p \notin {Null, Malformed} /\ p.direction \in Sides /\ p.entry \in {"market", "limit"}

Faults(raw, refs, offered) ==
    IF raw = Malformed THEN {"object"}
    ELSE {f \in {"told", "action", "direction", "reasons", "refs", "strategy", "proposal", "prices", "side"} :
            CASE f = "told"      -> ~raw.told   \* headline, thesis, confidence, and what is not a proposal's
              [] f = "action"    -> raw.action \notin Actions
              [] f = "direction" -> raw.direction \notin Sides \cup {Null}
              [] f = "reasons"   -> \/ raw.reasons = {}
                                    \/ \E r \in raw.reasons : r.cites \cap refs = {} \/ ~(r.caught \subseteq refs)
              [] f = "refs"      -> raw.evidence_refs = {} \/ ~(raw.evidence_refs \subseteq refs)
              [] f = "strategy"  -> \/ raw.strategy_id = Malformed
                                    \/ /\ offered # {} /\ raw.strategy_id \notin offered
                                       /\ raw.strategy_id # Null \/ raw.action = "PROPOSE"
              [] f = "proposal"  -> IF raw.proposal = Null THEN raw.action = "PROPOSE" ELSE ~Usable(raw.proposal)
              [] f = "prices"    -> /\ Usable(raw.proposal)
                                    /\ \/ Malformed \in Prices(raw.proposal) \/ raw.proposal.stop_price = Null
                                       \/ raw.proposal.entry = "limit" /\ raw.proposal.limit_price = Null
              [] f = "side"      -> /\ raw.action = "PROPOSE" /\ Usable(raw.proposal)
                                    /\ raw.direction \in Sides /\ raw.proposal.direction # raw.direction}

\* The zone is put in order; a target stands in for the list and the list's
\* first for the target.
Proposal(p) ==
    LET given(x) == x # Null
        targets == SelectSeq(p.take_profits, given)
        z == p.entry_zone
    IN  [direction |-> p.direction, entry |-> p.entry, limit_price |-> p.limit_price, stop_price |-> p.stop_price,
         take_profit_price |-> IF p.take_profit_price = Null /\ targets # <<>> THEN targets[1] ELSE p.take_profit_price,
         take_profits |-> IF targets # <<>> THEN AtMost(targets, 3) ELSE Lines(p.take_profit_price # Null, p.take_profit_price),
         entry_zone |-> IF z = Null \/ Null \in Range(z) THEN Null ELSE IF z[1] <= z[2] THEN z ELSE <<z[2], z[1]>>]

\* A proposal beside another action is dropped; a missing direction is the proposal's.
validateJudgment(raw) ==
    LET proposal == IF raw.action = "PROPOSE" THEN Proposal(raw.proposal) ELSE Null IN
    [action |-> raw.action, proposal |-> proposal, reasons |-> raw.reasons, evidence_refs |-> raw.evidence_refs,
     strategy_id |-> raw.strategy_id,
     direction |-> IF raw.direction = Null /\ proposal # Null THEN proposal.direction ELSE raw.direction]

FailClosed(status) ==
    [action |-> IF status = "none" THEN "NO_TRADE" ELSE "HOLD", proposal |-> Null, reasons |-> {}, evidence_refs |-> {},
     strategy_id |-> Null, direction |-> Null]

--------------------------------------------------------------------------
(***************************************************************************)
(* An episode.                                                             *)
(***************************************************************************)
\* runEpisode: the thread is read when the job starts; it may have ended
\* since the review was asked for.
EpisodeStarts ==
    /\ officer.phase = "idle" /\ ~Thinking
    /\ \E status \in {"none", "pending_entry", "in_position", "closed"} :
         episode' = [NoEpisode EXCEPT !.phase = "read", !.status = status, !.at = moment]
    /\ UNCHANGED <<brief, officer, moment>>

\* Market and account are read, the context is built and sent.
ContextIsBuilt ==
    /\ episode.phase = "read"
    /\ \E v \in Views, offered \in Offers, halted \in BOOLEAN, watch_only \in BOOLEAN :
         LET evidence == buildContext(v, episode.at, moment, episode.status) IN
         episode' = [episode EXCEPT !.phase = "think", !.as_of = moment, !.evidence = evidence, !.offered = offered,
                                    !.node = nodeFor(episode.status, halted, PriceIsStale(evidence), watch_only)]
    /\ UNCHANGED <<brief, officer, moment>>

EpisodeFails ==
    /\ Thinking
    /\ episode' = NoEpisode
    /\ UNCHANGED <<brief, officer, moment>>

\* The gates over the proposal that speak of evidence and target; the target is
\* compared with the price the entry fills nearest to it.
NearPrice(p) ==
    IF p.entry = "market" \/ p.limit_price = Null THEN Mark
    ELSE IF (p.direction = "long") <=> (p.limit_price < Mark) THEN p.limit_price ELSE Mark
IsAhead(p, price) == IF p.direction = "long" THEN NearPrice(p) < price ELSE price < NearPrice(p)
gatesOk(e, j) ==
    /\ moment - e.as_of <= StaleAfter
    /\ j.evidence_refs \cap staleRefs(e.evidence) = {}
    /\ j.proposal.take_profit_price = Null \/ IsAhead(j.proposal, j.proposal.take_profit_price)

\* The judgment that counts.  The other gates (Sizing, Desk) may refuse a
\* proposal as well.
Judged(j, tried) ==
    \E others \in BOOLEAN :
      episode' = [episode EXCEPT !.phase = "done", !.judgment = j, !.tried = tried, !.answered = moment,
                                 !.opened = /\ episode.status = "none" /\ j.action = "PROPOSE"
                                            /\ gatesOk(episode, j) /\ others]

\* An answer outside the contract, or with an action that is not allowed, is
\* sent back once; the first action that was not allowed is remembered.
ReplyArrives(raw) ==
    /\ episode.phase \in {"think", "again"}
    /\ LET valid == Faults(raw, DOMAIN episode.evidence, episode.offered) = {}
           allowed == valid /\ raw.action \in allowedActions(episode.node)
           tried == IF valid THEN Append(episode.tried, raw.action) ELSE episode.tried
           illegal == IF valid /\ ~allowed /\ episode.illegal = Null THEN raw.action ELSE episode.illegal
       IN  CASE allowed -> Judged(validateJudgment(raw), tried)
             [] ~allowed /\ episode.phase = "think" ->
                  episode' = [episode EXCEPT !.phase = "again", !.tried = tried, !.illegal = illegal]
             [] ~allowed /\ episode.phase = "again" ->
                  LET j == FailClosed(episode.status) IN
                  episode' = [episode EXCEPT !.phase = "done", !.judgment = j, !.tried = tried, !.answered = moment,
                                !.illegal = IF illegal = Null /\ j.action \notin allowedActions(episode.node)
                                            THEN j.action ELSE illegal]
    /\ UNCHANGED <<brief, officer, moment>>

TimePasses ==
    /\ moment < LastMoment
    /\ moment' = moment + 1
    /\ episode' = IF Thinking THEN episode ELSE NoEpisode
    /\ UNCHANGED <<brief, officer>>

--------------------------------------------------------------------------
\* The absent value is no side, no action and no proposal.
ASSUME JudgmentsAssumption ==
    /\ Null \notin Sides \cup Actions
    /\ \A raw \in Replies : raw # Malformed => (Usable(raw.proposal) /\ Malformed \notin Prices(raw.proposal)
                                                  => Proposal(raw.proposal) # Null)

JudgmentsInit ==
    /\ brief = Null /\ officer = IdleOfficer /\ episode = NoEpisode /\ moment = 0

JudgmentsNext ==
    \/ OfficerStarts \/ OfficerThrows \/ \E raw \in Summaries : OfficerAnswered(raw)
    \/ EpisodeStarts \/ ContextIsBuilt \/ EpisodeFails \/ \E raw \in Replies : ReplyArrives(raw)
    \/ TimePasses

JudgmentsSpec == JudgmentsInit /\ [][JudgmentsNext]_judgmentVars

--------------------------------------------------------------------------
\* A judgment that came from the model was legal at its node and cites what
\* was registered; one with a proposal says which side, stop and strategy.
Legal(e) ==
    LET j == e.judgment
        refs == DOMAIN e.evidence
    IN  /\ j.action \in allowedActions(e.node)
        /\ j.evidence_refs # {} /\ j.evidence_refs \subseteq refs
        /\ \A r \in j.reasons : r.cites \cap refs # {}
        /\ j.action = "PROPOSE" <=> j.proposal # Null
        /\ j.proposal # Null => /\ j.proposal.direction = j.direction /\ j.direction \in Sides
                                /\ j.proposal.stop_price \notin {Null, Malformed}
                                /\ e.offered # {} => j.strategy_id \in e.offered

\* The episode remembers the first action the model was not allowed.
FirstIllegal(e) ==
    LET wrong == {i \in DOMAIN e.tried : e.tried[i] \notin allowedActions(e.node)} IN
    wrong # {} => \E i \in wrong : e.illegal = e.tried[i] /\ \A k \in wrong : i <= k

\* What a thread is opened on: every line it cites was young enough when the
\* episode began, the snapshot when the answer came.
OpenedOnFresh(e) ==
    e.opened => /\ e.node = "scan" /\ e.judgment.action = "PROPOSE"
                /\ e.answered - e.as_of <= StaleAfter
                /\ \A i \in e.judgment.evidence_refs :
                     LET line == e.evidence[i] IN line.limit # Null => e.at - line.at <= line.limit

\* A market state tells what the contract admits, and nothing when it is an error.
BriefHolds(ms) ==
    /\ \A c \in ms.candidates : c.symbol \in Watch /\ c.direction \in Sides
    /\ ms.error => ms.candidates = {} /\ ms.news = <<>> /\ ~ms.risk

\* Whatever the models answer, at the first or second attempt and however late:
\* the judgment that counts is legal or the fail-closed one, which opens
\* nothing; an illegal first answer is on record; what opens a thread rests on
\* evidence that was fresh; the stored market state is within its contract
\* (runtime.ts executeEpisode, schema.ts, context.ts, info.ts).
JudgmentsGrounded ==
    /\ episode.phase = "done" =>
         /\ Legal(episode) \/ (episode.judgment = FailClosed(episode.status) /\ ~episode.opened)
         /\ FirstIllegal(episode) /\ OpenedOnFresh(episode)
    /\ brief # Null => BriefHolds(brief)
=============================================================================
