------------------------------ MODULE Sizing --------------------------------
(***************************************************************************)
(* The gates and the sizing of an opening: gates.ts, the two places of     *)
(* runtime.ts that apply them (openThreadFromProposal, executeOpen), and   *)
(* the exchange filters of exec-core (filters.rs) that the order meets.    *)
(*                                                                         *)
(* Between the judgment, the sizing and the sending lie a model call, a    *)
(* queue and an approval: the mark, the equity and the risk setting move.  *)
(***************************************************************************)
EXTENDS Rationals, Sequences, FiniteSetsExt

CONSTANTS
    Proposals,      \* direction, entry, limit_price, stop_price, take_profit_price, confidence
    RuleSets,       \* step_size, min_qty, max_qty, min_notional of a symbol
    Marks,          \* mark prices
    Equities,       \* account equities
    RiskPcts,       \* values of the setting risk_pct
    Situations,     \* halted, paused, held, opens, stale: what the other gates look at
    min_stop_pct, max_stop_pct,
    max_notional_multiple, max_opens_per_day,
    MinConfidence,  \* 0.4, as a fraction
    RiskTolerance,  \* 1.05
    CapTolerance,   \* 1.0001
    Nothing         \* an absent value

VARIABLES
    stage,      \* "judging", "passed", "sized", "sent" or "refused"
    order,      \* the proposal, its symbol's rules and the situation at the judgment
    mark, equity, risk_pct,   \* the market, the account and the setting now
    judgedAt,   \* the mark the gates saw
    sized       \* the intent: quantity and risk_pct

sizingVars == <<stage, order, mark, equity, risk_pct, judgedAt, sized>>

---------------------------------------------------------------------------
\* The prices of a proposal as the two functions take them.

LimitOf(p) == IF p.entry = "limit" /\ p.limit_price # Nothing THEN p.limit_price ELSE Nothing
\* A marketable limit fills near the mark: the gates judge the stop at the
\* price nearer to it, the sizing at the price farther from it.
NearerPrice(p, m) == LET lim == LimitOf(p) IN
    IF lim = Nothing THEN m ELSE IF p.direction = "long" THEN Smaller(lim, m) ELSE Larger(lim, m)
OptimistPrice(p, m) == NearerPrice(p, m)    \* mutant: sized where it is judged
FartherPrice(p, m) == LET lim == LimitOf(p) IN
    IF lim = Nothing THEN m ELSE IF p.direction = "long" THEN Larger(lim, m) ELSE Smaller(lim, m)
TopPrice(p, m) == IF LimitOf(p) = Nothing THEN m ELSE Larger(LimitOf(p), m)
BottomPrice(p, m) == IF LimitOf(p) = Nothing THEN m ELSE Smaller(LimitOf(p), m)

StopSide(p, ref) == IF p.direction = "long" THEN p.stop_price \prec ref ELSE ref \prec p.stop_price
TargetSide(p, ref) == IF p.direction = "long" THEN ref \prec p.take_profit_price ELSE p.take_profit_price \prec ref

\* The names of the gates that do not pass a PROPOSE.
evaluateGates(p, m, s) ==
    LET ref == NearerPrice(p, m)
        dist == (Gap(ref, p.stop_price) // ref) ** Whole(100)
    IN  {g \in {"halt", "pause", "freshness", "flat", "opens", "side", "distance", "target", "confidence"} :
            CASE g = "halt"       -> s.halted
              [] g = "pause"      -> s.paused
              [] g = "freshness"  -> s.stale
              [] g = "flat"       -> s.held
              [] g = "opens"      -> ~(s.opens < max_opens_per_day)
              [] g = "side"       -> ~StopSide(p, ref)
              [] g = "distance"   -> dist \prec min_stop_pct \/ max_stop_pct \prec dist
              [] g = "target"     -> p.take_profit_price # Nothing /\ ~TargetSide(p, ref)
              [] g = "confidence" -> p.confidence \prec MinConfidence}

\* A step that is not positive leaves the quantity as it is.
floorToStep(q, step) == IF Zero \prec step THEN Whole(Floor(q // step)) ** step ELSE q

computeSizing(p, eq, m, rules, pct, fixed) ==
    LET ref == FartherPrice(p, m)
        stopDist == Gap(ref, p.stop_price)
        riskUsdt == (eq ** pct) // Whole(100)
        maxNotional == eq ** max_notional_multiple
        byRisk == IF Zero \prec stopDist THEN riskUsdt // stopDist ELSE Zero
        capped == IF maxNotional \prec byRisk ** TopPrice(p, m) THEN maxNotional // TopPrice(p, m) ELSE byRisk
        raised == IF Zero \prec rules.min_notional /\ capped ** BottomPrice(p, m) \prec rules.min_notional
                  THEN (rules.min_notional ** Frac(102, 100)) // BottomPrice(p, m) ELSE capped
        floored == floorToStep(raised, rules.step_size)
        \* Flooring can fall below the minimum again: one step up.
        stepped == IF Zero \prec rules.min_notional /\ floored ** BottomPrice(p, m) \prec rules.min_notional
                   THEN floored ++ rules.step_size ELSE floored
        qty == IF fixed # Nothing THEN fixed ELSE stepped
    IN  [qty |-> qty,
         ok |-> /\ rules.min_qty \preceq qty /\ Zero \prec qty
                /\ rules.min_notional \preceq qty ** BottomPrice(p, m)
                /\ qty ** TopPrice(p, m) \preceq maxNotional ** CapTolerance
                /\ Zero \prec eq /\ Zero \prec stopDist /\ Zero \prec ref
                /\ qty ** stopDist \preceq riskUsdt ** RiskTolerance]

---------------------------------------------------------------------------
\* filters.rs: what the exchange side makes of a quantity.

quantity_lots(rules, q) == IF ~(Zero \prec q) \/ ~(Zero \prec rules.step_size) THEN 0 ELSE Floor(q // rules.step_size)
normalize_quantity(rules, q) == Whole(quantity_lots(rules, q)) ** rules.step_size

validate(rules, q, price) ==
    CASE q \prec rules.min_qty -> "min_qty"
      [] Zero \prec rules.max_qty /\ rules.max_qty \prec q -> "max_qty"
      [] price # Nothing /\ Zero \prec rules.min_notional /\ q ** price \prec rules.min_notional -> "min_notional"
      [] OTHER -> "ok"

\* The lots of a parent order split by percentages: the last one takes what
\* the floors left.
allocate_lots(parent, percents) ==
    LET n == Len(percents)
        share(i) == IF percents[i] > 0 THEN percents[i] ELSE 0
        total == MapThenSumSet(share, 1..n)
        floors(i) == (parent * share(i)) \div total
        given == MapThenSumSet(floors, 1..(n - 1))
    IN  CASE n = 0 -> <<>>
          [] total <= 0 -> [i \in 1..n |-> 0]
          [] OTHER -> [i \in 1..n |-> IF i < n THEN floors(i) ELSE IF given < parent THEN parent - given ELSE 0]

\* Only symbols with a step, a tick and a minimal quantity have rules.
parse_symbol_rules(rows) == {r \in rows : Zero \prec r.step_size /\ Zero \prec r.min_qty}

---------------------------------------------------------------------------
SizingInit ==
    /\ stage = "judging" /\ judgedAt = Nothing /\ sized = Nothing
    /\ order \in [proposal : Proposals, rules : parse_symbol_rules(RuleSets), situation : Situations]
    /\ mark \in Marks /\ equity \in Equities /\ risk_pct \in RiskPcts

\* The gates of an episode; one that fails ends it.
Judge ==
    /\ stage = "judging"
    /\ stage' = IF evaluateGates(order.proposal, mark, order.situation) = {} THEN "passed" ELSE "refused"
    /\ judgedAt' = mark
    /\ UNCHANGED <<order, mark, equity, risk_pct, sized>>

\* Account and market are read again; when the market cannot be read, the
\* one of the judgment serves.
openThreadFromProposal ==
    /\ stage = "passed"
    /\ \E m \in {mark, judgedAt} :
         LET s == computeSizing(order.proposal, equity, m, order.rules, risk_pct, Nothing) IN
         IF s.ok THEN stage' = "sized" /\ sized' = [qty |-> s.qty, risk_pct |-> risk_pct]
         ELSE stage' = "refused" /\ UNCHANGED sized
    /\ UNCHANGED <<order, mark, equity, risk_pct, judgedAt>>

\* Before sending, the approved quantity meets the fresh account and market;
\* it is never changed.
executeOpen ==
    /\ stage = "sized"
    /\ LET s == computeSizing(order.proposal, equity, mark, order.rules, Smaller(sized.risk_pct, risk_pct), sized.qty)
       IN  stage' = IF s.ok THEN "sent" ELSE "refused"
    /\ UNCHANGED <<order, mark, equity, risk_pct, judgedAt, sized>>

Between == stage \in {"passed", "sized"}
MarkMoves == Between /\ \E m \in Marks \ {mark} : mark' = m /\ UNCHANGED <<stage, order, equity, risk_pct, judgedAt, sized>>
EquityMoves == Between /\ \E e \in Equities \ {equity} : equity' = e /\ UNCHANGED <<stage, order, mark, risk_pct, judgedAt, sized>>
RiskIsSet == Between /\ \E r \in RiskPcts \ {risk_pct} : risk_pct' = r /\ UNCHANGED <<stage, order, mark, equity, judgedAt, sized>>

SizingNext == Judge \/ openThreadFromProposal \/ executeOpen \/ MarkMoves \/ EquityMoves \/ RiskIsSet

---------------------------------------------------------------------------
FillPrices == {mark} \cup {x \in {LimitOf(order.proposal)} : x # Nothing}

\* Lots are conserved by a split with a positive share.
SplitsConserve(parents, shares) ==
    \A parent \in parents : \A percents \in [1..3 -> shares] :
        LET lots == allocate_lots(parent, percents) IN
        (\E i \in 1..3 : percents[i] > 0) => lots[1] + lots[2] + lots[3] = parent

\* Whatever moved since the judgment, an order is sent only when, filled at
\* the mark or at its limit, it loses at the stop at most the budget (five
\* percent of tolerance) of the smaller of the approved and the current risk
\* setting, stays within the notional cap of the fresh equity, comes in whole
\* steps and not below a minimum of the exchange, and is split without a lot
\* lost (runtime.ts executeOpen, gates.ts computeSizing, filters.rs). Of the
\* maximum of a symbol it says nothing: see FiltersTakeIt.
SentWithinBudget ==
    stage = "sent" =>
        LET p == order.proposal
            pct == Smaller(sized.risk_pct, risk_pct)
        IN  /\ \A f \in FillPrices :
                 /\ sized.qty ** Gap(f, p.stop_price) \preceq ((equity ** pct) // Whole(100)) ** RiskTolerance
                       \/ ~StopSide(p, f)
                 /\ sized.qty ** f \preceq (equity ** max_notional_multiple) ** CapTolerance
            /\ normalize_quantity(order.rules, sized.qty) = sized.qty
            /\ \A f \in FillPrices : validate(order.rules, sized.qty, f) \notin {"min_qty", "min_notional"}
            /\ SplitsConserve({quantity_lots(order.rules, sized.qty)}, -1..2)

\* Known not to hold: the filters take the order that was sent. They have a
\* maximum per order, which the rules of gates.ts do not carry (gates.ts:77).
FiltersTakeIt == stage = "sent" => \A f \in FillPrices : validate(order.rules, sized.qty, f) = "ok"

\* Known not to hold: the gates looked at the side of the stop, the check
\* before sending does not, and the mark may have crossed it since.
StopStillAhead == stage = "sent" => StopSide(order.proposal, NearerPrice(order.proposal, mark))
=============================================================================
