------------------------------- MODULE Paper -------------------------------
(***************************************************************************)
(* PaperBackend of packages/gateway/src/demo/execution.ts: the in-process  *)
(* exchange simulator and the snapshot that carries it over a restart.     *)
(* One symbol: symbols share nothing but the wallet.  Leverage only labels *)
(* a position and is left out.                                             *)
(*                                                                         *)
(* Money is an integer: prices are multiples of a unit (the code's numbers *)
(* are doubles), a position keeps cost = entry * qty, and FEE_RATE is the  *)
(* divisor FeePart: a fill of value v costs v \div FeePart.                *)
(***************************************************************************)
EXTENDS Integers, Sequences

CONSTANTS Prices,       \* marks, limit and trigger prices
          Sizes,        \* quantities
          FeePart,      \* 1 / FEE_RATE
          CLOSED_KEEP,  \* finished orders a snapshot carries
          MaxIds,       \* bound: orders the runtime asks for
          MaxMoves,     \* bound: calls and ticks of one behaviour
          Careless      \* calls the runtime avoids when it is not raced: subset of Slips

Slips == {"opposite entry", "stop without position"}

ASSUME PaperAssumption ==
    /\ Prices \subseteq Nat \ {0} /\ Sizes \subseteq Nat \ {0}
    /\ FeePart \in Nat \ {0} /\ CLOSED_KEEP \in Nat \ {0}
    /\ MaxIds \in Nat /\ MaxMoves \in Nat
    /\ Careless \subseteq Slips

Directions == {"long", "short"}
Against(side) == IF side = "long" THEN "short" ELSE "long"
Sign(side) == IF side = "long" THEN 1 ELSE -1

VARIABLES
    desk,     \* [wallet, pos, orders, closed, mark]: what snapshot() holds
    saved,    \* the snapshot in the store
    paid,     \* history: money moved by the fills receipts and events report
    held,     \* history: signed quantity of those fills
    minted,   \* client order ids used so far
    moves

paperVars == <<desk, saved, paid, held, minted, moves>>

\* The starting equity is the origin of the wallet.  mark 0: no price yet.
\* orders: resting; ids are minted in the order the orders are placed.
\* closed: finished, oldest first.
Fresh == [wallet |-> 0, pos |-> <<>>, orders |-> {}, closed |-> <<>>, mark |-> 0]

PaperOrders == [id : 1..MaxIds, type : {"LIMIT", "STOP_MARKET", "TAKE_PROFIT_MARKET"},
                side : Directions, qty : Nat, price : Prices]
PaperPositions == [side : Directions, qty : Nat \ {0}, cost : Int]
FinalStates == [id : 1..MaxIds, status : {"FILLED", "CANCELED"}]

Fee(price, qty) == (price * qty) \div FeePart
Protective(o) == o.type # "LIMIT"
WithId(S, id) == {o \in S : o.id = id}

\* closed.set: a key keeps its place when it is set again.
Finish(closed, id, status) ==
    IF \E k \in DOMAIN closed : closed[k].id = id
    THEN [k \in DOMAIN closed |-> IF closed[k].id = id
                                  THEN [closed[k] EXCEPT !.status = status] ELSE closed[k]]
    ELSE Append(closed, [id |-> id, status |-> status])

\* The orders S finish as CANCELED, oldest first, and leave.
CanceledIn(closed, S) ==
    LET upTo[n \in 0..MaxIds] ==
          IF n = 0 THEN closed
          ELSE IF WithId(S, n) = {} THEN upTo[n - 1] ELSE Finish(upTo[n - 1], n, "CANCELED")
    IN  upTo[MaxIds]
CancelThose(d, S) == [d EXCEPT !.orders = @ \ S, !.closed = CanceledIn(@, S)]

\* closeAt: realizes the profit of what is closed; with the position its
\* reduce-only orders go.
Realized(d, price, qty, fee) ==
    LET p == d.pos[1]
        part == (p.cost * qty) \div p.qty IN
    [d EXCEPT !.wallet = @ + Sign(p.side) * (price * qty - part) - fee,
              !.pos = IF qty = p.qty THEN <<>>
                      ELSE <<[p EXCEPT !.qty = @ - qty, !.cost = @ - part]>>]
AtMost(d, qty) == IF qty < d.pos[1].qty THEN qty ELSE d.pos[1].qty
closeAtKeepsOrders(d, price, qty) ==
    Realized(d, price, AtMost(d, qty), Fee(price, AtMost(d, qty)))
closeAt(d, price, qty) ==
    LET q == AtMost(d, qty)
        out == Realized(d, price, q, Fee(price, q)) IN
    IF out.pos = <<>> THEN CancelThose(out, {o \in out.orders : Protective(o)}) ELSE out

\* fill: opens, averages in, or reduces an opposite position.
fill(d, side, qty, price) ==
    LET charged == [d EXCEPT !.wallet = @ - Fee(price, qty)] IN
    IF d.pos = <<>>
    THEN [charged EXCEPT !.pos = <<[side |-> side, qty |-> qty, cost |-> price * qty]>>]
    ELSE IF d.pos[1].side = side
    THEN [charged EXCEPT !.pos = <<[side |-> side, qty |-> @[1].qty + qty, cost |-> @[1].cost + price * qty]>>]
    ELSE closeAt(charged, price, qty)

Crosses(side, mark, price) == IF side = "long" THEN mark <= price ELSE mark >= price

\* Whether a mark triggers the reduce-only order o of a position on side.
Hit(o, side, mark) ==
    Crosses(IF o.type = "STOP_MARKET" THEN side ELSE Against(side), mark, o.price)

\* snapshot and save: every state-changing call ends in it.
Kept(closed) ==
    SubSeq(closed, IF Len(closed) > CLOSED_KEEP THEN Len(closed) - CLOSED_KEEP + 1 ELSE 1, Len(closed))
snapshot(d) == [d EXCEPT !.closed = Kept(@)]
saveNever(d) == UNCHANGED saved
save(d) == saved' = snapshot(d)

\* history: what is reported as done, beside the step that does it.
PaidWith(money, side, qty, price) == money - Sign(side) * (price * qty) - Fee(price, qty)
HeldWith(lots, side, qty) == lots + Sign(side) * qty
Reported(side, qty, price) == paid' = PaidWith(paid, side, qty, price) /\ held' = HeldWith(held, side, qty)
NothingReported == UNCHANGED <<paid, held>>

Move == moves < MaxMoves /\ moves' = moves + 1
Mint == Move /\ minted < MaxIds /\ minted' = minted + 1
SameIds == UNCHANGED minted

PaperInit ==
    /\ desk = Fresh /\ saved = Fresh
    /\ paid = 0 /\ held = 0 /\ minted = 0 /\ moves = 0

\* setMark: the first price of a symbol and every refresh of the poll.
setMark(mark) ==
    /\ Move /\ mark # desk.mark
    /\ desk' = [desk EXCEPT !.mark = mark]
    /\ save(desk') /\ NothingReported /\ SameIds

\* placeEntry: fails without a mark; a market order and a limit that crosses
\* fill at the mark, any other limit rests.  The runtime does not enter against
\* a position or entry it can see (openingBlockers).
WithTheDesk(side) ==
    \A s \in {desk.pos[k].side : k \in DOMAIN desk.pos}
             \cup {o.side : o \in desk.orders} : s = side
placeEntry(side, qty, type, price) ==
    /\ Mint /\ desk.mark > 0
    /\ WithTheDesk(side) \/ "opposite entry" \in Careless
    /\ IF type = "market" \/ Crosses(side, desk.mark, price)
       THEN desk' = fill(desk, side, qty, desk.mark) /\ Reported(side, qty, desk.mark)
       ELSE /\ desk' = [desk EXCEPT !.orders = @ \cup {[id |-> minted', type |-> "LIMIT",
                                       side |-> side, qty |-> qty, price |-> price]}]
            /\ NothingReported
    /\ save(desk')

\* placeStop and placeTakeProfit: rest, whatever is open.
protective(side, type, price) ==
    /\ Mint
    /\ \/ desk.pos # <<>> /\ desk.pos[1].side = side
       \/ "stop without position" \in Careless
    /\ desk' = [desk EXCEPT !.orders = @ \cup {[id |-> minted', type |-> type,
                                    side |-> side, qty |-> 0, price |-> price]}]
    /\ save(desk') /\ NothingReported

\* reducePosition, and closePosition (all that is held): at the mark.
reducePosition(qty) ==
    /\ Move /\ desk.pos # <<>>
    /\ LET p == desk.pos[1] IN
       /\ desk' = closeAt(desk, desk.mark, qty)
       /\ Reported(Against(p.side), AtMost(desk, qty), desk.mark)
    /\ save(desk') /\ SameIds
closePosition == desk.pos # <<>> /\ reducePosition(desk.pos[1].qty)

cancelAll ==
    /\ Move
    /\ desk' = CancelThose(desk, desk.orders)
    /\ save(desk') /\ NothingReported /\ SameIds
cancelOrder(id) ==
    /\ Move /\ WithId(desk.orders, id) # {}
    /\ desk' = CancelThose(desk, WithId(desk.orders, id))
    /\ save(desk') /\ NothingReported /\ SameIds

\* tick: the resting limits a mark crosses fill at their own price, oldest
\* first; then the oldest reduce-only order that is hit closes the position at
\* its trigger.
FilledAtItsPrice(b, o) ==
    LET d == fill(b.desk, o.side, o.qty, o.price) IN
    [desk |-> [d EXCEPT !.closed = Finish(@, o.id, "FILLED"), !.orders = @ \ WithId(@, o.id)],
     paid |-> PaidWith(b.paid, o.side, o.qty, o.price),
     held |-> HeldWith(b.held, o.side, o.qty)]
Entered(b, S) ==
    LET upTo[n \in 0..MaxIds] ==
          IF n = 0 THEN b
          ELSE IF WithId(S, n) = {} THEN upTo[n - 1]
          ELSE FilledAtItsPrice(upTo[n - 1], CHOOSE o \in WithId(S, n) : TRUE)
    IN  upTo[MaxIds]
Oldest(S) == CHOOSE o \in S : \A p \in S : o.id <= p.id
TriggeredBy(b, o) ==
    LET p == b.desk.pos[1]
        out == closeAt(b.desk, o.price, p.qty) IN
    [desk |-> [out EXCEPT !.closed = Finish(@, o.id, "FILLED")],
     paid |-> PaidWith(b.paid, Against(p.side), p.qty, o.price),
     held |-> HeldWith(b.held, Against(p.side), p.qty)]

tick(mark) ==
    /\ Move
    /\ LET crossed == {o \in desk.orders : ~Protective(o) /\ Crosses(o.side, mark, o.price)}
           b == Entered([desk |-> [desk EXCEPT !.mark = mark], paid |-> paid, held |-> held], crossed)
           hits == {o \in b.desk.orders : Protective(o) /\ Hit(o, b.desk.pos[1].side, mark)}
           out == IF b.desk.pos = <<>> \/ hits = {} THEN b ELSE TriggeredBy(b, Oldest(hits)) IN
       desk' = out.desk /\ paid' = out.paid /\ held' = out.held
    /\ save(desk') /\ SameIds

\* The gateway restarts: the constructor reads the snapshot back.
restore ==
    /\ Move
    /\ desk' = saved
    /\ UNCHANGED saved /\ NothingReported /\ SameIds

PaperNext ==
    \/ \E m \in Prices : setMark(m) \/ tick(m)
    \/ \E side \in Directions, q \in Sizes, p \in Prices, t \in {"market", "limit"} :
          placeEntry(side, q, t, p)
    \/ \E side \in Directions, t \in {"STOP_MARKET", "TAKE_PROFIT_MARKET"}, p \in Prices :
          protective(side, t, p)
    \/ \E q \in Sizes : reducePosition(q)
    \/ closePosition \/ cancelAll \/ \E id \in 1..MaxIds : cancelOrder(id)
    \/ restore

PaperSpec == PaperInit /\ [][PaperNext]_paperVars

-----------------------------------------------------------------------------
PaperTypeOK ==
    /\ desk.wallet \in Int /\ desk.mark \in Prices \cup {0}
    /\ Len(desk.pos) <= 1 /\ \A k \in DOMAIN desk.pos : desk.pos[k] \in PaperPositions
    /\ desk.orders \subseteq PaperOrders
    /\ \A k \in DOMAIN desk.closed : desk.closed[k] \in FinalStates
    /\ moves \in 0..MaxMoves /\ minted \in 0..MaxIds

\* The simulator's books: the wallet, with the open position at cost, is the
\* money the reported fills moved, and the position is what they left, whichever
\* way it was averaged, halved, stopped out or carried over a restart.
Ledger ==
    LET p == desk.pos[1] IN
    IF desk.pos = <<>> THEN desk.wallet = paid /\ held = 0
    ELSE desk.wallet = paid + Sign(p.side) * p.cost /\ held = Sign(p.side) * p.qty

\* A reduce-only order never outlives its position: tick judges it by the side
\* of whatever position is open, so a leftover stop would end the next one.
NoStrayStop ==
    \A o \in desk.orders : Protective(o) => desk.pos # <<>> /\ desk.pos[1].side = o.side

\* An order has one fate: what was reported as FILLED or CANCELED does not rest.
Fates(id) ==
    {"NEW" : o \in WithId(desk.orders, id)}
    \cup {desk.closed[k].status : k \in {j \in DOMAIN desk.closed : desk.closed[j].id = id}}
OneFate == \A id \in 1..MaxIds : \A a, b \in Fates(id) : a = b

\* A restart loses nothing but old finished orders: after every call the store
\* holds what the simulator holds.
RestartIsSeamless == saved = snapshot(desk)

\* The books of the simulator close: the wallet is the sum of its trades and
\* fees, no stop survives its position, and an order that ended does not rest
\* (execution.ts:365).
PaperSound == PaperTypeOK /\ Ledger /\ NoStrayStop /\ OneFate
=============================================================================
