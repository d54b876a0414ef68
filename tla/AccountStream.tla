---------------------------- MODULE AccountStream ----------------------------
(***************************************************************************)
(* account_stream.rs: the cache of open orders and positions, the worker    *)
(* that keeps it from the user data stream, and an engine that reads it,    *)
(* writes orders, and falls back to REST when the cache is stale.  The      *)
(* engine has no code in this repository; it uses the cache as the comments *)
(* and tests of account_stream.rs say.                                      *)
(*                                                                         *)
(* The exchange is what both sources show: orders that open and end, one    *)
(* position, and one event for each change to whoever is connected.  Ages   *)
(* are in ticks of REST_FALLBACK_SECONDS and saturate when stale; only the  *)
(* age of the orders is kept, nobody falls back for positions here.         *)
(***************************************************************************)
EXTENDS Integers, Sequences, FiniteSets

CONSTANTS Ids,          \* orders the engine may place
          StaleAfter,   \* STALE_AFTER_SECONDS in ticks
          MaxTrades,    \* bound: changes of the position
          MaxFaults     \* bound: failures of a call, a dial or the socket

ASSUME StreamAssumption ==
  /\ IsFiniteSet(Ids) /\ StaleAfter \in Nat \ {0}
  /\ MaxTrades \in Nat /\ MaxFaults \in Nat

VARIABLES exch,     \* the exchange: status of orders, held: the position
          socket,   \* events under way to the worker; None when not connected
          cache,    \* AccountStreamCache
          worker,   \* run_user_stream: pc and the snapshots it has read
          engine,   \* the REST fallback of the engine, if one is under way
          quiet,    \* orders placed while nobody was reading a snapshot
          clean,    \* the engine has replaced nothing since the last anchor
          trades, faults

vars == <<exch, socket, cache, worker, engine, quiet, clean, trades, faults>>

\* An answer that is awaited is {}, one that has come the set of it.
None == {}
The(answer) == CHOOSE x \in answer : TRUE
NoEvents == <<>>
Least(a, b) == IF a < b THEN a ELSE b
FallbackAfter == 0          \* REST_FALLBACK_SECONDS: within the tick

Open == {i \in Ids : exch.orders[i] = "open"}

Init ==
  /\ exch = [orders |-> [i \in Ids |-> "none"], held |-> FALSE]
  /\ socket = [up |-> FALSE, events |-> NoEvents]
  /\ cache = [connected |-> FALSE, orders |-> {}, held |-> FALSE,
              ordersOk |-> FALSE, ordersAge |-> StaleAfter + 1, throttled |-> FALSE]
  /\ worker = [pc |-> "key", orders |-> None, held |-> None]
  /\ engine = None
  /\ quiet = {} /\ clean = TRUE
  /\ trades = 0 /\ faults = 0

(***************************************************************************)
(* The cache                                                               *)
(***************************************************************************)

MaxAge == IF cache.connected THEN StaleAfter ELSE FallbackAfter
is_freshOrders == cache.ordersOk /\ cache.ordersAge <= MaxAge

replace_orders(c, s) ==
  [c EXCEPT !.orders = s, !.ordersOk = TRUE, !.ordersAge = 0]
replace_positions(c, h) == [c EXCEPT !.held = h]
reconcile(c, s, h) == replace_positions(replace_orders(c, s), h)

invalidate_orders(c) ==
  [c EXCEPT !.ordersOk = FALSE, !.ordersAge = StaleAfter + 1, !.throttled = FALSE]

\* ORDER_TRADE_UPDATE: a terminal order leaves, another is merged or added;
\* ACCOUNT_UPDATE: a flat position leaves.  No event makes the cache fresher.
apply_event(c, e) ==
  IF e.type = "order"
  THEN [c EXCEPT !.orders = IF e.status = "gone" THEN @ \ {e.id} ELSE @ \cup {e.id}]
  ELSE [c EXCEPT !.held = e.held]

(***************************************************************************)
(* The exchange                                                            *)
(***************************************************************************)

Emit(e) == socket' = IF socket.up THEN [socket EXCEPT !.events = Append(@, e)] ELSE socket
OrderEvent(i, s) == [type |-> "order", id |-> i, status |-> s]
HeldEvent(h) == [type |-> "account", held |-> h]

\* Someone has read a snapshot and not yet written it to the cache.
Reading == worker.orders # None \/ worker.held # None \/ engine # None

\* The engine places an order and invalidates the cached orders.
Place(i) ==
  /\ exch.orders[i] = "none"
  /\ exch' = [exch EXCEPT !.orders[i] = "open"]
  /\ Emit(OrderEvent(i, "open"))
  /\ cache' = invalidate_orders(cache)
  /\ quiet' = IF Reading THEN quiet ELSE quiet \cup {i}
  /\ UNCHANGED <<worker, engine, clean, trades, faults>>

\* It is filled or canceled at the exchange.
OrderEnds(i) ==
  /\ exch.orders[i] = "open"
  /\ exch' = [exch EXCEPT !.orders[i] = "gone"]
  /\ Emit(OrderEvent(i, "gone"))
  /\ UNCHANGED <<cache, worker, engine, quiet, clean, trades, faults>>

\* The position is opened or closed.
PositionMoves ==
  /\ trades < MaxTrades /\ trades' = trades + 1
  /\ exch' = [exch EXCEPT !.held = ~@]
  /\ Emit(HeldEvent(~exch.held))
  /\ UNCHANGED <<cache, worker, engine, quiet, clean, faults>>

(***************************************************************************)
(* run_user_stream                                                         *)
(***************************************************************************)

NoSnapshot(pc) == [pc |-> pc, orders |-> None, held |-> None]
Fault == faults < MaxFaults /\ faults' = faults + 1

\* create_listen_key, then the WebSocket, through the proxy if there is one.
CreateListenKey ==
  /\ worker.pc = "key"
  /\ worker' = NoSnapshot("dial")
  /\ UNCHANGED <<exch, socket, cache, engine, quiet, clean, trades, faults>>
ConnectAnchored ==
  /\ worker.pc = "dial"
  /\ socket' = [up |-> TRUE, events |-> NoEvents]
  /\ cache' = [cache EXCEPT !.connected = TRUE]
  /\ worker' = NoSnapshot("loop")
  /\ UNCHANGED <<exch, engine, quiet, clean, trades, faults>>
Connect ==
  /\ worker.pc = "dial"
  /\ socket' = [up |-> TRUE, events |-> NoEvents]
  /\ worker' = NoSnapshot("anchor")
  /\ UNCHANGED <<exch, cache, engine, quiet, clean, trades, faults>>

StartFailsForGood ==
  /\ worker.pc \in {"key", "dial"} /\ Fault
  /\ cache' = [cache EXCEPT !.connected = FALSE]
  /\ worker' = NoSnapshot("ended")
  /\ UNCHANGED <<exch, socket, engine, quiet, clean, trades>>

\* Either fails, or the dial takes 45 s: degrade, sleep, start over.
StartFails ==
  /\ worker.pc \in {"key", "dial"} /\ Fault
  /\ cache' = [cache EXCEPT !.connected = FALSE]
  /\ worker' = NoSnapshot("key")
  /\ UNCHANGED <<exch, socket, engine, quiet, clean, trades>>

\* reconcile_once: two reads in parallel, each at its own moment.
Anchoring == worker.pc \in {"anchor", "again"}
ReadOrders ==
  /\ Anchoring /\ worker.orders = None
  /\ worker' = [worker EXCEPT !.orders = {Open}]
  /\ UNCHANGED <<exch, socket, cache, engine, quiet, clean, trades, faults>>
ReadPositions ==
  /\ Anchoring /\ worker.held = None
  /\ worker' = [worker EXCEPT !.held = {exch.held}]
  /\ UNCHANGED <<exch, socket, cache, engine, quiet, clean, trades, faults>>

\* Both reads are in: the cache is replaced; the first time it goes online.
Anchor ==
  /\ Anchoring /\ worker.orders # None /\ worker.held # None
  /\ cache' = [reconcile(cache, The(worker.orders), The(worker.held)) EXCEPT
                 !.connected = (worker.pc = "anchor") \/ @]
  /\ worker' = NoSnapshot("loop")
  /\ clean' = TRUE
  /\ UNCHANGED <<exch, socket, engine, quiet, trades, faults>>

\* A read fails: the first anchor gives the connection up, a later one not.
AnchorFails ==
  /\ Anchoring /\ Fault
  /\ IF worker.pc = "anchor"
     THEN /\ cache' = [cache EXCEPT !.connected = FALSE]
          /\ socket' = [up |-> FALSE, events |-> NoEvents]
          /\ worker' = NoSnapshot("key")
     ELSE /\ worker' = NoSnapshot("loop")
          /\ UNCHANGED <<cache, socket>>
  /\ UNCHANGED <<exch, engine, quiet, clean, trades>>

\* The loop: an event is applied, or the interval of 5 minutes is over.
Receive ==
  /\ worker.pc = "loop" /\ socket.events # NoEvents
  /\ cache' = apply_event(cache, Head(socket.events))
  /\ socket' = [socket EXCEPT !.events = Tail(@)]
  /\ UNCHANGED <<exch, worker, engine, quiet, clean, trades, faults>>
ReconcileTick ==
  /\ worker.pc = "loop"
  /\ worker' = NoSnapshot("again")
  /\ UNCHANGED <<exch, socket, cache, engine, quiet, clean, trades, faults>>

\* The socket ends, listenKeyExpired comes, or the keepalive fails; the
\* events still under way are lost with it.
StreamEnds ==
  /\ worker.pc = "loop" /\ Fault
  /\ cache' = [cache EXCEPT !.connected = FALSE]
  /\ socket' = [up |-> FALSE, events |-> NoEvents]
  /\ worker' = NoSnapshot("key")
  /\ UNCHANGED <<exch, engine, quiet, clean, trades>>

(***************************************************************************)
(* The engine's fallback                                                   *)
(***************************************************************************)

\* begin_rest_fallback: nobody else under way, the window of 10 s over; the
\* snapshot is what the exchange answers.
begin_rest_fallback ==
  /\ engine = None /\ ~is_freshOrders /\ ~cache.throttled
  /\ engine' = {Open}
  /\ UNCHANGED <<exch, socket, cache, worker, quiet, clean, trades, faults>>

\* The answer replaces the orders; finish_rest_fallback closes the window.
finish_rest_fallback ==
  /\ engine # None
  /\ \/ /\ cache' = [replace_orders(cache, The(engine)) EXCEPT !.throttled = TRUE]
        /\ clean' = FALSE /\ faults' = faults
     \/ /\ Fault
        /\ cache' = [cache EXCEPT !.throttled = TRUE]
        /\ UNCHANGED clean
  /\ engine' = None
  /\ UNCHANGED <<exch, socket, worker, quiet, trades>>

\* Time: 10 s.
Tick ==
  /\ cache' = [cache EXCEPT !.ordersAge = Least(@ + 1, StaleAfter + 1), !.throttled = FALSE]
  /\ UNCHANGED <<exch, socket, worker, engine, quiet, clean, trades, faults>>

Exchange == PositionMoves \/ \E i \in Ids : Place(i) \/ OrderEnds(i)
Worker ==
  \/ CreateListenKey \/ Connect \/ StartFails \/ ReadOrders \/ ReadPositions
  \/ Anchor \/ AnchorFails \/ Receive \/ ReconcileTick \/ StreamEnds
Engine == begin_rest_fallback \/ finish_rest_fallback

Next == Exchange \/ Worker \/ Engine \/ Tick

Spec == Init /\ [][Next]_vars

\* The worker's select polls the socket and both intervals; requests and the
\* dial have time-outs.  The intervals are much longer than an event takes.
Fairness ==
  /\ WF_vars(CreateListenKey) /\ WF_vars(Connect)
  /\ WF_vars(ReadOrders) /\ WF_vars(ReadPositions) /\ WF_vars(Anchor)
  /\ SF_vars(Receive) /\ WF_vars(ReconcileTick)
  /\ WF_vars(finish_rest_fallback) /\ WF_vars(Tick)
FairSpec == Spec /\ Fairness

(***************************************************************************)
(* Properties                                                              *)
(***************************************************************************)

Event == [type : {"order"}, id : Ids, status : {"open", "gone"}]
           \cup [type : {"account"}, held : BOOLEAN]

TypeOK ==
  /\ exch \in [orders : [Ids -> {"none", "open", "gone"}], held : BOOLEAN]
  /\ socket.up \in BOOLEAN /\ socket.events \in Seq(Event)
  /\ socket.up \/ socket.events = NoEvents
  /\ cache \in [connected : BOOLEAN, orders : SUBSET Ids, held : BOOLEAN,
                ordersOk : BOOLEAN, ordersAge : 0..(StaleAfter + 1),
                throttled : BOOLEAN]
  /\ worker.pc \in {"key", "dial", "anchor", "loop", "again"}
  /\ cache.connected => worker.pc \in {"loop", "again"}
  /\ quiet \subseteq Ids /\ clean \in BOOLEAN
  /\ trades \in 0..MaxTrades /\ faults \in 0..MaxFaults

\* Online, with every event applied and nobody reading, the cache is what
\* the exchange holds, though the snapshot was taken with events still under
\* way and those are applied to it again (run_user_stream anchors after the
\* handshake and never applies an event during a reconcile).  A fallback of
\* the engine that overlapped the stream is excepted; see Converges.
StreamConverges ==
  clean /\ worker.pc = "loop" /\ socket.events = NoEvents =>
    cache.orders = Open /\ cache.held = exch.held

\* Read your writes: an order placed while no snapshot was being read is in
\* every fresh view of the orders for as long as it is open, online and
\* offline (invalidate_orders).
ReadYourWrites ==
  \A i \in quiet : exch.orders[i] = "open" /\ is_freshOrders => i \in cache.orders

\* Once the faults are over the stream is online for good and the cache
\* follows the exchange, whatever an overlapping fallback wrote into it.
EventuallyTracks ==
  <>[](cache.connected /\ cache.orders = Open /\ cache.held = exch.held)

\* A view that is called fresh is true: fed by the stream it is what the exchange
\* holds, and the engine finds its own orders in it.
FreshIsTrue == TypeOK /\ StreamConverges /\ ReadYourWrites
=============================================================================
