--------------------------- MODULE MCAccountStream ---------------------------
(***************************************************************************)
(* An order, a position that opens and closes, and two failures.            *)
(***************************************************************************)
EXTENDS AccountStream

CONSTANT o1
MCIds == {o1}

(***************************************************************************)
(* Formulas known to fail; see the README.                                 *)
(***************************************************************************)

\* StreamConverges whatever the engine's fallback wrote: fails when an event
\* is applied between its read and its replace_orders.
Converges ==
  worker.pc = "loop" /\ socket.events = NoEvents /\ engine = None =>
    cache.orders = Open /\ cache.held = exch.held

\* What the comment of invalidate_orders says: after a write the next read
\* goes to REST or is stale, so a fresh view has the order.  Fails when a
\* reconcile has read its snapshot before the write.
ReadAfterInvalidate ==
  \A i \in Ids : exch.orders[i] = "open" /\ is_freshOrders => i \in cache.orders

=============================================================================
