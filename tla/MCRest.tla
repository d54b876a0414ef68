------------------------------- MODULE MCRest -------------------------------
(***************************************************************************)
(* Two tasks on one client: an order and a read, a close and a read, a      *)
(* setting and a ping, two reads of which one is dearer than the bucket.    *)
(***************************************************************************)
EXTENDS Rest, TLC

CONSTANTS t1, t2

MCTasks == {t1, t2}
Both == {"BOTH"}
HedgeLegs == {"LONG", "SHORT"}
MCPrograms ==
  { (t1 :> "place" @@ t2 :> "positions"),
    (t1 :> "close_position" @@ t2 :> "get_order"),
    (t1 :> "set_margin_type" @@ t2 :> "ping"),
    (t1 :> "mark_price" @@ t2 :> "open_orders") }
TornReads == {"v2", "order", "time"}
TornWrites == {"post"}
PlaceAlone == { (t1 :> "place" @@ t2 :> "get_order") }
CloseAlone == { (t1 :> "close_position" @@ t2 :> "get_order") }

(***************************************************************************)
(* Formulas known to fail; see the README.                                 *)
(***************************************************************************)

\* No send at all, resends included, while a known ban lasts.
NoSendIntoKnownBan ==
  [][\A t \in Tasks :
       task[t].pc # "flight" /\ task'[t].pc = "flight" => told = 0]_vars

\* -1021 is final only where the clock really was off at some point: fails,
\* because the timestamp is taken before the wait for the bucket and before
\* the resends of a GET.
SkewMeansDrift ==
  \A t \in Tasks : task[t].verdict = "clock_skew" => faults > 0

=============================================================================
