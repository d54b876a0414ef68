------------------------------ MODULE Threads ------------------------------
(***************************************************************************)
(* Strategy threads, threads.ts: the record the gateway persists for one   *)
(* plan on one symbol, and reconcileThread, the pure function that derives *)
(* its next status from exchange facts.  Prices, quantities and texts are  *)
(* abstracted away; what reconcileThread compares them for is kept: is the *)
(* position on the thread's side, what the entry order lookup said, is a   *)
(* matching stop among the open orders, how old is the submission.         *)
(***************************************************************************)

Statuses == {"none", "pending_entry", "in_position", "closed", "canceled"}
OPEN_STATUSES == {"pending_entry", "in_position"}
TERMINAL_STATUSES == {"closed", "canceled"}

Attentions == {"none", "ORDER_UNKNOWN", "EXTERNAL_POSITION", "PROTECTION_MISSING",
               "ENTRY_REMAINDER", "CLOSE_FAILED", "HALT_INCOMPLETE", "CANCEL_UNKNOWN"}

\* Is entry_client_order_id, entry_submitting_since, entry_submitted_at set?  A
\* thread sets each at most once, so how long ago that was is kept outside.
ThreadRecords == [status : Statuses, cid : BOOLEAN, submitting : BOOLEAN,
                  submitted : BOOLEAN, attention : Attentions]

\* "none" stands for the row that does not exist yet.
NoThread == [status |-> "none", cid |-> FALSE, submitting |-> FALSE,
             submitted |-> FALSE, attention |-> "none"]

newThread == [NoThread EXCEPT !.status = "pending_entry"]

isOpen(t) == t.status \in OPEN_STATUSES

\* What the account read shows of the symbol, relative to the thread's side.
PositionFacts == {"none", "same", "opposite"}

\* What getOrder(entry_client_order_id) said; GONE is null, unqueried is no query.
\* EXPIRED and REJECTED are judged like CANCELED everywhere and share its name.
OrderFacts == {"unqueried", "GONE", "NEW", "PARTIALLY_FILLED", "FILLED", "CANCELED"}

\* ThreadFacts.  hasStop is the test over open_orders (every path that creates a
\* thread demands a stop price, so a stop is always wanted); grace says whether
\* now is within ATTRIBUTION_GRACE_MS of entry_submitted_at.
Facts == [position : PositionFacts, entry : OrderFacts, hasStop : BOOLEAN, grace : BOOLEAN]

posMatches(f) == f.position = "same"
filled(f) == f.entry \in {"FILLED", "PARTIALLY_FILLED"}
withinSubmitGrace(t, f) == t.submitted /\ f.grace

\* Attentions reconcileThread leaves to the runtime while a position is open.
RuntimeOwned == {"HALT_INCOMPLETE", "ENTRY_REMAINDER", "CLOSE_FAILED"}

\* Mutant: an order that cannot be found is taken for a canceled one.
PendingVerdictNullCancels(t, f) ==
    IF filled(f) /\ posMatches(f) THEN "entry_filled"
    ELSE IF f.position = "none" /\ t.cid /\ f.entry \in {"CANCELED", "GONE"} THEN "canceled"
    ELSE "keep"

\* The order-sensitive chain of a pending thread.
PendingVerdict(t, f) ==
    CASE filled(f) /\ posMatches(f) -> "entry_filled"
      [] ~filled(f) /\ f.position # "none" /\ t.cid ->
            IF (posMatches(f) /\ withinSubmitGrace(t, f)) \/ t.attention = "EXTERNAL_POSITION"
            THEN "keep" ELSE "external"
      [] ~filled(f) /\ f.position = "none" /\ t.cid /\ f.entry = "CANCELED" -> "canceled"
      [] ~filled(f) /\ f.position = "none" /\ t.cid /\ f.entry = "GONE" ->
            IF withinSubmitGrace(t, f) THEN "keep" ELSE "order_unknown"
      [] OTHER ->
            IF t.cid /\ f.entry \in {"NEW", "PARTIALLY_FILLED", "FILLED"} /\ t.attention = "ORDER_UNKNOWN"
            THEN "order_found" ELSE "keep"

\* Mutant: the stop is not looked for.
PositionVerdictNoStop(t, f) == IF posMatches(f) THEN "keep" ELSE "closed"

\* An open position: gone, left to the runtime, or judged by its stop.
PositionVerdict(t, f) ==
    CASE ~posMatches(f) -> "closed"
      [] posMatches(f) /\ t.attention \in RuntimeOwned -> "keep"
      [] posMatches(f) /\ t.attention \notin RuntimeOwned ->
            IF ~f.hasStop /\ t.attention # "PROTECTION_MISSING" THEN "unprotected"
            ELSE IF f.hasStop /\ t.attention # "none" THEN "protected" ELSE "keep"

Verdict(t, f) ==
    CASE t.status = "pending_entry" -> PendingVerdict(t, f)
      [] t.status = "in_position" -> PositionVerdict(t, f)
      [] OTHER -> "keep"

\* The thread after a verdict.  order_unknown also counts a miss on every pass.
Apply(t, f, v) ==
    CASE v = "entry_filled" -> [t EXCEPT !.status = "in_position",
                                         !.attention = IF f.entry = "PARTIALLY_FILLED" THEN "ENTRY_REMAINDER" ELSE "none"]
      [] v = "external" -> [t EXCEPT !.attention = "EXTERNAL_POSITION"]
      [] v = "canceled" -> [t EXCEPT !.status = "canceled", !.attention = "none"]
      [] v = "order_unknown" -> [t EXCEPT !.attention = "ORDER_UNKNOWN"]
      [] v = "order_found" -> [t EXCEPT !.attention = "none"]
      [] v = "closed" -> [t EXCEPT !.status = "closed", !.attention = "none"]
      [] v = "unprotected" -> [t EXCEPT !.attention = "PROTECTION_MISSING"]
      [] v = "protected" -> [t EXCEPT !.attention = "none"]
      [] OTHER -> t

reconcileThread(t, f) == Apply(t, f, Verdict(t, f))
=============================================================================
