---------------------------- MODULE JudgmentGraph ----------------------------
(***************************************************************************)
(* graph.ts: the node at which a symbol is judged, the actions a model may *)
(* pick there, and what the runtime does then.  A review is at the node of *)
(* its thread's status; a scan has no thread (status "none").              *)
(***************************************************************************)
Actions == {"NO_TRADE", "WATCH", "PROPOSE", "HOLD", "INVALIDATE", "REDUCE", "EXIT", "ADD"}

nodeFor(status, halted, stale, watch_only) ==
    CASE status # "none" -> status
      [] status = "none" /\ halted -> "scan_halted"
      [] status = "none" /\ ~halted /\ stale -> "scan_stale"
      [] status = "none" /\ ~halted /\ ~stale -> IF watch_only THEN "scan_watch_only" ELSE "scan"

allowedActions(node) ==
    CASE node = "scan" -> {"NO_TRADE", "WATCH", "PROPOSE"}
      [] node = "scan_halted" -> {"NO_TRADE"}
      [] node \in {"scan_stale", "scan_watch_only"} -> {"NO_TRADE", "WATCH"}
      [] node = "pending_entry" -> {"HOLD", "INVALIDATE"}
      [] node = "in_position" -> {"HOLD", "REDUCE", "EXIT", "INVALIDATE"}
      [] OTHER -> {}

edgeFor(status, action) ==
    IF action \notin allowedActions(status) THEN "none"
    ELSE CASE action = "INVALIDATE" /\ status = "pending_entry" -> "cancel_entry"
           [] action = "REDUCE" -> "reduce_half"
           [] action = "EXIT" \/ (action = "INVALIDATE" /\ status # "pending_entry") -> "close"
           [] OTHER -> "none"
=============================================================================
