---------------------------- MODULE MCTradeLoop ----------------------------
(***************************************************************************)
(* Instances of TradeLoop for TLC: who acts, and what goes wrong.          *)
(***************************************************************************)
EXTENDS TradeLoop

Nobody == {}
Approver == {"reject"}
Closers == {"ui_close", "order_close", "review"}
Halter == {"halt", "resume", "ui_close"}
HaltOnly == {"halt"}
Chat == {"chat_close"}
Everybody == ActorKinds

\* A fault-free exchange on which nothing unusual happens.
Calm == {}
\* Everything but entries that fill in part or expire, and positions that leave: a
\* thread has one entry, so nothing is owed any more behind one that has left.
Outages == {"error", "unknown", "late", "lag", "no_cancel", "stop_lost", "crash"}
\* Receipts are lost or late, positions come and go, every query is answered.
LostReceipts == {"leave", "unknown", "late", "lag"}
HaltTroubles == {"leave", "error", "no_cancel", "unknown", "stop_lost", "crash"}
Leaving == {"leave"}
StopLoss == {"stop_lost"}
LostReceipt == {"unknown"}
PartialUnknown == {"partial", "unknown"}
PartialFills == {"partial", "no_cancel"}
PartialLag == {"partial", "no_cancel", "lag"}
PartialOrExpired == {"partial", "expire", "no_cancel"}
MarketMoves == {"partial", "expire"}

-----------------------------------------------------------------------------
(***************************************************************************)
(* Statements of the code's comments and documents that the code does not  *)
(* live up to, kept to be tried by hand: each names the Actors and         *)
(* Troubles under which TLC finds a counterexample.  Properties of the      *)
(* runs fail outside their instances:                                      *)
(*   RemainderIsCanceled with Nobody, PartialLag and two faults;           *)
(*   EndsOnExchangeFact with Chat, Calm, one request, Restored = {t1};     *)
(*   StopOrFlat and OrdersOwned with Nobody, Calm and Fifo = FALSE (a pass *)
(*     judges rows by an account read from before the fill);               *)
(*   NoOrphan with Closers, Calm, one request (a close overtakes the entry *)
(*     request in flight; the missing order counts as canceled);           *)
(*   HaltFlattens with HaltOnly, Calm, one request (the entry in flight    *)
(*     fills after its thread has ended).                                  *)
(***************************************************************************)

\* A thread flagged PROTECTION_MISSING is tried again: it does not stay that way
\* with its position open.  Fails with Nobody, StopLoss with one fault.
ProtectionIsRetried ==
    \A t \in ThreadIds : (thr[t].attention = "PROTECTION_MISSING" /\ isOpen(thr[t]) /\ Naked)
                            ~> (~Naked \/ ~isOpen(thr[t]) \/ \E p \in Procs : op[p].pc = "stop_place" /\ op[p].tid = t)

\* A filled entry takes its thread out of pending_entry, or raises a flag.
\* Fails with Nobody, Leaving.
FilledIsNoticed ==
    \A t \in ThreadIds : (thr[t].status = "pending_entry" /\ order[t] = "FILLED")
                            ~> (thr[t].status # "pending_entry" \/ thr[t].attention # "none")

\* Once a thread has ended, its open intent is decided as well.
\* Fails with HaltOnly with one request, Calm.
IntentsSettle ==
    \A t \in ThreadIds : thr[t].status \in TERMINAL_STATUSES
                            ~> (isOpen(thr[t]) \/ intent[t] \in {"rejected", "filled", "failed"})

\* An entry that ended leads to canceled only when there is no position: a part
\* of it may have filled first.
\* Fails with Nobody, PartialUnknown with one fault.
CanceledOnlyWhenFlat ==
    [][\A t \in ThreadIds : (isOpen(thr[t]) /\ thr'[t].status = "canceled") => ~pos]_vars

\* An entry order the exchange does not know ends its thread.
\* Fails with Nobody, LostReceipt with one fault.
GoneIsCanceled ==
    \A t \in ThreadIds : (isOpen(thr[t]) /\ thr[t].submitted /\ order[t] = "none" /\ ~pos)
                            ~> (~isOpen(thr[t]) \/ order[t] # "none")

\* closed and canceled are final: no late writer brings an ended thread back.
\* Fails with Nobody, Calm.
TerminalIsFinal ==
    [][\A t \in ThreadIds : thr[t].status \in TERMINAL_STATUSES => thr'[t].status = thr[t].status]_vars
=============================================================================
