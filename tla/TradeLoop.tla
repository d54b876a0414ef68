----------------------------- MODULE TradeLoop -----------------------------
(***************************************************************************)
(* The trading loop of the gateway, runtime.ts: executeOpen, the account   *)
(* poll with its reconciliation pass, placeProtection, halt, the closing   *)
(* paths and a restart, interleaved at every await.                        *)
(*                                                                         *)
(* A process is an asynchronous function in progress.  At an await it has  *)
(* asked the backend for something; Serve is the exchange acting on the    *)
(* request and fixing the reply, and a later step of the process consumes  *)
(* the reply.  Whatever the code read before the await (op[p].th) is used  *)
(* after it unless the code reads it again.                                *)
(*                                                                         *)
(* One symbol, one direction: openingBlockers admits one open thread per   *)
(* symbol, and the backends trade one-way accounts.                        *)
(***************************************************************************)
EXTENDS Threads, Naturals

CONSTANTS ThreadIds,   \* strategy threads that may be created on the symbol
          Actors,      \* what people and the model do besides opening
          Troubles,    \* what the exchange, the network and the host do
          MaxFaults,   \* bound on the faults of a behaviour
          MaxRequests, \* bound on what the actors request in a behaviour
          Fifo,        \* replies come back in the order requests were acted on
          GoneIsOk,    \* cancelOrder of an order that is not live reports success
          OneRun,      \* the backend offers openWithProtection, for market entries
          Restored     \* threads found in position, protected, when the gateway starts

ActorKinds == {"halt", "resume", "reject", "ui_close", "order_close", "chat_close",
               "review", "order_open"}
TroubleKinds == {"partial", "expire", "leave", "error", "unknown", "late", "lag",
                 "no_cancel", "stop_lost", "crash"}

ASSUME ThreadIdsAssumption == ThreadIds \cap {"poller", "halter", "closer"} = {}
ASSUME ActorsAssumption == Actors \subseteq ActorKinds
ASSUME TroublesAssumption == Troubles \subseteq TroubleKinds
ASSUME BoundsAssumption == MaxFaults \in Nat /\ MaxRequests \in Nat
ASSUME FlagsAssumption == Fifo \in BOOLEAN /\ GoneIsOk \in BOOLEAN /\ OneRun \in BOOLEAN
\* One open thread per symbol.
ASSUME RestoredAssumption == Restored \subseteq ThreadIds /\ \A t, u \in Restored : t = u

VARIABLES
    thr,      \* thread rows in the store
    intent,   \* status of the open intent of each thread
    closing,  \* close intents proposed in the chat that await approval
    halted,   \* persisted as demo.halted
    acct,     \* this.account shows a position
    timer,    \* which time limits of a thread are still running
    op,       \* the asynchronous functions in progress
    snap,     \* the account read of the reconciliation pass in progress
    todo,     \* the thread copies this pass has not looked at yet
    order,    \* the entry order of each thread at the exchange
    pos,      \* the exchange holds a position on the symbol
    stop,     \* a stop that closes the position is live at the exchange
    sent,     \* placeEntry requests made for each thread
    faults,   \* faults so far
    requests  \* requests of the actors so far

store == <<thr, intent, closing, halted>>
memory == <<acct, timer, op, snap, todo>>
exchange == <<order, pos, stop>>
vars == <<store, memory, exchange, sent, faults, requests>>

\* executeOpen of thread t runs as process t: the approving set admits one.
Procs == ThreadIds \cup {"poller", "halter", "closer"}

IntentStatuses == {"none", "pending_approval", "approved", "rejected", "submitted",
                   "filled", "failed", "unknown"}

OrderStates == {"none", "late", "NEW", "PARTIALLY_FILLED", "FILLED", "CANCELED"}
LiveOrder == {"NEW", "PARTIALLY_FILLED"}

AccountViews == [pos : BOOLEAN, stop : BOOLEAN, live : BOOLEAN]
NoView == [pos |-> FALSE, stop |-> FALSE, live |-> FALSE]

\* SUBMIT_PHASE_MAX_MS since entry_submitting_since, ATTRIBUTION_GRACE_MS since
\* entry_submitted_at, 60 s since protectionRetryAt.
Timers == [phase : BOOLEAN, grace : BOOLEAN, retry : BOOLEAN]
NoTimer == [phase |-> FALSE, grace |-> FALSE, retry |-> FALSE]

Replies == {"none", "ok", "error", "unknown", "failed", "submitted", "filled",
            "yes", "no", "closed", "notclosed", "GONE", "NEW", "PARTIALLY_FILLED",
            "FILLED", "CANCELED"}

\* The backend call each await point is waiting for.
Call == [prop_account |-> "account", open_account |-> "account", open_setup |-> "setup",
         open_entry |-> "placeEntry", open_both |-> "openWithProtection", open_lookup |-> "getOrder",
         stop_place |-> "placeStop", stop_seen |-> "algoOrderExists",
         stop_again |-> "placeStop", stop_close |-> "closePosition", tp_place |-> "placeTakeProfit",
         poll_account |-> "account", rem_lookup |-> "getOrder", rem_cancel |-> "cancelOrder",
         rec_lookup |-> "getOrder", part_cancel |-> "cancelOrder", closed_cancel |-> "cancelAll",
         rh_cancel |-> "cancelAll", rh_close |-> "closePosition", rh_account |-> "account",
         halt_cancel |-> "cancelAll", halt_close |-> "closePosition",
         entry_cancel |-> "cancelOrder", close_cancel |-> "cancelAll",
         close_position |-> "closePosition", close_account |-> "account",
         flat_cancel |-> "cancelAll", flat_close |-> "closePosition"]

AwaitPoints == DOMAIN Call

\* What openWithProtection reports of the stop it sends behind a filled entry; due:
\* the entry has filled and the run is about to send the stop; none: there is no
\* such report (placed is undefined).
Legs == {"none", "due", "submitted", "failed", "unknown"}

\* tid and th: the thread worked on and the copy in hand; ok: what an earlier
\* call of the same function reported; rep and view: the reply not yet consumed;
\* leg: the report on the stop, kept until executeOpen returns.
Frames == [pc : AwaitPoints \cup {"idle", "next"}, tid : ThreadIds \cup {"none"},
           th : ThreadRecords, ok : BOOLEAN, rep : Replies, view : AccountViews, leg : Legs]
Idle == [pc |-> "idle", tid |-> "none", th |-> NoThread, ok |-> TRUE,
         rep |-> "none", view |-> NoView, leg |-> "none"]

-----------------------------------------------------------------------------
\* Control flow of the asynchronous functions, as functions of the frames o.

Await(o, p, pc, t, th, ok) ==
    [o EXCEPT ![p] = [Idle EXCEPT !.pc = pc, !.tid = t, !.th = th, !.ok = ok, !.leg = o[p].leg]]

Return(o, p) == [o EXCEPT ![p] = Idle]

\* pollAccount is single-flight: a call while a pass runs joins that pass.
pollAccount(o) ==
    IF o["poller"].pc = "idle" THEN [o EXCEPT !["poller"] = [Idle EXCEPT !.pc = "poll_account"]]
    ELSE o

\* The poller goes on to the next thread of its pass.  Threads of other symbols
\* may come first, so any amount of time can go by before the next one's turn.
NextThread(o) == [o EXCEPT !["poller"] = [Idle EXCEPT !.pc = "next"]]

\* What follows placeProtection in its two callers.
AfterProtection(o, p) ==
    IF p = "poller" THEN NextThread(o) ELSE pollAccount(Return(o, p))

\* A reply for process p at await point pc is there to be consumed.
Replied(p, pc) == op[p].pc = pc /\ op[p].rep # "none"

Save(t, th) == thr' = [thr EXCEPT ![t] = th]
SetIntent(t, s) == intent' = [intent EXCEPT ![t] = s]

openThreads == {t \in ThreadIds : isOpen(thr[t])}

\* resolveOpenIntents: the thread ended, no intent of it stays undecided.
resolveOpenIntents(t, fallback) ==
    /\ closing' = [closing EXCEPT ![t] = 0]
    /\ SetIntent(t, CASE intent[t] = "pending_approval" -> "rejected"
                      [] intent[t] \in {"unknown", "approved", "submitted"} -> fallback
                      [] OTHER -> intent[t])

\* resolveUnknownIntents: the entry order was found, thaw the parked intent.
resolveUnknownIntents(t, found) ==
    SetIntent(t, IF intent[t] # "unknown" THEN intent[t]
                 ELSE CASE found = "FILLED" -> "filled"
                        [] found = "CANCELED" -> "failed"
                        [] found = "GONE" -> "unknown"
                        [] OTHER -> "submitted")
-----------------------------------------------------------------------------
\* The exchange, as the backends of execution*.ts present it.

Fault(k) == k \in Troubles /\ faults < MaxFaults /\ faults' = faults + 1

\* Process p waits for this call and has no reply; a FIFO channel lets no second
\* request act before the reply to the first has been consumed.
Asked(p, call) ==
    /\ op[p].pc \in AwaitPoints
    /\ Call[op[p].pc] = call
    /\ op[p].rep = "none"
    /\ Fifo => \A q \in Procs : op[q].rep = "none"

Answer(p, rep, view) == op' = [op EXCEPT ![p].rep = rep, ![p].view = view]

\* The report of openWithProtection.
AnswerRun(p, rep, leg) == op' = [op EXCEPT ![p].rep = rep, ![p].leg = leg]

ServedVars == <<store, acct, timer, snap, todo, sent, requests>>

account(p) ==
    /\ Asked(p, "account")
    /\ \/ /\ Answer(p, "ok", [pos |-> pos, stop |-> stop,
                              live |-> \E t \in ThreadIds : order[t] \in LiveOrder])
          /\ UNCHANGED faults
       \/ Fault("error") /\ Answer(p, "error", NoView)
    /\ UNCHANGED <<ServedVars, exchange>>

\* The sizing check, setLeverage and setMarginType of executeOpen: any may refuse.
setup(p) ==
    /\ Asked(p, "setup")
    /\ \E rep \in {"ok", "error"} : Answer(p, rep, NoView)
    /\ UNCHANGED <<ServedVars, exchange, faults>>

placeEntry(p) ==
    /\ Asked(p, "placeEntry")
    /\ \/ /\ Answer(p, "submitted", NoView)
          /\ order' = [order EXCEPT ![op[p].tid] = "NEW"]
          /\ UNCHANGED <<pos, faults>>
       \/ /\ Answer(p, "filled", NoView)
          /\ order' = [order EXCEPT ![op[p].tid] = "FILLED"]
          /\ pos' = TRUE
          /\ UNCHANGED faults
       \/ Answer(p, "failed", NoView) /\ UNCHANGED <<order, pos, faults>>
       \/ /\ Fault("unknown")
          /\ Answer(p, "unknown", NoView)
          /\ \E s \in {"none", "NEW", "FILLED"} \cup ({"late"} \cap Troubles) :
                /\ order' = [order EXCEPT ![op[p].tid] = s]
                /\ pos' = (pos \/ s = "FILLED")
    /\ UNCHANGED <<ServedVars, stop>>

\* openWithProtection of the agent backend: one run sends the entry and, only when
\* it has filled, the stop.  The two are requests of their own, others may act in
\* between; a stop without a position is refused, one that was not sent counts as
\* failed.  Whatever is missing from the report is unknown.
EntryLeg(p) ==
    /\ op[p].leg = "none"
    /\ \/ /\ AnswerRun(p, "none", "due")
          /\ order' = [order EXCEPT ![op[p].tid] = "FILLED"]
          /\ pos' = TRUE
          /\ UNCHANGED faults
       \/ /\ AnswerRun(p, "submitted", "failed")
          /\ order' = [order EXCEPT ![op[p].tid] = "NEW"]
          /\ UNCHANGED <<pos, faults>>
       \/ AnswerRun(p, "failed", "failed") /\ UNCHANGED <<order, pos, faults>>
       \/ /\ Fault("unknown")
          /\ \E leg \in {"failed", "unknown"} : AnswerRun(p, "unknown", leg)
          /\ \E s \in {"none", "NEW"} \cup ({"late"} \cap Troubles) :
                order' = [order EXCEPT ![op[p].tid] = s]
          /\ UNCHANGED pos
    /\ UNCHANGED stop

StopLeg(p) ==
    /\ op[p].leg = "due"
    /\ \/ AnswerRun(p, "filled", IF pos THEN "submitted" ELSE "failed") /\ stop' = pos /\ UNCHANGED faults
       \/ Fault("error") /\ AnswerRun(p, "filled", "failed") /\ UNCHANGED stop
       \/ /\ Fault("unknown")
          /\ stop' \in {stop, pos}
          /\ \/ \E rep \in {"filled", "unknown"} : AnswerRun(p, rep, "unknown")
             \/ AnswerRun(p, "unknown", IF stop' THEN "submitted" ELSE "failed")
    /\ UNCHANGED <<order, pos>>

openWithProtection(p) ==
    /\ Asked(p, "openWithProtection")
    /\ EntryLeg(p) \/ StopLeg(p)
    /\ UNCHANGED ServedVars

getOrder(p) ==
    /\ Asked(p, "getOrder")
    /\ LET s == order[op[p].tid] IN
       \/ Answer(p, IF s \in {"none", "late"} THEN "GONE" ELSE s, NoView) /\ UNCHANGED faults
       \/ Fault("lag") /\ Answer(p, "GONE", NoView)
       \/ Fault("error") /\ Answer(p, "error", NoView)
    /\ UNCHANGED <<ServedVars, exchange>>

CancelLive(s) == IF s \in LiveOrder THEN "CANCELED" ELSE s

cancelOrder(p) ==
    /\ Asked(p, "cancelOrder")
    /\ LET t == op[p].tid
           canceled == [order EXCEPT ![t] = CancelLive(@)] IN
       \/ /\ Answer(p, IF order[t] \in LiveOrder \/ GoneIsOk THEN "ok" ELSE "error", NoView)
          /\ order' = canceled
          /\ UNCHANGED faults
       \/ Fault("no_cancel") /\ Answer(p, "error", NoView) /\ order' \in {order, canceled}
    /\ UNCHANGED <<ServedVars, pos, stop>>

\* Plain and conditional orders are canceled by two requests: one may fail.
cancelAll(p) ==
    /\ Asked(p, "cancelAll")
    /\ LET canceled == [t \in ThreadIds |-> CancelLive(order[t])] IN
       \/ Answer(p, "ok", NoView) /\ order' = canceled /\ stop' = FALSE /\ UNCHANGED faults
       \/ /\ Fault("error") /\ Answer(p, "error", NoView)
          /\ order' \in {order, canceled} /\ stop' \in {stop, FALSE}
    /\ UNCHANGED <<ServedVars, pos>>

\* The stop closes the whole position and goes with it.
closePosition(p) ==
    /\ Asked(p, "closePosition")
    /\ \/ /\ Answer(p, IF pos THEN "closed" ELSE "notclosed", NoView)
          /\ pos' = FALSE /\ stop' = FALSE /\ UNCHANGED faults
       \/ Fault("error") /\ Answer(p, "error", NoView) /\ UNCHANGED <<pos, stop>>
       \/ Fault("error") /\ Answer(p, "error", NoView) /\ pos' = FALSE /\ stop' = FALSE
    /\ UNCHANGED <<ServedVars, order>>

\* A second stop is refused with -4130 or as a duplicate id, which placeProtection
\* reads as submitted; without a position the stop is refused.
placeStop(p) ==
    /\ Asked(p, "placeStop")
    /\ \/ Answer(p, IF pos THEN "submitted" ELSE "failed", NoView) /\ stop' = pos /\ UNCHANGED faults
       \/ Fault("error") /\ Answer(p, "failed", NoView) /\ UNCHANGED stop
       \/ Fault("unknown") /\ Answer(p, "unknown", NoView) /\ stop' \in {stop, pos}
    /\ UNCHANGED <<ServedVars, order, pos>>

\* "error" is null, the uncertain answer; a backend without this query asks
\* getOrder, to which conditional orders are invisible, and gets null as well.
algoOrderExists(p) ==
    /\ Asked(p, "algoOrderExists")
    /\ \/ Answer(p, IF stop THEN "yes" ELSE "no", NoView) /\ UNCHANGED faults
       \/ Fault("error") /\ Answer(p, "error", NoView)
    /\ UNCHANGED <<ServedVars, exchange>>

\* The take profit is optional: whatever it answers, placeProtection goes on.
placeTakeProfit(p) ==
    /\ Asked(p, "placeTakeProfit")
    /\ Answer(p, "ok", NoView)
    /\ UNCHANGED <<ServedVars, exchange, faults>>

Serve(p) ==
    \/ account(p) \/ setup(p) \/ placeEntry(p) \/ openWithProtection(p) \/ getOrder(p)
    \/ cancelOrder(p) \/ cancelAll(p) \/ closePosition(p) \/ placeStop(p) \/ algoOrderExists(p) \/ placeTakeProfit(p)

ElsewhereVars == <<store, memory, sent, requests>>

EntryArrives(t) ==
    /\ order[t] = "late"
    /\ order' = [order EXCEPT ![t] = "NEW"]
    /\ UNCHANGED <<ElsewhereVars, pos, stop, faults>>

EntryFills(t) ==
    /\ \/ order[t] \in LiveOrder /\ order' = [order EXCEPT ![t] = "FILLED"]
       \/ /\ "partial" \in Troubles /\ order[t] = "NEW"
          /\ order' = [order EXCEPT ![t] = "PARTIALLY_FILLED"]
    /\ pos' = TRUE
    /\ UNCHANGED <<ElsewhereVars, stop, faults>>

\* Expired by the exchange, or canceled there by a person.
EntryExpires(t) ==
    /\ "expire" \in Troubles
    /\ order[t] \in LiveOrder
    /\ order' = [order EXCEPT ![t] = "CANCELED"]
    /\ UNCHANGED <<ElsewhereVars, pos, stop, faults>>

\* The stop or the take profit fires, or a person closes at the exchange.
PositionLeaves ==
    /\ "leave" \in Troubles
    /\ pos
    /\ pos' = FALSE /\ stop' = FALSE
    /\ UNCHANGED <<ElsewhereVars, order, faults>>

StopLost ==
    /\ stop
    /\ Fault("stop_lost")
    /\ stop' = FALSE
    /\ UNCHANGED <<ElsewhereVars, order, pos>>

TimeLimitPasses(t) ==
    /\ \E k \in DOMAIN NoTimer : timer[t][k] /\ timer' = [timer EXCEPT ![t][k] = FALSE]
    /\ UNCHANGED <<store, acct, op, snap, todo, exchange, sent, faults, requests>>
-----------------------------------------------------------------------------
\* placeProtection(tIn) called by p; row and limits are what the step has just
\* written: the row is read again, so the copy in hand is fresh.

placeProtection(p, t, tIn, row, limits) ==
    IF tIn.status # "in_position" \/ halted \/ limits[t].retry
    THEN op' = AfterProtection(op, p) /\ timer' = limits
    ELSE /\ op' = Await(op, p, "stop_place", t, row, TRUE)
         /\ timer' = [limits EXCEPT ![t].retry = TRUE]

ProtectionVars == <<halted, acct, timer, snap, todo, exchange, sent, faults, requests>>

\* The row at the end of placeProtection.
Protected(row) == [row EXCEPT !.attention = IF @ = "ENTRY_REMAINDER" THEN @ ELSE "none"]

\* The stop is live: mint and save the take profit's id from the copy in hand, or
\* finish with a fresh read of the row.  The take profit of openWithProtection has
\* its receipt already.
StopIsOn(p, t, th) ==
    \/ /\ op[p].leg = "none"
       /\ Save(t, th)
       /\ op' = Await(op, p, "tp_place", t, th, TRUE)
    \/ Save(t, Protected(thr[t])) /\ op' = AfterProtection(op, p)

\* The stop failed: flatten at once.  The close id is minted on the copy in hand.
Compensate(p, t, th) == Save(t, th) /\ op' = Await(op, p, "stop_close", t, th, TRUE)

\* Mutant: an unknown answer is taken for a stop that is on.
StopPlacedUnknownIsOn(p) ==
    /\ Replied(p, "stop_place")
    /\ LET t == op[p].tid
           th == op[p].th IN
       \/ op[p].rep \in {"submitted", "unknown"} /\ StopIsOn(p, t, th)
       \/ op[p].rep = "failed" /\ Compensate(p, t, th)
    /\ UNCHANGED <<intent, closing, ProtectionVars>>

\* placeProtection of a row just written, when openWithProtection has sent the stop
\* already: its receipt is consumed at once, no call is made for it.
StopReported(t, row) ==
    \/ /\ op[t].leg = "submitted"
       /\ Save(t, Protected(row))
       /\ op' = AfterProtection(op, t)
    \/ op[t].leg = "failed" /\ Compensate(t, t, row)
    \/ /\ op[t].leg = "unknown"
       /\ Save(t, row)
       /\ op' = Await(op, t, "stop_seen", t, row, TRUE)

\* First answer to placeStop.
StopPlaced(p) ==
    /\ Replied(p, "stop_place")
    /\ LET t == op[p].tid
           th == op[p].th IN
       \/ op[p].rep = "submitted" /\ StopIsOn(p, t, th)
       \/ op[p].rep = "failed" /\ Compensate(p, t, th)
       \/ op[p].rep = "unknown" /\ op' = Await(op, p, "stop_seen", t, th, TRUE) /\ UNCHANGED thr
    /\ UNCHANGED <<intent, closing, ProtectionVars>>

\* Was the unknown stop accepted?  An uncertain answer keeps the position, flagged.
StopSeen(p) ==
    /\ Replied(p, "stop_seen")
    /\ LET t == op[p].tid
           th == op[p].th IN
       \/ op[p].rep = "yes" /\ StopIsOn(p, t, th)
       \/ op[p].rep = "no" /\ op' = Await(op, p, "stop_again", t, th, TRUE) /\ UNCHANGED thr
       \/ /\ op[p].rep = "error"
          /\ Save(t, [th EXCEPT !.attention = "PROTECTION_MISSING"])
          /\ op' = AfterProtection(op, p)
    /\ UNCHANGED <<intent, closing, ProtectionVars>>

\* Answer to the one re-send with the same id.
StopPlacedAgain(p) ==
    /\ Replied(p, "stop_again")
    /\ LET t == op[p].tid
           th == op[p].th IN
       \/ op[p].rep = "submitted" /\ StopIsOn(p, t, th)
       \/ op[p].rep \in {"failed", "unknown"} /\ Compensate(p, t, th)
    /\ UNCHANGED <<intent, closing, ProtectionVars>>

\* Answer to the compensating close.
Compensated(p) ==
    /\ Replied(p, "stop_close")
    /\ LET t == op[p].tid
           th == op[p].th IN
       \/ /\ op[p].rep = "closed"
          /\ Save(t, [th EXCEPT !.status = "closed", !.attention = "none"])
          /\ resolveOpenIntents(t, "filled")
       \/ /\ op[p].rep \in {"notclosed", "error"}
          /\ Save(t, [th EXCEPT !.attention = "CLOSE_FAILED"])
          /\ UNCHANGED <<intent, closing>>
    /\ op' = AfterProtection(op, p)
    /\ UNCHANGED ProtectionVars

TakeProfitPlaced(p) ==
    /\ Replied(p, "tp_place")
    /\ LET t == op[p].tid IN
       Save(t, Protected(thr[t]))
    /\ op' = AfterProtection(op, p)
    /\ UNCHANGED <<intent, closing, ProtectionVars>>

ProtectionStep(p) ==
    \/ StopPlaced(p) \/ StopSeen(p) \/ StopPlacedAgain(p) \/ Compensated(p) \/ TakeProfitPlaced(p)

-----------------------------------------------------------------------------
\* Opening: openThreadFromProposal and executeOpen.

OpenVars == <<closing, halted, snap, todo, exchange, faults, requests>>

\* A thread id nothing has been stored under.
Fresh(t) == thr[t].status = "none" /\ intent[t] = "none"

\* A proposal: rules and account are read before the opening gates.
openThreadFromProposal(t) ==
    /\ op[t].pc = "idle"
    /\ Fresh(t)
    /\ op' = Await(op, t, "prop_account", t, NoThread, TRUE)
    /\ UNCHANGED <<OpenVars, thr, intent, acct, timer, sent>>

\* The thread and its open intent, awaiting approval; or an unusable size.
CreateThread(t) ==
    \/ Save(t, newThread) /\ SetIntent(t, "pending_approval")
    \/ Save(t, [newThread EXCEPT !.status = "canceled"]) /\ SetIntent(t, "rejected")

\* preflightOpen without the thread itself.  Pause, the daily limits and the
\* symbol's state may block as well: a step that passes may always be refused too.
Blocked(t, position) == halted \/ position \/ openThreads \ {t} # {}

\* The read is in: the gates are evaluated on it however old it is by now.
ProposalPriced(t) ==
    /\ Replied(t, "prop_account")
    /\ op' = Return(op, t)
    /\ \/ op[t].rep = "error" /\ UNCHANGED <<thr, intent, acct>>
       \/ op[t].rep = "ok" /\ acct' = op[t].view.pos /\ UNCHANGED <<thr, intent>>
       \/ /\ op[t].rep = "ok" /\ acct' = op[t].view.pos
          /\ ~Blocked(t, op[t].view.pos)
          /\ CreateThread(t)
    /\ UNCHANGED <<OpenVars, timer, sent>>

\* The order panel opens on the account read it has; executeOpen follows.
manualOrderOpen(t) ==
    /\ "order_open" \in Actors
    /\ op[t].pc = "idle"
    /\ Fresh(t)
    /\ ~Blocked(t, acct)
    /\ Save(t, newThread) /\ SetIntent(t, "pending_approval")
    /\ UNCHANGED <<OpenVars, acct, timer, op, sent>>

\* approveIntent or the automatic path: mint the client order id and persist it
\* before the first call.
executeOpen(t) ==
    /\ op[t].pc = "idle"
    /\ intent[t] = "pending_approval"
    /\ thr[t].status = "pending_entry"
    /\ ~thr[t].cid
    /\ ~halted
    /\ Save(t, [thr[t] EXCEPT !.cid = TRUE, !.submitting = TRUE, !.submitted = FALSE])
    /\ SetIntent(t, "approved")
    /\ timer' = [timer EXCEPT ![t].phase = TRUE]
    /\ op' = Await(op, t, "open_account", t, NoThread, TRUE)
    /\ UNCHANGED <<OpenVars, acct, sent>>

\* abort: nothing was sent.
AbortOpen(t) ==
    /\ SetIntent(t, "rejected")
    /\ Save(t, [thr[t] EXCEPT !.status = "canceled", !.cid = FALSE])
    /\ op' = Return(op, t)

\* The fresh account read and preflightOpen; a failed read throws out of the call.
OpenPreflight(t) ==
    /\ Replied(t, "open_account")
    /\ \/ /\ op[t].rep = "error"
          /\ op' = Return(op, t)
          /\ UNCHANGED <<thr, intent, acct>>
       \/ /\ op[t].rep = "ok"
          /\ acct' = op[t].view.pos
          /\ \/ AbortOpen(t)
             \/ /\ ~Blocked(t, op[t].view.pos)
                /\ op' = Await(op, t, "open_setup", t, NoThread, TRUE)
                /\ UNCHANGED <<thr, intent>>
    /\ UNCHANGED <<OpenVars, timer, sent>>

\* Leverage and margin are set: the last look at the halt flag, then the order.  A
\* market entry goes with its stop and take profit, whose ids are stored first,
\* when the backend can send them together.
OpenSend(t) ==
    /\ Replied(t, "open_setup")
    /\ IF op[t].rep = "error" \/ halted
       THEN AbortOpen(t) /\ UNCHANGED sent
       ELSE /\ \/ op' = Await(op, t, "open_entry", t, NoThread, TRUE)
               \/ OneRun /\ op' = Await(op, t, "open_both", t, NoThread, TRUE)
            /\ sent' = [sent EXCEPT ![t] = @ + 1]
            /\ UNCHANGED <<thr, intent>>
    /\ UNCHANGED <<OpenVars, acct, timer>>

\* The end of executeOpen once the outcome is known or given up; cur is the copy
\* in hand.
OpenOutcome(t, outcome, cur) ==
    \/ /\ outcome = "unknown"
       /\ SetIntent(t, "unknown")
       /\ Save(t, [cur EXCEPT !.attention = "ORDER_UNKNOWN"])
       /\ op' = Return(op, t)
    \/ /\ outcome = "failed"
       /\ SetIntent(t, "failed")
       /\ Save(t, [cur EXCEPT !.status = "canceled"])
       /\ op' = Return(op, t)
    \/ /\ outcome = "submitted"
       /\ SetIntent(t, "submitted")
       /\ Save(t, cur)
       /\ op' = pollAccount(Return(op, t))

OpenFilled(t, cur, limits) ==
    LET next == [cur EXCEPT !.status = "in_position"] IN
    /\ SetIntent(t, "filled")
    /\ IF op[t].leg = "none" \/ halted \/ limits[t].retry
       THEN Save(t, next) /\ placeProtection(t, t, next, next, limits)
       ELSE StopReported(t, next) /\ timer' = [limits EXCEPT ![t].retry = TRUE]

\* placeEntry or openWithProtection returned: close the submit phase, open the attribution grace, on a
\* fresh read of the row; an unknown outcome is looked up once.
OpenSent(t) ==
    /\ Replied(t, "open_entry") \/ Replied(t, "open_both")
    /\ LET cur == [thr[t] EXCEPT !.submitting = FALSE, !.submitted = TRUE]
           limits == [timer EXCEPT ![t].grace = TRUE] IN
       \/ /\ op[t].rep = "unknown"
          /\ Save(t, cur)
          /\ op' = Await(op, t, "open_lookup", t, cur, TRUE)
          /\ timer' = limits
          /\ UNCHANGED intent
       \/ /\ op[t].rep \in {"failed", "submitted"}
          /\ OpenOutcome(t, op[t].rep, cur)
          /\ timer' = limits
       \/ /\ op[t].rep = "filled"
          /\ OpenFilled(t, cur, limits)
    /\ UNCHANGED <<OpenVars, acct, sent>>

\* Mutant: an order that cannot be found is sent again.
OpenLookedUpResends(t) ==
    /\ Replied(t, "open_lookup")
    /\ \/ /\ op[t].rep = "GONE"
          /\ op' = Await(op, t, "open_entry", t, NoThread, TRUE)
          /\ sent' = [sent EXCEPT ![t] = @ + 1]
          /\ UNCHANGED <<thr, intent, timer>>
       \/ op[t].rep = "FILLED" /\ OpenFilled(t, op[t].th, timer) /\ UNCHANGED sent
       \/ /\ op[t].rep \notin {"GONE", "FILLED"}
          /\ OpenOutcome(t, "submitted", op[t].th)
          /\ UNCHANGED <<timer, sent>>
    /\ UNCHANGED <<OpenVars, acct>>

\* The lookup two seconds later; the copy in hand is the one from before it.
OpenLookedUp(t) ==
    /\ Replied(t, "open_lookup")
    /\ LET found == op[t].rep IN
       \/ /\ found = "FILLED"
          /\ OpenFilled(t, op[t].th, timer)
       \/ /\ found # "FILLED"
          /\ OpenOutcome(t, CASE found = "CANCELED" -> "failed"
                              [] found \in {"GONE", "error"} -> "unknown"
                              [] OTHER -> "submitted", op[t].th)
          /\ UNCHANGED timer
    /\ UNCHANGED <<OpenVars, acct, sent>>

OpenStep(t) ==
    ProposalPriced(t) \/ OpenPreflight(t) \/ OpenSend(t) \/ OpenSent(t) \/ OpenLookedUp(t) \/ ProtectionStep(t)
-----------------------------------------------------------------------------
\* The account poll and its reconciliation pass.

PollVars == <<halted, exchange, sent, faults, requests>>

PollTimer ==
    /\ op["poller"].pc = "idle"
    /\ op' = pollAccount(op)
    /\ UNCHANGED <<store, acct, timer, snap, todo, exchange, sent, faults, requests>>

\* The account reply; the open threads are read now, after it.
PollAccount ==
    /\ Replied("poller", "poll_account")
    /\ \/ /\ op["poller"].rep = "error"
          /\ op' = Return(op, "poller")
          /\ UNCHANGED <<acct, snap, todo>>
       \/ /\ op["poller"].rep = "ok"
          /\ acct' = op["poller"].view.pos
          /\ snap' = op["poller"].view
          /\ todo' = [t \in ThreadIds |-> IF isOpen(thr[t]) THEN thr[t] ELSE NoThread]
          /\ op' = NextThread(op)
    /\ UNCHANGED <<thr, intent, timer, closing, PollVars>>

FactsFor(t, entry) ==
    [position |-> IF snap.pos THEN "same" ELSE "none", entry |-> entry,
     hasStop |-> snap.stop, grace |-> timer[t].grace]

\* reconcileThread on the copy th and everything that follows a change; the miss
\* counter makes order_unknown a change even when nothing else differs.
Judge(t, th, entry) ==
    LET f == FactsFor(t, entry)
        verdict == Verdict(th, f)
        next == reconcileThread(th, f) IN
    \/ /\ verdict = "keep"
       /\ op' = NextThread(op)
       /\ UNCHANGED <<thr, intent, closing, timer>>
    \/ /\ verdict \in {"external", "order_unknown"}
       /\ Save(t, next)
       /\ op' = NextThread(op)
       /\ UNCHANGED <<intent, closing, timer>>
    \/ /\ verdict \in {"order_found", "protected"}
       /\ Save(t, next)
       /\ IF entry = "unqueried" THEN UNCHANGED intent ELSE resolveUnknownIntents(t, entry)
       /\ op' = NextThread(op)
       /\ UNCHANGED <<closing, timer>>
    \/ /\ verdict = "entry_filled"
       /\ Save(t, next)
       /\ resolveUnknownIntents(t, entry)
       /\ UNCHANGED closing
       /\ IF next.attention = "ENTRY_REMAINDER"
          THEN op' = Await(op, "poller", "part_cancel", t, next, TRUE) /\ UNCHANGED timer
          ELSE placeProtection("poller", t, next, next, timer)
    \/ /\ verdict = "closed"
       /\ Save(t, next)
       /\ op' = Await(op, "poller", "closed_cancel", t, next, TRUE)
       /\ UNCHANGED <<intent, closing, timer>>
    \/ /\ verdict = "canceled"
       /\ Save(t, next)
       /\ resolveOpenIntents(t, "failed")
       /\ op' = NextThread(op)
       /\ UNCHANGED timer
    \/ /\ verdict = "unprotected"
       /\ Save(t, next)
       /\ UNCHANGED <<intent, closing>>
       /\ placeProtection("poller", t, next, next, timer)

\* The loop body up to its first await, on the copy taken when the pass began.
PollNext ==
    /\ op["poller"].pc = "next"
    /\ \/ /\ \A t \in ThreadIds : todo[t] = NoThread
          /\ op' = Return(op, "poller")
          /\ snap' = NoView
          /\ UNCHANGED <<thr, intent, closing, timer, todo>>
       \/ \E t \in ThreadIds :
          LET th == todo[t]
              pending == th.status = "pending_entry" /\ th.cid IN
          /\ th # NoThread
          /\ todo' = [todo EXCEPT ![t] = NoThread]
          /\ UNCHANGED snap
          /\ IF halted
             THEN /\ op' = IF th.attention = "HALT_INCOMPLETE" \/ snap # NoView
                           THEN Await(op, "poller", "rh_cancel", t, th, TRUE) ELSE NextThread(op)
                  /\ UNCHANGED <<thr, intent, closing, timer>>
             ELSE IF th.attention = "ENTRY_REMAINDER" /\ th.cid
             THEN op' = Await(op, "poller", "rem_lookup", t, th, TRUE) /\ UNCHANGED <<thr, intent, closing, timer>>
             ELSE IF pending /\ th.submitting /\ timer[t].phase
             THEN op' = NextThread(op) /\ UNCHANGED <<thr, intent, closing, timer>>
             ELSE IF pending
             THEN op' = Await(op, "poller", "rec_lookup", t, th, TRUE) /\ UNCHANGED <<thr, intent, closing, timer>>
             ELSE Judge(t, th, "unqueried")
    /\ UNCHANGED <<acct, PollVars>>

\* The entry order lookup of a pending thread; a failed one skips the thread.
EntryLookedUp ==
    /\ Replied("poller", "rec_lookup")
    /\ LET p == op["poller"] IN
       IF p.rep = "error"
       THEN op' = NextThread(op) /\ UNCHANGED <<thr, intent, closing, timer>>
       ELSE Judge(p.tid, p.th, p.rep)
    /\ UNCHANGED <<acct, snap, todo, PollVars>>

\* The remainder of a partial fill is canceled, then the fill is protected.
RemainderCanceled ==
    /\ Replied("poller", "part_cancel")
    /\ LET p == op["poller"]
           row == IF p.rep = "ok" THEN [p.th EXCEPT !.attention = "none"] ELSE thr[p.tid] IN
       /\ Save(p.tid, row)
       /\ placeProtection("poller", p.tid, p.th, row, timer)
    /\ UNCHANGED <<intent, acct, snap, todo, closing, PollVars>>

\* ENTRY_REMAINDER: look the order up, cancel it while it is live, clear the flag
\* on a fresh read of the row.  A failed lookup counts as not live.
ClearRemainder(t) ==
    /\ IF thr[t].attention = "ENTRY_REMAINDER"
       THEN Save(t, [thr[t] EXCEPT !.attention = "none"]) ELSE UNCHANGED thr
    /\ op' = NextThread(op)

RemainderLookedUp ==
    /\ Replied("poller", "rem_lookup")
    /\ LET p == op["poller"] IN
       \/ /\ p.rep \in LiveOrder
          /\ op' = Await(op, "poller", "rem_cancel", p.tid, p.th, TRUE)
          /\ UNCHANGED thr
       \/ p.rep \notin LiveOrder /\ ClearRemainder(p.tid)
    /\ UNCHANGED <<intent, acct, timer, snap, todo, closing, PollVars>>

\* Mutant: the flag goes whatever the retry answered.
RemainderRetriedOnce ==
    /\ Replied("poller", "rem_cancel")
    /\ ClearRemainder(op["poller"].tid)
    /\ UNCHANGED <<intent, acct, timer, snap, todo, closing, PollVars>>

RemainderRetried ==
    /\ Replied("poller", "rem_cancel")
    /\ \/ op["poller"].rep = "ok" /\ ClearRemainder(op["poller"].tid)
       \/ op["poller"].rep = "error" /\ op' = NextThread(op) /\ UNCHANGED thr
    /\ UNCHANGED <<intent, acct, timer, snap, todo, closing, PollVars>>

\* A closed thread's leftover orders are canceled, its intents settled.
ClosedCleanedUp ==
    /\ Replied("poller", "closed_cancel")
    /\ resolveOpenIntents(op["poller"].tid, "filled")
    /\ op' = NextThread(op)
    /\ UNCHANGED <<thr, acct, timer, snap, todo, PollVars>>

\* Mutant: the retry cancels and looks, it does not flatten.
HaltRetryCanceledOnly ==
    /\ Replied("poller", "rh_cancel")
    /\ LET p == op["poller"] IN
       op' = Await(op, "poller", "rh_account", p.tid, p.th, TRUE)
    /\ UNCHANGED <<thr, intent, acct, timer, snap, todo, closing, PollVars>>

\* retryHalt: cancel, flatten what the snapshot showed, and believe it only after
\* a fresh account read.
HaltRetryCanceled ==
    /\ Replied("poller", "rh_cancel")
    /\ LET p == op["poller"]
           ok == p.rep = "ok" IN
       \/ /\ snap.pos
          /\ Save(p.tid, p.th)
          /\ op' = Await(op, "poller", "rh_close", p.tid, p.th, ok)
       \/ /\ ~snap.pos /\ ok
          /\ op' = Await(op, "poller", "rh_account", p.tid, p.th, ok)
          /\ UNCHANGED thr
       \/ ~snap.pos /\ ~ok /\ op' = NextThread(op) /\ UNCHANGED thr
    /\ UNCHANGED <<intent, acct, timer, snap, todo, closing, PollVars>>

HaltRetryClosed ==
    /\ Replied("poller", "rh_close")
    /\ LET p == op["poller"] IN
       op' = IF p.ok /\ p.rep = "closed"
             THEN Await(op, "poller", "rh_account", p.tid, p.th, TRUE) ELSE NextThread(op)
    /\ UNCHANGED <<thr, intent, acct, timer, snap, todo, closing, PollVars>>

\* The status a halt gives a thread that had this status.
Flattened(status) == IF status = "pending_entry" THEN "canceled" ELSE "closed"

\* A failed read throws out of the whole pass.
HaltRetryProven ==
    /\ Replied("poller", "rh_account")
    /\ LET p == op["poller"] IN
       IF p.rep = "error"
       THEN /\ op' = Return(op, "poller")
            /\ snap' = NoView
            /\ todo' = [t \in ThreadIds |-> NoThread]
            /\ UNCHANGED thr
       ELSE /\ op' = NextThread(op)
            /\ IF p.view.pos THEN UNCHANGED thr
               ELSE Save(p.tid, [thr[p.tid] EXCEPT !.status = Flattened(p.th.status), !.attention = "none"])
            /\ UNCHANGED <<snap, todo>>
    /\ UNCHANGED <<intent, acct, timer, closing, PollVars>>

PollStep ==
    \/ PollAccount \/ PollNext \/ EntryLookedUp \/ RemainderCanceled \/ RemainderLookedUp
    \/ RemainderRetried \/ ClosedCleanedUp \/ HaltRetryCanceled \/ HaltRetryClosed
    \/ HaltRetryProven \/ ProtectionStep("poller")

-----------------------------------------------------------------------------
\* The emergency stop.

Request(k) == k \in Actors /\ requests < MaxRequests /\ requests' = requests + 1

HaltVars == <<intent, closing, acct, timer, snap, todo, exchange, sent, faults>>

\* The flag is set and persisted first; the symbol is worked on when a thread is
\* open on it or the last account read shows a position.
halt ==
    /\ Request("halt")
    /\ op["halter"].pc = "idle"
    /\ halted' = TRUE
    /\ op' = IF openThreads # {} \/ acct
             THEN Await(op, "halter", "halt_cancel", "none", NoThread, TRUE)
             ELSE pollAccount(op)
    /\ UNCHANGED <<thr, HaltVars>>

HaltCanceled ==
    /\ Replied("halter", "halt_cancel")
    /\ op' = Await(op, "halter", "halt_close", "none", NoThread, op["halter"].rep = "ok")
    /\ UNCHANGED <<thr, halted, requests, HaltVars>>

\* The rows are read again after the calls: every open thread ends, or stays open
\* flagged when the symbol is not proven flat.
HaltClosed ==
    /\ Replied("halter", "halt_close")
    /\ LET h == op["halter"]
           failed == ~h.ok \/ h.rep = "error" \/ (h.rep = "notclosed" /\ acct) IN
       thr' = [t \in ThreadIds |->
                 IF ~isOpen(thr[t]) THEN thr[t]
                 ELSE IF failed THEN [thr[t] EXCEPT !.attention = "HALT_INCOMPLETE"]
                 ELSE [thr[t] EXCEPT !.status = Flattened(@)]]
    /\ op' = pollAccount(Return(op, "halter"))
    /\ UNCHANGED <<halted, requests, HaltVars>>

resume ==
    /\ Request("resume")
    /\ halted
    /\ halted' = FALSE
    /\ UNCHANGED <<thr, op, HaltVars>>

HaltStep == HaltCanceled \/ HaltClosed

-----------------------------------------------------------------------------
\* Closing: closeThread, manualOrder's close, a close proposed in the chat.

CloseVars == <<intent, halted, timer, snap, todo, exchange, sent, faults>>

\* closeThreadNow on the row as read; cancelEntry when the entry is pending.
closeThreadNow(t) ==
    IF thr[t].status = "pending_entry" /\ ~thr[t].cid
    THEN /\ Save(t, [thr[t] EXCEPT !.status = "canceled", !.attention = "none"])
         /\ op' = pollAccount(op)
    ELSE /\ op' = Await(op, "closer", IF thr[t].status = "pending_entry" THEN "entry_cancel" ELSE "close_cancel",
                        t, thr[t], TRUE)
         /\ UNCHANGED thr

\* The thread page refuses while the entry is being sent.
closeThread(t) ==
    /\ Request("ui_close")
    /\ op["closer"].pc = "idle"
    /\ isOpen(thr[t])
    /\ ~(thr[t].status = "pending_entry" /\ thr[t].submitting)
    /\ closeThreadNow(t)
    /\ UNCHANGED <<closing, acct, CloseVars>>

\* The order panel's close does not.
manualOrderClose(t) ==
    /\ Request("order_close")
    /\ op["closer"].pc = "idle"
    /\ ~halted
    /\ isOpen(thr[t])
    /\ closeThreadNow(t)
    /\ UNCHANGED <<closing, acct, CloseVars>>

\* With no thread on the symbol it flattens the position the last read showed.
manualOrderFlatten ==
    /\ Request("order_close")
    /\ op["closer"].pc = "idle"
    /\ ~halted
    /\ openThreads = {} /\ acct
    /\ op' = Await(op, "closer", "flat_cancel", "none", NoThread, TRUE)
    /\ UNCHANGED <<thr, closing, acct, CloseVars>>

\* A review of the thread decides to leave: cancel_entry or close.
reviewThread(t) ==
    /\ Request("review")
    /\ op["closer"].pc = "idle"
    /\ isOpen(thr[t])
    /\ closeThreadNow(t)
    /\ UNCHANGED <<closing, acct, CloseVars>>

\* The chat proposes to close; a person approves or rejects the intent.
proposeClose(t) ==
    /\ Request("chat_close")
    /\ isOpen(thr[t])
    /\ closing' = [closing EXCEPT ![t] = @ + 1]
    /\ UNCHANGED <<thr, op, acct, CloseVars>>

approveClose(t) ==
    /\ closing[t] > 0
    /\ op["closer"].pc = "idle"
    /\ ~halted
    /\ isOpen(thr[t])
    /\ closing' = [closing EXCEPT ![t] = @ - 1]
    /\ closeThreadNow(t)
    /\ UNCHANGED <<acct, requests, CloseVars>>

\* rejectIntent cancels the thread, whichever kind of intent it was.
rejectIntent(t) ==
    /\ \/ /\ "reject" \in Actors
          /\ intent[t] = "pending_approval"
          /\ SetIntent(t, "rejected")
          /\ UNCHANGED closing
       \/ /\ closing[t] > 0
          /\ closing' = [closing EXCEPT ![t] = @ - 1]
          /\ UNCHANGED intent
    /\ Save(t, [thr[t] EXCEPT !.status = "canceled"])
    /\ UNCHANGED <<halted, memory, exchange, sent, faults, requests>>

\* cancelEntry after the cancel request.
EntryCanceled ==
    /\ Replied("closer", "entry_cancel")
    /\ LET c == op["closer"] IN
       Save(c.tid, IF c.rep = "ok" THEN [c.th EXCEPT !.status = "canceled", !.attention = "none"]
                                   ELSE [c.th EXCEPT !.attention = "CANCEL_UNKNOWN"])
    /\ op' = pollAccount(Return(op, "closer"))
    /\ UNCHANGED <<closing, acct, requests, CloseVars>>

\* Mutant: the row is closed before the position is.
CloseCanceledEarly ==
    /\ Replied("closer", "close_cancel")
    /\ op' = Await(op, "closer", "close_position", op["closer"].tid, op["closer"].th, TRUE)
    /\ Save(op["closer"].tid, [op["closer"].th EXCEPT !.status = "closed"])
    /\ UNCHANGED <<closing, acct, requests, CloseVars>>

\* The orders go first, the stop among them, whatever the answer was.
CloseCanceled ==
    /\ Replied("closer", "close_cancel")
    /\ op' = Await(op, "closer", "close_position", op["closer"].tid, op["closer"].th, TRUE)
    /\ UNCHANGED <<thr, closing, acct, requests, CloseVars>>

\* The end of closeThreadNow, on the copy in hand.
CloseFinished(proven) ==
    LET c == op["closer"] IN
    IF proven
    THEN /\ Save(c.tid, [c.th EXCEPT !.status = "closed", !.attention = "none"])
         /\ op' = pollAccount(Return(op, "closer"))
    ELSE /\ Save(c.tid, [c.th EXCEPT !.attention = "CLOSE_FAILED"])
         /\ op' = Return(op, "closer")

\* Answer to the close.
CloseAnswered ==
    /\ Replied("closer", "close_position")
    /\ LET c == op["closer"] IN
       \/ c.rep = "closed" /\ CloseFinished(TRUE)
       \/ c.rep = "error" /\ CloseFinished(FALSE)
       \/ /\ c.rep = "notclosed"
          /\ op' = Await(op, "closer", "close_account", c.tid, c.th, TRUE)
          /\ UNCHANGED thr
    /\ UNCHANGED <<closing, acct, requests, CloseVars>>

\* Not closed and no error: only a fresh account read proves the symbol flat.  A
\* failed read throws.
CloseProven ==
    /\ Replied("closer", "close_account")
    /\ LET c == op["closer"] IN
       IF c.rep = "error" THEN op' = Return(op, "closer") /\ UNCHANGED <<thr, acct>>
       ELSE acct' = c.view.pos /\ CloseFinished(~c.view.pos)
    /\ UNCHANGED <<closing, requests, CloseVars>>

\* The panel's flattening of a position without a thread; an error throws.
FlattenCanceled ==
    /\ Replied("closer", "flat_cancel")
    /\ op' = Await(op, "closer", "flat_close", "none", NoThread, TRUE)
    /\ UNCHANGED <<thr, closing, acct, requests, CloseVars>>

FlattenClosed ==
    /\ Replied("closer", "flat_close")
    /\ op' = IF op["closer"].rep = "error" THEN Return(op, "closer") ELSE pollAccount(Return(op, "closer"))
    /\ UNCHANGED <<thr, closing, acct, requests, CloseVars>>

CloseStep ==
    \/ EntryCanceled \/ CloseCanceled \/ CloseAnswered \/ CloseProven
    \/ FlattenCanceled \/ FlattenClosed

-----------------------------------------------------------------------------
\* The gateway dies and starts again: rows and the halt flag survive, an entry
\* request that had left may still reach the exchange, and a run between its entry
\* and its stop may still send the stop.

crash ==
    /\ Fault("crash")
    /\ op' = [p \in Procs |-> Idle]
    /\ acct' = FALSE
    /\ timer' = [t \in ThreadIds |-> [timer[t] EXCEPT !.retry = FALSE]]
    /\ snap' = NoView
    /\ todo' = [t \in ThreadIds |-> NoThread]
    /\ \/ UNCHANGED order
       \/ \E t \in ThreadIds :
            /\ op[t].pc \in {"open_entry", "open_both"} /\ op[t].rep = "none" /\ op[t].leg = "none"
            /\ "late" \in Troubles
            /\ order' = [order EXCEPT ![t] = "late"]
    /\ \/ UNCHANGED stop
       \/ (\E t \in ThreadIds : op[t].leg = "due") /\ stop' = pos
    /\ UNCHANGED <<store, pos, sent, requests>>

RestoredThread == [newThread EXCEPT !.status = "in_position", !.cid = TRUE, !.submitted = TRUE]

Init ==
    /\ thr = [t \in ThreadIds |-> IF t \in Restored THEN RestoredThread ELSE NoThread]
    /\ intent = [t \in ThreadIds |-> IF t \in Restored THEN "filled" ELSE "none"]
    /\ closing = [t \in ThreadIds |-> 0]
    /\ halted = FALSE
    /\ acct = FALSE
    /\ timer = [t \in ThreadIds |-> NoTimer]
    /\ op = [p \in Procs |-> Idle]
    /\ snap = NoView
    /\ todo = [t \in ThreadIds |-> NoThread]
    /\ order = [t \in ThreadIds |-> IF t \in Restored THEN "FILLED" ELSE "none"]
    /\ pos = (Restored # {})
    /\ stop = (Restored # {})
    /\ sent = [t \in ThreadIds |-> IF t \in Restored THEN 1 ELSE 0]
    /\ faults = 0
    /\ requests = 0

People ==
    \/ halt \/ resume \/ manualOrderFlatten
    \/ \E t \in ThreadIds :
         \/ openThreadFromProposal(t) \/ manualOrderOpen(t) \/ executeOpen(t) \/ rejectIntent(t)
         \/ closeThread(t) \/ manualOrderClose(t) \/ reviewThread(t)
         \/ proposeClose(t) \/ approveClose(t)

Exchange ==
    \/ PositionLeaves \/ StopLost
    \/ \E t \in ThreadIds : EntryArrives(t) \/ EntryFills(t) \/ EntryExpires(t)

Next ==
    \/ People \/ Exchange \/ crash
    \/ PollTimer \/ PollStep \/ HaltStep \/ CloseStep
    \/ \E t \in ThreadIds : OpenStep(t) \/ TimeLimitPasses(t)
    \/ \E p \in Procs : Serve(p)

\* Requests are answered, replies are consumed, the poll timer keeps firing and
\* time limits pass.  What people and the market do is not assumed.
Fairness ==
    /\ WF_vars(PollTimer) /\ WF_vars(PollStep) /\ WF_vars(HaltStep) /\ WF_vars(CloseStep)
    /\ \A t \in ThreadIds : WF_vars(OpenStep(t)) /\ WF_vars(TimeLimitPasses(t)) /\ WF_vars(EntryArrives(t))
    /\ \A p \in Procs : SF_vars(Serve(p))

Spec == Init /\ [][Next]_vars /\ Fairness
-----------------------------------------------------------------------------
\* Every variable has its type.
TypeOK ==
    /\ thr \in [ThreadIds -> ThreadRecords]
    /\ intent \in [ThreadIds -> IntentStatuses]
    /\ closing \in [ThreadIds -> Nat]
    /\ halted \in BOOLEAN
    /\ acct \in BOOLEAN
    /\ timer \in [ThreadIds -> Timers]
    /\ op \in [Procs -> Frames]
    /\ snap \in AccountViews
    /\ todo \in [ThreadIds -> ThreadRecords]
    /\ order \in [ThreadIds -> OrderStates]
    /\ pos \in BOOLEAN
    /\ stop \in BOOLEAN
    /\ sent \in [ThreadIds -> Nat]
    /\ faults \in 0..MaxFaults
    /\ requests \in 0..MaxRequests

\* An entry order is never sent twice: not after an unknown outcome, not after a
\* crash in the middle of executeOpen, not by approving the intent again.
SentAtMostOnce == \A t \in ThreadIds : sent[t] <= 1

\* Whatever reached the exchange can be looked up: while an entry order of a
\* thread exists there, its client order id is in the thread's row, whichever
\* copy of the row the last writer had in hand.
OrderHasId == \A t \in ThreadIds : order[t] # "none" => thr[t].cid

\* Somebody is in charge of t: its row is open, so polls look at it, or its
\* executeOpen has not finished.
Attended(t) == isOpen(thr[t]) \/ op[t].pc \notin {"idle", "prop_account"}

\* No entry order that can still fill, and no position, is left without a thread
\* in charge of it: such an order or position would never be looked at again.
NoOrphan ==
    /\ \A t \in ThreadIds : order[t] \in LiveOrder \cup {"late"} => Attended(t)
    /\ pos => \E t \in ThreadIds : Attended(t)

Naked == pos /\ ~stop

\* A position without a stop does not go unnoticed: it gets a stop, goes away, or
\* an open thread shows an attention flag to the user, unless the gateway is halted.
NakedIsNoticed ==
    Naked ~> (~Naked \/ halted \/ \E t \in ThreadIds : isOpen(thr[t]) /\ thr[t].attention # "none")

\* A position never lives without a stop: it gets one or is flattened.
StopOrFlat == Naked ~> ~Naked

\* A thread in position ends only on an exchange fact: no step ends it while the
\* exchange holds the position.
EndsOnExchangeFact ==
    [][\A t \in ThreadIds : (thr[t].status = "in_position" /\ thr'[t].status \in TERMINAL_STATUSES) => ~pos]_vars

\* An emergency stop flattens: while halted, a position does not stay, and no
\* thread ends before its position has.
HaltFlattens == (halted ~> (~halted \/ ~pos)) /\ EndsOnExchangeFact

\* What is left of a partly filled entry is canceled while its thread is open,
\* however often the cancel request fails: the position does not grow behind its
\* stop for ever.
RemainderIsCanceled ==
    \A t \in ThreadIds : order[t] = "PARTIALLY_FILLED"
                            ~> (order[t] # "PARTIALLY_FILLED" \/ ~isOpen(thr[t]))

\* Every order of the exchange is owned: the row of its thread knows its client
\* order id and stays open for as long as the order can still fill.
OrdersOwned == TypeOK /\ OrderHasId /\ NoOrphan

\* A close by a person or by a review, at whatever moment of an opening it comes,
\* ends no thread in position while the position is there, and leaves no entry
\* order and no position without a thread in charge.
ClosesSafely == EndsOnExchangeFact /\ []OrdersOwned
=============================================================================
