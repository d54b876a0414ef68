-------------------------- MODULE TradeLoopProofs --------------------------
(***************************************************************************)
(* The trading loop for any number of threads, any bounds on faults and    *)
(* requests, any set of actors and troubles and either kind of channel.    *)
(* TInv is the inductive form of TypeOK: a frame that waits for a call     *)
(* about a thread names a thread.                                          *)
(*                                                                         *)
(* First, what reconcileThread can and cannot do, for every thread record  *)
(* and every combination of exchange facts.                                *)
(***************************************************************************)
EXTENDS TradeLoop, TLAPS

\* Writing a status or an attention into a record gives a record.
LEMMA RecordUpdates ==
  ASSUME NEW t \in ThreadRecords
  PROVE  /\ \A s \in Statuses : [t EXCEPT !.status = s] \in ThreadRecords
         /\ \A a \in Attentions : [t EXCEPT !.attention = a] \in ThreadRecords
         /\ \A s \in Statuses, a \in Attentions :
               [t EXCEPT !.status = s, !.attention = a] \in ThreadRecords
         /\ \A b \in BOOLEAN : [t EXCEPT !.cid = b] \in ThreadRecords
         /\ \A s \in Statuses, b \in BOOLEAN :
               [t EXCEPT !.status = s, !.cid = b] \in ThreadRecords
         /\ \A b, c \in BOOLEAN : [t EXCEPT !.submitting = b, !.submitted = c] \in ThreadRecords
         /\ \A b, c, d \in BOOLEAN : [t EXCEPT !.cid = b, !.submitting = c, !.submitted = d] \in ThreadRecords
  BY DEF ThreadRecords

\* The record of a thread that does not exist, and of a new one.
LEMMA NewRecords == NoThread \in ThreadRecords /\ newThread \in ThreadRecords
  BY DEF NoThread, newThread, ThreadRecords, Statuses, Attentions

\* reconcileThread turns thread records into thread records, whatever the facts.
THEOREM ReconcileType ==
  ASSUME NEW t \in ThreadRecords, NEW f
  PROVE  reconcileThread(t, f) \in ThreadRecords
  <1>1. {"in_position", "canceled", "closed"} \subseteq Statuses
        /\ {"none", "ENTRY_REMAINDER", "EXTERNAL_POSITION", "ORDER_UNKNOWN", "PROTECTION_MISSING"} \subseteq Attentions
    BY DEF Statuses, Attentions
  <1> QED
    BY <1>1, RecordUpdates DEF reconcileThread, Apply

\* An ended thread is left alone (the function returns before any write).
THEOREM ReconcileKeepsEnded ==
  ASSUME NEW t \in ThreadRecords, NEW f \in Facts, ~isOpen(t)
  PROVE  reconcileThread(t, f) = t
  BY DEF isOpen, OPEN_STATUSES, reconcileThread, Verdict, Apply

\* "null is not a negative fact": a pending thread is canceled only when the order
\* lookup itself said so and no position is there, and it becomes in_position only
\* on a fill together with a position on its side.
THEOREM ReconcilePending ==
  ASSUME NEW t \in ThreadRecords, NEW f \in Facts, t.status = "pending_entry"
  PROVE  LET next == reconcileThread(t, f) IN
         /\ next.status \in {"pending_entry", "in_position", "canceled"}
         /\ next.status = "canceled" => t.cid /\ f.entry = "CANCELED" /\ f.position = "none"
         /\ next.status = "in_position" => filled(f) /\ posMatches(f)
  <1> DEFINE v == PendingVerdict(t, f)
  <1>1. reconcileThread(t, f) = Apply(t, f, v)
    BY DEF reconcileThread, Verdict
  <1>2. /\ v \in {"entry_filled", "keep", "external", "canceled", "order_unknown", "order_found"}
        /\ v = "canceled" => t.cid /\ f.entry = "CANCELED" /\ f.position = "none"
        /\ v = "entry_filled" => filled(f) /\ posMatches(f)
    BY DEF PendingVerdict, filled, posMatches
  <1>3. /\ Apply(t, f, v).status \in {"pending_entry", "in_position", "canceled"}
        /\ Apply(t, f, v).status = "canceled" => v = "canceled"
        /\ Apply(t, f, v).status = "in_position" => v = "entry_filled"
    BY <1>2 DEF Apply, ThreadRecords
  <1> QED
    BY <1>1, <1>2, <1>3

\* A thread in position is closed exactly when no position on its side is left, and
\* a position without a matching stop leaves the pass flagged, unless the runtime
\* owns the flag it already has.
THEOREM ReconcileInPosition ==
  ASSUME NEW t \in ThreadRecords, NEW f \in Facts, t.status = "in_position"
  PROVE  LET next == reconcileThread(t, f) IN
         /\ next.status \in {"in_position", "closed"}
         /\ next.status = "closed" <=> ~posMatches(f)
         /\ (posMatches(f) /\ ~f.hasStop) => next.attention # "none"
         /\ (posMatches(f) /\ f.hasStop /\ t.attention \notin RuntimeOwned) => next.attention = "none"
  <1> DEFINE v == PositionVerdict(t, f)
  <1>1. reconcileThread(t, f) = Apply(t, f, v)
    BY DEF reconcileThread, Verdict
  <1>2. CASE ~posMatches(f)
    BY <1>1, <1>2 DEF PositionVerdict, Apply, ThreadRecords
  <1>3. CASE posMatches(f) /\ t.attention \in RuntimeOwned
    BY <1>1, <1>3 DEF PositionVerdict, Apply, ThreadRecords, RuntimeOwned
  <1>4. CASE posMatches(f) /\ t.attention \notin RuntimeOwned
    BY <1>1, <1>4 DEF PositionVerdict, Apply, ThreadRecords, Facts
  <1> QED
    BY <1>2, <1>3, <1>4

-----------------------------------------------------------------------------
(***************************************************************************)
(* The trading loop                                                        *)
(***************************************************************************)
USE ThreadIdsAssumption, BoundsAssumption, FlagsAssumption, RestoredAssumption

\* Await points that are about the symbol, not about one thread.
SymbolPoints == {"poll_account", "halt_cancel", "halt_close", "flat_cancel", "flat_close"}

ThreadFrames == {f \in Frames : f.pc \in SymbolPoints \cup {"idle", "next"} \/ f.tid \in ThreadIds}

TInv == TypeOK /\ op \in [Procs -> ThreadFrames]

-----------------------------------------------------------------------------
\* Every await point is a field of Call.
LEMMA Points ==
  /\ AwaitPoints = {"prop_account", "open_account", "open_setup", "open_entry", "open_both", "open_lookup",
        "stop_place", "stop_seen", "stop_again", "stop_close", "tp_place", "poll_account",
        "rem_lookup", "rem_cancel", "rec_lookup", "part_cancel", "closed_cancel", "rh_cancel",
        "rh_close", "rh_account", "halt_cancel", "halt_close", "entry_cancel", "close_cancel",
        "close_position", "close_account", "flat_cancel", "flat_close"}
  /\ \A pc \in AwaitPoints : Call[pc] = "getOrder" => pc \notin SymbolPoints
  BY DEF AwaitPoints, Call, SymbolPoints

\* The frame of an asynchronous function that does nothing.
LEMMA IdleFrame == Idle \in ThreadFrames
  BY NewRecords DEF Idle, ThreadFrames, Frames, Replies, AccountViews, NoView, Legs

\* Calling the backend and waiting keeps frames well formed.
LEMMA AwaitType ==
  ASSUME NEW o \in [Procs -> ThreadFrames], NEW p \in Procs, NEW pc \in AwaitPoints,
         NEW t \in ThreadIds \cup {"none"}, NEW th \in ThreadRecords, NEW ok \in BOOLEAN,
         pc \in SymbolPoints \/ t \in ThreadIds
  PROVE  Await(o, p, pc, t, th, ok) \in [Procs -> ThreadFrames]
  <1>1. o[p].leg \in Legs
    BY DEF ThreadFrames, Frames
  <1>2. [Idle EXCEPT !.pc = pc, !.tid = t, !.th = th, !.ok = ok, !.leg = o[p].leg] \in ThreadFrames
    BY <1>1 DEF Idle, ThreadFrames, Frames, Replies, AccountViews, NoView
  <1> QED
    BY <1>2 DEF Await

\* So do returning, starting a poll and going on to the next thread.
LEMMA ControlType ==
  ASSUME NEW o \in [Procs -> ThreadFrames], NEW p \in Procs
  PROVE  /\ Return(o, p) \in [Procs -> ThreadFrames]
         /\ pollAccount(o) \in [Procs -> ThreadFrames]
         /\ NextThread(o) \in [Procs -> ThreadFrames]
         /\ AfterProtection(o, p) \in [Procs -> ThreadFrames]
         /\ pollAccount(Return(o, p)) \in [Procs -> ThreadFrames]
  <1>1. [Idle EXCEPT !.pc = "poll_account"] \in ThreadFrames
    BY Points DEF Idle, ThreadFrames, Frames, Replies, AccountViews, NoView, Legs, SymbolPoints, NoThread, ThreadRecords, Statuses, Attentions
  <1>2. [Idle EXCEPT !.pc = "next"] \in ThreadFrames
    BY NewRecords DEF Idle, ThreadFrames, Frames, Replies, AccountViews, NoView, Legs
  <1>3. \A q \in [Procs -> ThreadFrames] : pollAccount(q) \in [Procs -> ThreadFrames]
    BY <1>1 DEF pollAccount
  <1>4. Return(o, p) \in [Procs -> ThreadFrames]
    BY IdleFrame DEF Return
  <1>5. NextThread(o) \in [Procs -> ThreadFrames]
    BY <1>2 DEF NextThread
  <1> QED
    BY <1>3, <1>4, <1>5 DEF AfterProtection

\* A reply changes nothing but the reply.
LEMMA AnswerType ==
  ASSUME op \in [Procs -> ThreadFrames], NEW p \in Procs, NEW rep \in Replies,
         NEW view \in AccountViews, Answer(p, rep, view)
  PROVE  op' \in [Procs -> ThreadFrames]
  <1>1. [op[p] EXCEPT !.rep = rep, !.view = view] \in ThreadFrames
    BY DEF ThreadFrames, Frames
  <1> QED
    BY <1>1 DEF Answer

\* The report of a combined run changes nothing but the reply and the leg.
LEMMA AnswerRunType ==
  ASSUME op \in [Procs -> ThreadFrames], NEW p \in Procs, NEW rep \in Replies,
         NEW leg \in Legs, AnswerRun(p, rep, leg)
  PROVE  op' \in [Procs -> ThreadFrames]
  <1>1. [op[p] EXCEPT !.rep = rep, !.leg = leg] \in ThreadFrames
    BY DEF ThreadFrames, Frames
  <1> QED
    BY <1>1 DEF AnswerRun

\* Storing a row or an intent status.
LEMMA SaveType ==
  ASSUME TypeOK, NEW t, NEW th, t \in ThreadIds => th \in ThreadRecords, Save(t, th)
  PROVE  thr' \in [ThreadIds -> ThreadRecords]
  BY DEF TypeOK, Save

LEMMA SetIntentType ==
  ASSUME TypeOK, NEW t, NEW s, t \in ThreadIds => s \in IntentStatuses, SetIntent(t, s)
  PROVE  intent' \in [ThreadIds -> IntentStatuses]
  BY DEF TypeOK, SetIntent

\* Settling intents keeps their types.
LEMMA ResolveType ==
  ASSUME TypeOK, NEW t
  PROVE  /\ \A found : resolveUnknownIntents(t, found) => intent' \in [ThreadIds -> IntentStatuses]
         /\ \A fallback \in {"filled", "failed"} : resolveOpenIntents(t, fallback) =>
               intent' \in [ThreadIds -> IntentStatuses] /\ closing' \in [ThreadIds -> Nat]
  BY DEF TypeOK, resolveUnknownIntents, resolveOpenIntents, SetIntent, IntentStatuses

-----------------------------------------------------------------------------
\* The exchange acts on a request.
LEMMA ServeType ==
  ASSUME TInv, NEW p \in Procs, Serve(p)
  PROVE  TInv'
  <1> USE DEF TInv
  <1>0. /\ op[p] \in ThreadFrames /\ NoView \in AccountViews
        /\ \A k : Fault(k) => faults' \in 0..MaxFaults
    BY DEF TypeOK, Fault, NoView, AccountViews
  <1>1. CASE account(p)
    <2>1. op' \in [Procs -> ThreadFrames]
      <3>1. [pos |-> pos, stop |-> stop, live |-> \E t \in ThreadIds : order[t] \in LiveOrder] \in AccountViews
        BY DEF TypeOK, AccountViews
      <3> QED
        BY <1>0, <1>1, <3>1, AnswerType DEF account, Replies
    <2> QED
      BY <1>0, <1>1, <2>1 DEF account, ServedVars, exchange, store, TypeOK, ThreadFrames
  <1>2. CASE setup(p)
    <2>1. op' \in [Procs -> ThreadFrames]
      BY <1>0, <1>2, AnswerType DEF setup, Replies
    <2> QED
      BY <1>0, <1>2, <2>1 DEF setup, ServedVars, exchange, store, TypeOK, ThreadFrames
  <1>3. CASE placeEntry(p)
    <2>1. op' \in [Procs -> ThreadFrames]
      BY <1>0, <1>3, AnswerType DEF placeEntry, Replies
    <2>2. order' \in [ThreadIds -> OrderStates] /\ pos' \in BOOLEAN
      BY <1>3 DEF placeEntry, TypeOK, OrderStates
    <2> QED
      BY <1>0, <1>3, <2>1, <2>2 DEF placeEntry, ServedVars, store, TypeOK, ThreadFrames
  <1>4. CASE getOrder(p)
    <2>1. op' \in [Procs -> ThreadFrames]
      <3>1. op[p].pc \in AwaitPoints /\ Call[op[p].pc] = "getOrder"
        BY <1>4 DEF getOrder, Asked
      <3>2. op[p].tid \in ThreadIds
        BY <1>0, <3>1, Points DEF ThreadFrames
      <3>3. order[op[p].tid] \in OrderStates
        BY <3>2 DEF TypeOK
      <3> QED
        BY <1>0, <1>4, <3>3, AnswerType DEF getOrder, Replies, OrderStates
    <2> QED
      BY <1>0, <1>4, <2>1 DEF getOrder, ServedVars, exchange, store, TypeOK, ThreadFrames
  <1>5. CASE cancelOrder(p)
    <2>1. op' \in [Procs -> ThreadFrames]
      BY <1>0, <1>5, AnswerType DEF cancelOrder, Replies
    <2>2. order' \in [ThreadIds -> OrderStates]
      BY <1>5 DEF cancelOrder, CancelLive, LiveOrder, TypeOK, OrderStates
    <2> QED
      BY <1>0, <1>5, <2>1, <2>2 DEF cancelOrder, ServedVars, store, TypeOK, ThreadFrames
  <1>6. CASE cancelAll(p)
    <2>1. op' \in [Procs -> ThreadFrames]
      BY <1>0, <1>6, AnswerType DEF cancelAll, Replies
    <2>2. order' \in [ThreadIds -> OrderStates]
      BY <1>6 DEF cancelAll, CancelLive, LiveOrder, TypeOK, OrderStates
    <2> QED
      BY <1>0, <1>6, <2>1, <2>2 DEF cancelAll, ServedVars, store, TypeOK, ThreadFrames
  <1>7. CASE closePosition(p)
    <2>1. op' \in [Procs -> ThreadFrames]
      BY <1>0, <1>7, AnswerType DEF closePosition, Replies
    <2> QED
      BY <1>0, <1>7, <2>1 DEF closePosition, ServedVars, store, TypeOK, ThreadFrames
  <1>8. CASE placeStop(p)
    <2>1. op' \in [Procs -> ThreadFrames]
      BY <1>0, <1>8, AnswerType DEF placeStop, Replies
    <2> QED
      BY <1>0, <1>8, <2>1 DEF placeStop, ServedVars, store, TypeOK, ThreadFrames
  <1>9. CASE algoOrderExists(p)
    <2>1. op' \in [Procs -> ThreadFrames]
      BY <1>0, <1>9, AnswerType DEF algoOrderExists, Replies
    <2> QED
      BY <1>0, <1>9, <2>1 DEF algoOrderExists, ServedVars, exchange, store, TypeOK, ThreadFrames
  <1>10. CASE placeTakeProfit(p)
    <2>1. op' \in [Procs -> ThreadFrames]
      BY <1>0, <1>10, AnswerType DEF placeTakeProfit, Replies
    <2> QED
      BY <1>0, <1>10, <2>1 DEF placeTakeProfit, ServedVars, exchange, store, TypeOK, ThreadFrames
  <1>11. CASE openWithProtection(p)
    <2>1. ASSUME op' \in [Procs -> ThreadFrames], order' \in [ThreadIds -> OrderStates],
                 pos' \in BOOLEAN, stop' \in BOOLEAN, faults' \in 0..MaxFaults
          PROVE  TInv'
      BY <1>11, <2>1 DEF openWithProtection, ServedVars, store, TypeOK, ThreadFrames
    <2>2. CASE EntryLeg(p)
      <3>1. op' \in [Procs -> ThreadFrames]
        BY <2>2, AnswerRunType DEF EntryLeg, Replies, Legs
      <3>2. order' \in [ThreadIds -> OrderStates] /\ pos' \in BOOLEAN
        BY <2>2 DEF EntryLeg, TypeOK, OrderStates
      <3>3. stop' \in BOOLEAN /\ faults' \in 0..MaxFaults
        BY <1>0, <2>2 DEF EntryLeg, TypeOK
      <3> QED
        BY <2>1, <3>1, <3>2, <3>3
    <2>3. CASE StopLeg(p)
      <3>1. op' \in [Procs -> ThreadFrames]
        BY <2>3, AnswerRunType DEF StopLeg, Replies, Legs
      <3>2. stop' \in BOOLEAN /\ faults' \in 0..MaxFaults
        BY <1>0, <2>3 DEF StopLeg, TypeOK
      <3>3. order' \in [ThreadIds -> OrderStates] /\ pos' \in BOOLEAN
        BY <2>3 DEF StopLeg, TypeOK
      <3> QED
        BY <2>1, <3>1, <3>2, <3>3
    <2> QED
      BY <1>11, <2>2, <2>3 DEF openWithProtection
  <1> QED
    BY <1>1, <1>2, <1>3, <1>4, <1>5, <1>6, <1>7, <1>8, <1>9, <1>10, <1>11 DEF Serve

\* What happens at the exchange, and time going by.
LEMMA ElsewhereType ==
  ASSUME TInv, Exchange \/ \E t \in ThreadIds : TimeLimitPasses(t)
  PROVE  TInv'
  <1> USE DEF TInv, ElsewhereVars, store, memory, TypeOK
  <1>1. ASSUME NEW t \in ThreadIds, EntryArrives(t) \/ EntryFills(t) \/ EntryExpires(t) PROVE TInv'
    BY <1>1 DEF EntryArrives, EntryFills, EntryExpires, OrderStates
  <1>2. CASE PositionLeaves
    BY <1>2 DEF PositionLeaves
  <1>3. CASE StopLost
    <2>1. faults' \in 0..MaxFaults
      BY <1>3 DEF StopLost, Fault
    <2> QED
      BY <1>3, <2>1 DEF StopLost
  <1>4. ASSUME NEW t \in ThreadIds, TimeLimitPasses(t) PROVE TInv'
    <2>1. timer' \in [ThreadIds -> Timers]
      <3>1. PICK k \in DOMAIN NoTimer : timer' = [timer EXCEPT ![t][k] = FALSE]
        BY <1>4 DEF TimeLimitPasses
      <3>2. k \in {"phase", "grace", "retry"}
        BY <3>1 DEF NoTimer
      <3>3. [timer[t] EXCEPT ![k] = FALSE] \in Timers
        <4>1. timer[t] \in Timers
          OBVIOUS
        <4>2. \A r \in Timers : /\ [r EXCEPT !["phase"] = FALSE] \in Timers
                                /\ [r EXCEPT !["grace"] = FALSE] \in Timers
                                /\ [r EXCEPT !["retry"] = FALSE] \in Timers
          BY DEF Timers
        <4> QED
          BY <3>2, <4>1, <4>2
      <3> QED
        BY <3>1, <3>3
    <2> QED
      BY <1>4, <2>1 DEF TimeLimitPasses, exchange
  <1> QED
    BY <1>1, <1>2, <1>3, <1>4 DEF Exchange

-----------------------------------------------------------------------------
\* The attentions and statuses the runtime writes.
LEMMA Written ==
  /\ {"none", "pending_entry", "in_position", "closed", "canceled"} \subseteq Statuses
  /\ {"none", "ORDER_UNKNOWN", "PROTECTION_MISSING", "CLOSE_FAILED", "HALT_INCOMPLETE", "CANCEL_UNKNOWN"}
        \subseteq Attentions
  BY DEF Statuses, Attentions

\* A frame that waits about a thread names it and holds a copy of its row.
LEMMA FrameOf ==
  ASSUME TInv, NEW p \in Procs
  PROVE  /\ op[p].th \in ThreadRecords
         /\ op[p].view \in AccountViews
         /\ op[p].ok \in BOOLEAN
         /\ op[p].tid \in ThreadIds \cup {"none"}
         /\ op[p].rep \in Replies
         /\ op[p].pc \notin SymbolPoints \cup {"idle", "next"} => op[p].tid \in ThreadIds
  BY DEF TInv, ThreadFrames, Frames

\* placeProtection starts or skips.
LEMMA ProtectType ==
  ASSUME op \in [Procs -> ThreadFrames], NEW p \in Procs, NEW t \in ThreadIds,
         NEW tIn \in ThreadRecords, NEW row \in ThreadRecords,
         NEW limits \in [ThreadIds -> Timers], placeProtection(p, t, tIn, row, limits)
  PROVE  op' \in [Procs -> ThreadFrames] /\ timer' \in [ThreadIds -> Timers]
  <1>1. [limits[t] EXCEPT !.retry = TRUE] \in Timers
    BY DEF Timers
  <1>2. Await(op, p, "stop_place", t, row, TRUE) \in [Procs -> ThreadFrames]
    BY AwaitType, Points
  <1>3. AfterProtection(op, p) \in [Procs -> ThreadFrames]
    BY ControlType
  <1> QED
    BY <1>1, <1>2, <1>3 DEF placeProtection

\* The row at the end of placeProtection is a row.
LEMMA ProtectedType ==
  ASSUME NEW row \in ThreadRecords
  PROVE  Protected(row) \in ThreadRecords
  BY Written DEF Protected, ThreadRecords

\* The two ways placeProtection goes on from an answer.
LEMMA StopIsOnType ==
  ASSUME TInv, NEW p \in Procs, NEW t \in ThreadIds, NEW th \in ThreadRecords,
         StopIsOn(p, t, th) \/ Compensate(p, t, th)
  PROVE  op' \in [Procs -> ThreadFrames] /\ thr' \in [ThreadIds -> ThreadRecords]
  <1>1. /\ Await(op, p, "tp_place", t, th, TRUE) \in [Procs -> ThreadFrames]
        /\ Await(op, p, "stop_close", t, th, TRUE) \in [Procs -> ThreadFrames]
    BY AwaitType, Points DEF TInv
  <1>2. AfterProtection(op, p) \in [Procs -> ThreadFrames]
    BY ControlType DEF TInv
  <1>3. thr[t] \in ThreadRecords /\ TypeOK
    BY DEF TInv, TypeOK
  <1>4. Protected(thr[t]) \in ThreadRecords
    BY <1>3, ProtectedType
  <1>5. CASE StopIsOn(p, t, th)
    BY <1>1, <1>2, <1>3, <1>4, <1>5, SaveType DEF StopIsOn
  <1>6. CASE Compensate(p, t, th)
    BY <1>1, <1>3, <1>6, SaveType DEF Compensate
  <1> QED
    BY <1>5, <1>6

\* The steps of placeProtection, run by an opener or by the poller.
LEMMA ProtectionStepType ==
  ASSUME TInv, NEW p \in Procs, ProtectionStep(p)
  PROVE  TInv'
  <1> DEFINE t == op[p].tid
             th == op[p].th
  <1>0. ASSUME NEW pc \in {"stop_place", "stop_seen", "stop_again", "stop_close", "tp_place"}, Replied(p, pc)
        PROVE  t \in ThreadIds /\ th \in ThreadRecords
    BY <1>0, FrameOf DEF Replied, SymbolPoints
  <1>1. ASSUME op' \in [Procs -> ThreadFrames], thr' \in [ThreadIds -> ThreadRecords],
               intent' \in [ThreadIds -> IntentStatuses], closing' \in [ThreadIds -> Nat],
               UNCHANGED ProtectionVars
        PROVE  TInv'
    BY <1>1 DEF TInv, TypeOK, ProtectionVars, exchange, ThreadFrames
  <1>2. intent \in [ThreadIds -> IntentStatuses] /\ closing \in [ThreadIds -> Nat]
        /\ thr \in [ThreadIds -> ThreadRecords] /\ op \in [Procs -> ThreadFrames] /\ TypeOK
    BY DEF TInv, TypeOK
  <1>3. AfterProtection(op, p) \in [Procs -> ThreadFrames]
    BY <1>2, ControlType
  <1>4. CASE StopPlaced(p)
    <2>1. t \in ThreadIds /\ th \in ThreadRecords
      BY <1>0, <1>4 DEF StopPlaced
    <2>2. Await(op, p, "stop_seen", t, th, TRUE) \in [Procs -> ThreadFrames]
      BY <1>2, <2>1, AwaitType, Points
    <2> QED
      BY <1>1, <1>2, <1>4, <2>1, <2>2, StopIsOnType DEF StopPlaced
  <1>5. CASE StopSeen(p)
    <2>1. t \in ThreadIds /\ th \in ThreadRecords
      BY <1>0, <1>5 DEF StopSeen
    <2>2. Await(op, p, "stop_again", t, th, TRUE) \in [Procs -> ThreadFrames]
      BY <1>2, <2>1, AwaitType, Points
    <2>3. [th EXCEPT !.attention = "PROTECTION_MISSING"] \in ThreadRecords
      BY <2>1, RecordUpdates, Written
    <2> QED
      BY <1>1, <1>2, <1>3, <1>5, <2>1, <2>2, <2>3, StopIsOnType, SaveType DEF StopSeen
  <1>6. CASE StopPlacedAgain(p)
    <2>1. t \in ThreadIds /\ th \in ThreadRecords
      BY <1>0, <1>6 DEF StopPlacedAgain
    <2> QED
      BY <1>1, <1>2, <1>6, <2>1, StopIsOnType DEF StopPlacedAgain
  <1>7. CASE Compensated(p)
    <2>1. t \in ThreadIds /\ th \in ThreadRecords
      BY <1>0, <1>7 DEF Compensated
    <2>2. /\ [th EXCEPT !.status = "closed", !.attention = "none"] \in ThreadRecords
          /\ [th EXCEPT !.attention = "CLOSE_FAILED"] \in ThreadRecords
      BY <2>1, RecordUpdates, Written
    <2> QED
      BY <1>1, <1>2, <1>3, <1>7, <2>1, <2>2, SaveType, ResolveType DEF Compensated
  <1>8. CASE TakeProfitPlaced(p)
    <2>1. t \in ThreadIds /\ th \in ThreadRecords
      BY <1>0, <1>8 DEF TakeProfitPlaced
    <2>2. Protected(thr[t]) \in ThreadRecords
      BY <1>2, <2>1, ProtectedType
    <2> QED
      BY <1>1, <1>2, <1>3, <1>8, <2>1, <2>2, SaveType DEF TakeProfitPlaced
  <1> QED
    BY <1>4, <1>5, <1>6, <1>7, <1>8 DEF ProtectionStep

-----------------------------------------------------------------------------
\* What the opening steps store: all of it are thread records.
LEMMA OpenRecords ==
  ASSUME TInv, NEW t \in ThreadIds
  PROVE  /\ t \in Procs /\ TypeOK /\ op \in [Procs -> ThreadFrames]
         /\ thr[t] \in ThreadRecords /\ op[t] \in ThreadFrames
         /\ [newThread EXCEPT !.status = "canceled"] \in ThreadRecords
         /\ [thr[t] EXCEPT !.status = "canceled", !.cid = FALSE] \in ThreadRecords
         /\ [thr[t] EXCEPT !.submitting = FALSE, !.submitted = TRUE] \in ThreadRecords
         /\ [timer EXCEPT ![t].grace = TRUE] \in [ThreadIds -> Timers]
         /\ [timer EXCEPT ![t].phase = TRUE] \in [ThreadIds -> Timers]
         /\ \A cur \in ThreadRecords :
               /\ [cur EXCEPT !.attention = "ORDER_UNKNOWN"] \in ThreadRecords
               /\ [cur EXCEPT !.status = "canceled"] \in ThreadRecords
               /\ [cur EXCEPT !.status = "in_position"] \in ThreadRecords
  <1>1. /\ t \in Procs /\ TypeOK /\ op \in [Procs -> ThreadFrames]
        /\ thr[t] \in ThreadRecords /\ op[t] \in ThreadFrames /\ timer \in [ThreadIds -> Timers]
    BY DEF TInv, TypeOK, Procs
  <1>2. [timer[t] EXCEPT !.grace = TRUE] \in Timers /\ [timer[t] EXCEPT !.phase = TRUE] \in Timers
    BY <1>1 DEF Timers
  <1> QED
    BY <1>1, <1>2, RecordUpdates, NewRecords, Written

\* abort and the three outcomes that end executeOpen without a position.
LEMMA OutcomeType ==
  ASSUME TInv, NEW t \in ThreadIds, NEW cur \in ThreadRecords,
         NEW outcome, AbortOpen(t) \/ OpenOutcome(t, outcome, cur)
  PROVE  /\ op' \in [Procs -> ThreadFrames]
         /\ thr' \in [ThreadIds -> ThreadRecords]
         /\ intent' \in [ThreadIds -> IntentStatuses]
  <1>1. /\ Return(op, t) \in [Procs -> ThreadFrames]
        /\ pollAccount(Return(op, t)) \in [Procs -> ThreadFrames]
    BY OpenRecords, ControlType
  <1>2. {"rejected", "unknown", "failed", "submitted"} \subseteq IntentStatuses
    BY DEF IntentStatuses
  <1>3. CASE AbortOpen(t)
    BY <1>1, <1>2, <1>3, OpenRecords, SaveType, SetIntentType DEF AbortOpen
  <1>4. CASE OpenOutcome(t, outcome, cur)
    BY <1>1, <1>2, <1>4, OpenRecords, SaveType, SetIntentType DEF OpenOutcome
  <1> QED
    BY <1>3, <1>4

\* placeProtection with the receipt of a stop that went with the entry.
LEMMA ReportedType ==
  ASSUME TInv, NEW t \in ThreadIds, NEW row \in ThreadRecords, StopReported(t, row)
  PROVE  op' \in [Procs -> ThreadFrames] /\ thr' \in [ThreadIds -> ThreadRecords]
  <1>1. t \in Procs /\ TypeOK /\ op \in [Procs -> ThreadFrames] /\ Protected(row) \in ThreadRecords
    BY OpenRecords, ProtectedType
  <1>2. /\ AfterProtection(op, t) \in [Procs -> ThreadFrames]
        /\ Await(op, t, "stop_seen", t, row, TRUE) \in [Procs -> ThreadFrames]
    BY <1>1, AwaitType, ControlType, Points
  <1>3. CASE Save(t, Protected(row)) /\ op' = AfterProtection(op, t)
    BY <1>1, <1>2, <1>3, SaveType
  <1>4. CASE Compensate(t, t, row)
    BY <1>1, <1>4, StopIsOnType
  <1>5. CASE Save(t, row) /\ op' = Await(op, t, "stop_seen", t, row, TRUE)
    BY <1>1, <1>2, <1>5, SaveType
  <1> QED
    BY <1>3, <1>4, <1>5 DEF StopReported

\* The outcome that leads to a position and its protection.
LEMMA FilledType ==
  ASSUME TInv, NEW t \in ThreadIds, NEW cur \in ThreadRecords,
         NEW limits \in [ThreadIds -> Timers], OpenFilled(t, cur, limits)
  PROVE  /\ op' \in [Procs -> ThreadFrames]
         /\ thr' \in [ThreadIds -> ThreadRecords]
         /\ intent' \in [ThreadIds -> IntentStatuses]
         /\ timer' \in [ThreadIds -> Timers]
  <1> DEFINE next == [cur EXCEPT !.status = "in_position"]
  <1>1. next \in ThreadRecords /\ "filled" \in IntentStatuses
    BY OpenRecords DEF IntentStatuses
  <1>2. intent' \in [ThreadIds -> IntentStatuses]
    BY <1>1, OpenRecords, SetIntentType DEF OpenFilled
  <1>3. CASE Save(t, next) /\ placeProtection(t, t, next, next, limits)
    BY <1>1, <1>2, <1>3, OpenRecords, SaveType, ProtectType
  <1>4. CASE StopReported(t, next) /\ timer' = [limits EXCEPT ![t].retry = TRUE]
    <2>1. timer' \in [ThreadIds -> Timers]
      <3>1. [limits[t] EXCEPT !.retry = TRUE] \in Timers
        BY DEF Timers
      <3> QED
        BY <1>4, <3>1
    <2>2. op' \in [Procs -> ThreadFrames] /\ thr' \in [ThreadIds -> ThreadRecords]
      BY <1>1, <1>4, ReportedType
    <2> QED
      BY <1>2, <2>1, <2>2
  <1> QED
    BY <1>3, <1>4 DEF OpenFilled

\* The steps of openThreadFromProposal, manualOrder and executeOpen.
LEMMA OpenType ==
  ASSUME TInv, NEW t \in ThreadIds,
         \/ openThreadFromProposal(t) \/ manualOrderOpen(t) \/ executeOpen(t)
         \/ ProposalPriced(t) \/ OpenPreflight(t) \/ OpenSend(t) \/ OpenSent(t) \/ OpenLookedUp(t)
  PROVE  TInv'
  <1>1. ASSUME op' \in [Procs -> ThreadFrames], thr' \in [ThreadIds -> ThreadRecords],
               intent' \in [ThreadIds -> IntentStatuses], acct' \in BOOLEAN,
               timer' \in [ThreadIds -> Timers], sent' \in [ThreadIds -> Nat],
               UNCHANGED OpenVars
        PROVE  TInv'
    BY <1>1 DEF TInv, TypeOK, OpenVars, exchange, ThreadFrames
  <1>2. /\ thr \in [ThreadIds -> ThreadRecords] /\ intent \in [ThreadIds -> IntentStatuses]
        /\ acct \in BOOLEAN /\ timer \in [ThreadIds -> Timers] /\ sent \in [ThreadIds -> Nat]
        /\ TypeOK /\ op \in [Procs -> ThreadFrames] /\ t \in Procs
    BY OpenRecords DEF TInv, TypeOK
  <1>3. op[t].view.pos \in BOOLEAN /\ op[t].th \in ThreadRecords
    BY <1>2, FrameOf DEF AccountViews
  <1>4. /\ Await(op, t, "prop_account", t, NoThread, TRUE) \in [Procs -> ThreadFrames]
        /\ Await(op, t, "open_account", t, NoThread, TRUE) \in [Procs -> ThreadFrames]
        /\ Await(op, t, "open_setup", t, NoThread, TRUE) \in [Procs -> ThreadFrames]
        /\ Await(op, t, "open_entry", t, NoThread, TRUE) \in [Procs -> ThreadFrames]
        /\ Await(op, t, "open_both", t, NoThread, TRUE) \in [Procs -> ThreadFrames]
        /\ Return(op, t) \in [Procs -> ThreadFrames]
    BY <1>2, AwaitType, ControlType, Points, NewRecords
  <1>5. {"pending_approval", "approved", "rejected"} \subseteq IntentStatuses
    BY DEF IntentStatuses
  <1>6. CASE openThreadFromProposal(t)
    BY <1>1, <1>2, <1>4, <1>6 DEF openThreadFromProposal
  <1>7. CASE manualOrderOpen(t)
    BY <1>1, <1>2, <1>5, <1>7, NewRecords, SaveType, SetIntentType DEF manualOrderOpen
  <1>8. CASE executeOpen(t)
    <2>1. [thr[t] EXCEPT !.cid = TRUE, !.submitting = TRUE, !.submitted = FALSE] \in ThreadRecords
      BY OpenRecords, RecordUpdates
    <2> QED
      BY <1>1, <1>2, <1>4, <1>5, <1>8, <2>1, OpenRecords, SaveType, SetIntentType DEF executeOpen
  <1>9. CASE ProposalPriced(t)
    <2>1. thr' \in [ThreadIds -> ThreadRecords] /\ intent' \in [ThreadIds -> IntentStatuses]
      BY <1>2, <1>5, <1>9, OpenRecords, NewRecords, SaveType, SetIntentType DEF ProposalPriced, CreateThread
    <2> QED
      BY <1>1, <1>2, <1>3, <1>4, <1>9, <2>1 DEF ProposalPriced
  <1>10. CASE OpenPreflight(t)
    BY <1>1, <1>2, <1>3, <1>4, <1>10, NewRecords, OutcomeType DEF OpenPreflight
  <1>11. CASE OpenSend(t)
    <2>1. UNCHANGED <<OpenVars, acct, timer>>
      BY <1>11 DEF OpenSend
    <2>2. CASE AbortOpen(t) /\ UNCHANGED sent
      BY <1>1, <1>2, <2>1, <2>2, NewRecords, OutcomeType
    <2>3. CASE /\ \/ op' = Await(op, t, "open_entry", t, NoThread, TRUE)
                  \/ op' = Await(op, t, "open_both", t, NoThread, TRUE)
               /\ sent' = [sent EXCEPT ![t] = @ + 1]
               /\ UNCHANGED <<thr, intent>>
      <3>1. sent' \in [ThreadIds -> Nat]
        BY <1>2, <2>3
      <3>2. op' \in [Procs -> ThreadFrames]
        BY <1>4, <2>3
      <3> QED
        BY <1>1, <1>2, <2>1, <2>3, <3>1, <3>2
    <2> QED
      BY <1>11, <2>2, <2>3 DEF OpenSend
  <1>12. CASE OpenSent(t)
    <2> DEFINE cur == [thr[t] EXCEPT !.submitting = FALSE, !.submitted = TRUE]
               limits == [timer EXCEPT ![t].grace = TRUE]
    <2>1. cur \in ThreadRecords /\ limits \in [ThreadIds -> Timers]
      BY OpenRecords
    <2>2. Await(op, t, "open_lookup", t, cur, TRUE) \in [Procs -> ThreadFrames]
      BY <1>2, <2>1, AwaitType, Points
    <2>3. UNCHANGED <<OpenVars, acct, sent>>
      BY <1>12 DEF OpenSent
    <2>4. CASE Save(t, cur) /\ op' = Await(op, t, "open_lookup", t, cur, TRUE) /\ timer' = limits /\ UNCHANGED intent
      BY <1>1, <1>2, <2>1, <2>2, <2>3, <2>4, SaveType
    <2>5. CASE OpenOutcome(t, op[t].rep, cur) /\ timer' = limits
      BY <1>1, <1>2, <2>1, <2>3, <2>5, OutcomeType
    <2>6. CASE OpenFilled(t, cur, limits)
      BY <1>1, <1>2, <2>1, <2>3, <2>6, FilledType
    <2> QED
      BY <1>12, <2>4, <2>5, <2>6 DEF OpenSent
  <1>13. CASE OpenLookedUp(t)
    <2>1. UNCHANGED <<OpenVars, acct, sent>>
      BY <1>13 DEF OpenLookedUp
    <2>2. CASE OpenFilled(t, op[t].th, timer)
      BY <1>1, <1>2, <1>3, <2>1, <2>2, FilledType
    <2>3. CASE UNCHANGED timer /\ \E outcome : OpenOutcome(t, outcome, op[t].th)
      BY <1>1, <1>2, <1>3, <2>1, <2>3, OutcomeType
    <2> QED
      BY <1>13, <2>2, <2>3 DEF OpenLookedUp
  <1> QED
    BY <1>6, <1>7, <1>8, <1>9, <1>10, <1>11, <1>12, <1>13

-----------------------------------------------------------------------------
\* What follows a verdict of reconcileThread.
LEMMA JudgeType ==
  ASSUME TInv, NEW t \in ThreadIds, NEW th \in ThreadRecords, NEW entry, Judge(t, th, entry)
  PROVE  /\ op' \in [Procs -> ThreadFrames]
         /\ thr' \in [ThreadIds -> ThreadRecords]
         /\ intent' \in [ThreadIds -> IntentStatuses]
         /\ closing' \in [ThreadIds -> Nat]
         /\ timer' \in [ThreadIds -> Timers]
  <1> DEFINE f == FactsFor(t, entry)
             next == reconcileThread(th, f)
  <1>1. /\ thr \in [ThreadIds -> ThreadRecords] /\ intent \in [ThreadIds -> IntentStatuses]
        /\ closing \in [ThreadIds -> Nat] /\ timer \in [ThreadIds -> Timers] /\ snap \in AccountViews
        /\ TypeOK /\ op \in [Procs -> ThreadFrames] /\ "poller" \in Procs
    BY DEF TInv, TypeOK, Procs
  <1>3. next \in ThreadRecords
    BY ReconcileType
  <1>4. /\ NextThread(op) \in [Procs -> ThreadFrames]
        /\ Await(op, "poller", "part_cancel", t, next, TRUE) \in [Procs -> ThreadFrames]
        /\ Await(op, "poller", "closed_cancel", t, next, TRUE) \in [Procs -> ThreadFrames]
    BY <1>1, <1>3, AwaitType, ControlType, Points
  <1>5. ASSUME placeProtection("poller", t, next, next, timer)
        PROVE  op' \in [Procs -> ThreadFrames] /\ timer' \in [ThreadIds -> Timers]
    BY <1>1, <1>3, <1>5, ProtectType
  <1>6. thr' = thr \/ Save(t, next)
    BY DEF Judge
  <1>7. thr' \in [ThreadIds -> ThreadRecords]
    BY <1>1, <1>3, <1>6, SaveType
  <1>8. \/ UNCHANGED <<intent, closing>>
        \/ UNCHANGED closing /\ resolveUnknownIntents(t, entry)
        \/ resolveOpenIntents(t, "failed")
    BY DEF Judge
  <1>9. intent' \in [ThreadIds -> IntentStatuses] /\ closing' \in [ThreadIds -> Nat]
    BY <1>1, <1>8, ResolveType
  <1>10. \/ op' = NextThread(op) /\ UNCHANGED timer
         \/ op' = Await(op, "poller", "part_cancel", t, next, TRUE) /\ UNCHANGED timer
         \/ op' = Await(op, "poller", "closed_cancel", t, next, TRUE) /\ UNCHANGED timer
         \/ placeProtection("poller", t, next, next, timer)
    BY DEF Judge
  <1> QED
    BY <1>1, <1>4, <1>5, <1>7, <1>9, <1>10

\* The account poll and its reconciliation pass.
LEMMA PollType ==
  ASSUME TInv, PollTimer \/ PollStep
  PROVE  TInv'
  <1> DEFINE P == op["poller"]
  <1>1. /\ thr \in [ThreadIds -> ThreadRecords] /\ intent \in [ThreadIds -> IntentStatuses]
        /\ closing \in [ThreadIds -> Nat] /\ timer \in [ThreadIds -> Timers] /\ snap \in AccountViews
        /\ todo \in [ThreadIds -> ThreadRecords] /\ acct \in BOOLEAN
        /\ TypeOK /\ op \in [Procs -> ThreadFrames] /\ "poller" \in Procs /\ NoView \in AccountViews
    BY DEF TInv, TypeOK, Procs, NoView, AccountViews
  <1>2. ASSUME op' \in [Procs -> ThreadFrames], thr' \in [ThreadIds -> ThreadRecords],
               intent' \in [ThreadIds -> IntentStatuses], closing' \in [ThreadIds -> Nat],
               acct' \in BOOLEAN, timer' \in [ThreadIds -> Timers], snap' \in AccountViews,
               todo' \in [ThreadIds -> ThreadRecords], UNCHANGED PollVars
        PROVE  TInv'
    BY <1>2 DEF TInv, TypeOK, PollVars, exchange, ThreadFrames
  <1>3. /\ P.view \in AccountViews /\ P.view.pos \in BOOLEAN /\ P.th \in ThreadRecords /\ P.rep \in Replies
        /\ \A pc \in {"rec_lookup", "part_cancel", "rem_lookup", "rem_cancel", "closed_cancel",
                       "rh_cancel", "rh_close", "rh_account"} : P.pc = pc => P.tid \in ThreadIds
    BY <1>1, FrameOf DEF AccountViews, SymbolPoints
  <1>4. /\ NextThread(op) \in [Procs -> ThreadFrames]
        /\ Return(op, "poller") \in [Procs -> ThreadFrames]
        /\ pollAccount(op) \in [Procs -> ThreadFrames]
    BY <1>1, ControlType
  <1>6. CASE PollTimer
    BY <1>1, <1>2, <1>4, <1>6 DEF PollTimer, PollVars, store, exchange
  <1>7. CASE PollAccount
    BY <1>1, <1>2, <1>3, <1>4, <1>7, NewRecords DEF PollAccount
  <1>8. CASE PollNext
    <2>1. CASE op' = Return(op, "poller") /\ snap' = NoView /\ UNCHANGED <<thr, intent, closing, timer, todo>>
      BY <1>1, <1>2, <1>4, <1>8, <2>1 DEF PollNext
    <2>2. ASSUME NEW t \in ThreadIds, todo' = [todo EXCEPT ![t] = NoThread], UNCHANGED snap,
                 \/ op' = NextThread(op) /\ UNCHANGED <<thr, intent, closing, timer>>
                 \/ /\ op' \in {Await(op, "poller", pc, t, todo[t], TRUE) : pc \in {"rh_cancel", "rem_lookup", "rec_lookup"}}
                    /\ UNCHANGED <<thr, intent, closing, timer>>
                 \/ Judge(t, todo[t], "unqueried")
          PROVE  TInv'
      <3>1. todo[t] \in ThreadRecords /\ todo' \in [ThreadIds -> ThreadRecords]
        BY <1>1, <2>2, NewRecords
      <3>2. UNCHANGED <<acct, PollVars>>
        BY <1>8 DEF PollNext
      <3>3. /\ op' \in [Procs -> ThreadFrames] /\ thr' \in [ThreadIds -> ThreadRecords]
            /\ intent' \in [ThreadIds -> IntentStatuses] /\ closing' \in [ThreadIds -> Nat]
            /\ timer' \in [ThreadIds -> Timers]
        <4>1. CASE Judge(t, todo[t], "unqueried")
          BY <3>1, <4>1, JudgeType
        <4>2. CASE op' = NextThread(op) /\ UNCHANGED <<thr, intent, closing, timer>>
          BY <1>1, <1>4, <4>2
        <4>3. CASE /\ op' \in {Await(op, "poller", pc, t, todo[t], TRUE) : pc \in {"rh_cancel", "rem_lookup", "rec_lookup"}}
                   /\ UNCHANGED <<thr, intent, closing, timer>>
          <5>1. /\ Await(op, "poller", "rh_cancel", t, todo[t], TRUE) \in [Procs -> ThreadFrames]
                /\ Await(op, "poller", "rem_lookup", t, todo[t], TRUE) \in [Procs -> ThreadFrames]
                /\ Await(op, "poller", "rec_lookup", t, todo[t], TRUE) \in [Procs -> ThreadFrames]
            BY <1>1, <3>1, AwaitType, Points
          <5> QED
            BY <1>1, <4>3, <5>1
        <4> QED
          BY <2>2, <4>1, <4>2, <4>3
      <3> QED
        BY <1>1, <1>2, <2>2, <3>1, <3>2, <3>3
    <2>3. \/ op' = Return(op, "poller") /\ snap' = NoView /\ UNCHANGED <<thr, intent, closing, timer, todo>>
          \/ \E t \in ThreadIds :
                 /\ todo' = [todo EXCEPT ![t] = NoThread] /\ UNCHANGED snap
                 /\ \/ op' = NextThread(op) /\ UNCHANGED <<thr, intent, closing, timer>>
                    \/ /\ op' \in {Await(op, "poller", pc, t, todo[t], TRUE) : pc \in {"rh_cancel", "rem_lookup", "rec_lookup"}}
                       /\ UNCHANGED <<thr, intent, closing, timer>>
                    \/ Judge(t, todo[t], "unqueried")
      BY <1>8 DEF PollNext
    <2> QED
      BY <2>1, <2>2, <2>3
  <1>9. CASE EntryLookedUp
    <2>1. P.tid \in ThreadIds /\ P.th \in ThreadRecords
      BY <1>3, <1>9 DEF EntryLookedUp, Replied
    <2>2. UNCHANGED <<acct, snap, todo, PollVars>>
      BY <1>9 DEF EntryLookedUp
    <2>3. CASE op' = NextThread(op) /\ UNCHANGED <<thr, intent, closing, timer>>
      BY <1>1, <1>2, <1>4, <2>2, <2>3
    <2>4. CASE Judge(P.tid, P.th, P.rep)
      BY <1>1, <1>2, <2>1, <2>2, <2>4, JudgeType
    <2> QED
      BY <1>9, <2>3, <2>4 DEF EntryLookedUp
  <1>10. CASE RemainderCanceled
    <2>1. P.tid \in ThreadIds /\ P.th \in ThreadRecords /\ thr[P.tid] \in ThreadRecords
      BY <1>1, <1>3, <1>10 DEF RemainderCanceled, Replied
    <2>2. [P.th EXCEPT !.attention = "none"] \in ThreadRecords
      BY <2>1, RecordUpdates, Written
    <2>3. PICK row \in ThreadRecords : Save(P.tid, row) /\ placeProtection("poller", P.tid, P.th, row, timer)
      BY <1>10, <2>1, <2>2 DEF RemainderCanceled
    <2>4. op' \in [Procs -> ThreadFrames] /\ timer' \in [ThreadIds -> Timers]
      BY <1>1, <2>1, <2>3, ProtectType
    <2>5. thr' \in [ThreadIds -> ThreadRecords]
      BY <1>1, <2>3, SaveType
    <2> QED
      BY <1>1, <1>2, <1>10, <2>4, <2>5 DEF RemainderCanceled
  <1>11. ASSUME NEW t \in ThreadIds, ClearRemainder(t)
         PROVE  op' \in [Procs -> ThreadFrames] /\ thr' \in [ThreadIds -> ThreadRecords]
    <2>1. [thr[t] EXCEPT !.attention = "none"] \in ThreadRecords
      BY <1>1, RecordUpdates, Written
    <2> QED
      BY <1>1, <1>4, <1>11, <2>1, SaveType DEF ClearRemainder
  <1>12. CASE RemainderLookedUp
    <2>1. P.tid \in ThreadIds /\ P.th \in ThreadRecords
      BY <1>3, <1>12 DEF RemainderLookedUp, Replied
    <2>2. Await(op, "poller", "rem_cancel", P.tid, P.th, TRUE) \in [Procs -> ThreadFrames]
      BY <1>1, <2>1, AwaitType, Points
    <2>3. op' \in [Procs -> ThreadFrames] /\ thr' \in [ThreadIds -> ThreadRecords]
      BY <1>1, <1>11, <1>12, <2>1, <2>2 DEF RemainderLookedUp
    <2> QED
      BY <1>1, <1>2, <1>12, <2>3 DEF RemainderLookedUp
  <1>13. CASE RemainderRetried
    <2>1. P.tid \in ThreadIds
      BY <1>3, <1>13 DEF RemainderRetried, Replied
    <2>2. op' \in [Procs -> ThreadFrames] /\ thr' \in [ThreadIds -> ThreadRecords]
      BY <1>1, <1>4, <1>11, <1>13, <2>1 DEF RemainderRetried
    <2> QED
      BY <1>1, <1>2, <1>13, <2>2 DEF RemainderRetried
  <1>14. CASE ClosedCleanedUp
    BY <1>1, <1>2, <1>4, <1>14, ResolveType DEF ClosedCleanedUp
  <1>15. CASE HaltRetryCanceled
    <2>1. P.tid \in ThreadIds /\ P.th \in ThreadRecords
      BY <1>3, <1>15 DEF HaltRetryCanceled, Replied
    <2>2. thr' \in [ThreadIds -> ThreadRecords]
      BY <1>1, <1>15, <2>1, SaveType DEF HaltRetryCanceled
    <2>3. op' \in [Procs -> ThreadFrames]
      <3>1. /\ Await(op, "poller", "rh_close", P.tid, P.th, P.rep = "ok") \in [Procs -> ThreadFrames]
            /\ Await(op, "poller", "rh_account", P.tid, P.th, P.rep = "ok") \in [Procs -> ThreadFrames]
        <4>1. (P.rep = "ok") \in BOOLEAN /\ "rh_close" \in AwaitPoints /\ "rh_account" \in AwaitPoints
          BY Points
        <4> HIDE DEF P
        <4> QED
          BY <1>1, <2>1, <4>1, AwaitType
      <3> QED
        BY <1>4, <1>15, <3>1 DEF HaltRetryCanceled
    <2> QED
      BY <1>1, <1>2, <1>15, <2>2, <2>3 DEF HaltRetryCanceled
  <1>16. CASE HaltRetryClosed
    <2>1. P.tid \in ThreadIds /\ P.th \in ThreadRecords
      BY <1>3, <1>16 DEF HaltRetryClosed, Replied
    <2>2. Await(op, "poller", "rh_account", P.tid, P.th, TRUE) \in [Procs -> ThreadFrames]
      BY <1>1, <2>1, AwaitType, Points
    <2> QED
      BY <1>1, <1>2, <1>4, <1>16, <2>2 DEF HaltRetryClosed
  <1>17. CASE HaltRetryProven
    <2>1. P.tid \in ThreadIds /\ P.th \in ThreadRecords
      BY <1>3, <1>17 DEF HaltRetryProven, Replied
    <2>2. [thr[P.tid] EXCEPT !.status = Flattened(P.th.status), !.attention = "none"] \in ThreadRecords
      BY <1>1, <2>1, RecordUpdates, Written DEF Flattened
    <2>3. thr' \in [ThreadIds -> ThreadRecords]
      BY <1>1, <1>17, <2>2, SaveType DEF HaltRetryProven
    <2> QED
      BY <1>1, <1>2, <1>4, <1>17, <2>3, NewRecords DEF HaltRetryProven
  <1>18. CASE ProtectionStep("poller")
    BY <1>1, <1>18, ProtectionStepType
  <1> QED
    BY <1>6, <1>7, <1>8, <1>9, <1>10, <1>12, <1>13, <1>14, <1>15, <1>16, <1>17, <1>18 DEF PollStep

-----------------------------------------------------------------------------
\* The emergency stop and the resume.
LEMMA HaltType ==
  ASSUME TInv, halt \/ resume \/ HaltStep
  PROVE  TInv'
  <1> DEFINE H == op["halter"]
  <1>1. /\ thr \in [ThreadIds -> ThreadRecords] /\ op \in [Procs -> ThreadFrames] /\ "halter" \in Procs
        /\ halted \in BOOLEAN /\ requests \in 0..MaxRequests /\ "none" \in ThreadIds \cup {"none"}
    BY DEF TInv, TypeOK, Procs
  <1>2. ASSUME op' \in [Procs -> ThreadFrames], thr' \in [ThreadIds -> ThreadRecords],
               halted' \in BOOLEAN, requests' \in 0..MaxRequests, UNCHANGED HaltVars
        PROVE  TInv'
    BY <1>2 DEF TInv, TypeOK, HaltVars, exchange, ThreadFrames
  <1>3. \A k : Request(k) => requests' \in 0..MaxRequests
    BY <1>1 DEF Request
  <1>4. /\ pollAccount(op) \in [Procs -> ThreadFrames]
        /\ pollAccount(Return(op, "halter")) \in [Procs -> ThreadFrames]
    BY <1>1, ControlType
  <1>5. CASE halt
    <2>1. Await(op, "halter", "halt_cancel", "none", NoThread, TRUE) \in [Procs -> ThreadFrames]
      BY <1>1, AwaitType, Points, NewRecords DEF SymbolPoints
    <2> QED
      BY <1>1, <1>2, <1>3, <1>4, <1>5, <2>1 DEF halt
  <1>6. CASE resume
    BY <1>1, <1>2, <1>3, <1>6 DEF resume
  <1>7. CASE HaltCanceled
    <2>1. Await(op, "halter", "halt_close", "none", NoThread, H.rep = "ok") \in [Procs -> ThreadFrames]
      <3>1. (H.rep = "ok") \in BOOLEAN /\ "halt_close" \in AwaitPoints /\ "halt_close" \in SymbolPoints
        BY Points DEF SymbolPoints
      <3> HIDE DEF H
      <3> QED
        BY <1>1, <3>1, AwaitType, NewRecords
    <2> QED
      BY <1>1, <1>2, <1>7, <2>1 DEF HaltCanceled
  <1>8. CASE HaltClosed
    <2>1. \A t \in ThreadIds : /\ [thr[t] EXCEPT !.attention = "HALT_INCOMPLETE"] \in ThreadRecords
                              /\ [thr[t] EXCEPT !.status = Flattened(@)] \in ThreadRecords
      BY <1>1, RecordUpdates, Written DEF Flattened
    <2>2. thr' \in [ThreadIds -> ThreadRecords]
      BY <1>1, <1>8, <2>1 DEF HaltClosed
    <2> QED
      BY <1>1, <1>2, <1>4, <1>8, <2>2 DEF HaltClosed
  <1> QED
    BY <1>5, <1>6, <1>7, <1>8 DEF HaltStep

-----------------------------------------------------------------------------
\* The requests to close, and the steps that follow them.
LEMMA CloseRequestType ==
  ASSUME TInv, NEW t \in ThreadIds,
         \/ closeThread(t) \/ manualOrderClose(t) \/ reviewThread(t) \/ proposeClose(t)
         \/ approveClose(t) \/ rejectIntent(t)
  PROVE  TInv'
  <1>1. /\ thr \in [ThreadIds -> ThreadRecords] /\ op \in [Procs -> ThreadFrames] /\ "closer" \in Procs
        /\ closing \in [ThreadIds -> Nat] /\ acct \in BOOLEAN /\ requests \in 0..MaxRequests
        /\ thr[t] \in ThreadRecords /\ TypeOK
    BY DEF TInv, TypeOK, Procs
  <1>2. ASSUME op' \in [Procs -> ThreadFrames], thr' \in [ThreadIds -> ThreadRecords],
               closing' \in [ThreadIds -> Nat], acct' \in BOOLEAN, requests' \in 0..MaxRequests,
               UNCHANGED CloseVars
        PROVE  TInv'
    BY <1>2 DEF TInv, TypeOK, CloseVars, exchange, ThreadFrames
  <1>3. \A k : Request(k) => requests' \in 0..MaxRequests
    BY <1>1 DEF Request
  <1>4. ASSUME closeThreadNow(t)
        PROVE  op' \in [Procs -> ThreadFrames] /\ thr' \in [ThreadIds -> ThreadRecords]
    <2>1. /\ pollAccount(op) \in [Procs -> ThreadFrames]
          /\ Await(op, "closer", "entry_cancel", t, thr[t], TRUE) \in [Procs -> ThreadFrames]
          /\ Await(op, "closer", "close_cancel", t, thr[t], TRUE) \in [Procs -> ThreadFrames]
      BY <1>1, ControlType, AwaitType, Points
    <2>2. [thr[t] EXCEPT !.status = "canceled", !.attention = "none"] \in ThreadRecords
      BY <1>1, RecordUpdates, Written
    <2> QED
      BY <1>1, <1>4, <2>1, <2>2, SaveType DEF closeThreadNow
  <1>5. /\ [closing EXCEPT ![t] = @ + 1] \in [ThreadIds -> Nat]
        /\ closing[t] > 0 => [closing EXCEPT ![t] = @ - 1] \in [ThreadIds -> Nat]
    BY <1>1
  <1>6. CASE closeThread(t) \/ manualOrderClose(t) \/ reviewThread(t)
    BY <1>1, <1>2, <1>3, <1>4, <1>6 DEF closeThread, manualOrderClose, reviewThread
  <1>7. CASE proposeClose(t)
    BY <1>1, <1>2, <1>3, <1>5, <1>7 DEF proposeClose
  <1>8. CASE approveClose(t)
    BY <1>1, <1>2, <1>4, <1>5, <1>8 DEF approveClose
  <1>9. CASE rejectIntent(t)
    <2>1. [thr[t] EXCEPT !.status = "canceled"] \in ThreadRecords /\ "rejected" \in IntentStatuses
      BY <1>1, RecordUpdates, Written DEF IntentStatuses
    <2>2. thr' \in [ThreadIds -> ThreadRecords]
      BY <1>1, <1>9, <2>1, SaveType DEF rejectIntent
    <2>3. intent' \in [ThreadIds -> IntentStatuses] /\ closing' \in [ThreadIds -> Nat]
      BY <1>1, <1>5, <1>9, <2>1, SetIntentType DEF rejectIntent, TypeOK
    <2> QED
      BY <1>9, <2>2, <2>3 DEF rejectIntent, memory, exchange, TInv, TypeOK
  <1> QED
    BY <1>6, <1>7, <1>8, <1>9

\* The order panel's close of a position without a thread.
LEMMA FlattenType ==
  ASSUME TInv, manualOrderFlatten
  PROVE  TInv'
  <1>1. op \in [Procs -> ThreadFrames] /\ "closer" \in Procs
    BY DEF TInv, Procs
  <1>2. Await(op, "closer", "flat_cancel", "none", NoThread, TRUE) \in [Procs -> ThreadFrames]
    BY <1>1, AwaitType, Points, NewRecords DEF SymbolPoints
  <1>3. requests' \in 0..MaxRequests
    BY DEF manualOrderFlatten, Request, TInv, TypeOK
  <1> QED
    BY <1>2, <1>3 DEF manualOrderFlatten, CloseVars, exchange, TInv, TypeOK, ThreadFrames

LEMMA CloseStepType ==
  ASSUME TInv, CloseStep
  PROVE  TInv'
  <1> DEFINE C == op["closer"]
  <1>1. /\ thr \in [ThreadIds -> ThreadRecords] /\ op \in [Procs -> ThreadFrames] /\ "closer" \in Procs
        /\ closing \in [ThreadIds -> Nat] /\ acct \in BOOLEAN /\ requests \in 0..MaxRequests
        /\ C.th \in ThreadRecords /\ C.view.pos \in BOOLEAN /\ TypeOK
    <2>1. "closer" \in Procs
      BY DEF Procs
    <2> QED
      BY <2>1, FrameOf DEF TInv, TypeOK, AccountViews
  <1>2. ASSUME op' \in [Procs -> ThreadFrames], thr' \in [ThreadIds -> ThreadRecords],
               acct' \in BOOLEAN, UNCHANGED <<closing, requests, CloseVars>>
        PROVE  TInv'
    BY <1>2 DEF TInv, TypeOK, CloseVars, exchange, ThreadFrames
  <1>3. /\ Return(op, "closer") \in [Procs -> ThreadFrames]
        /\ pollAccount(Return(op, "closer")) \in [Procs -> ThreadFrames]
    BY <1>1, ControlType
  <1>4. /\ [C.th EXCEPT !.status = "canceled", !.attention = "none"] \in ThreadRecords
        /\ [C.th EXCEPT !.status = "closed", !.attention = "none"] \in ThreadRecords
        /\ [C.th EXCEPT !.attention = "CANCEL_UNKNOWN"] \in ThreadRecords
        /\ [C.th EXCEPT !.attention = "CLOSE_FAILED"] \in ThreadRecords
    BY <1>1, RecordUpdates, Written
  <1>5. ASSUME NEW proven, CloseFinished(proven)
        PROVE  op' \in [Procs -> ThreadFrames] /\ thr' \in [ThreadIds -> ThreadRecords]
    BY <1>1, <1>3, <1>4, <1>5, SaveType DEF CloseFinished
  <1>6. CASE EntryCanceled
    <2>1. thr' \in [ThreadIds -> ThreadRecords]
      BY <1>1, <1>4, <1>6, SaveType DEF EntryCanceled
    <2> QED
      BY <1>1, <1>2, <1>3, <1>6, <2>1 DEF EntryCanceled
  <1>7. CASE CloseCanceled
    <2>1. C.tid \in ThreadIds
      BY <1>1, <1>7, FrameOf DEF CloseCanceled, Replied, SymbolPoints
    <2>2. Await(op, "closer", "close_position", C.tid, C.th, TRUE) \in [Procs -> ThreadFrames]
      BY <1>1, <2>1, AwaitType, Points
    <2> QED
      BY <1>1, <1>2, <1>7, <2>2 DEF CloseCanceled
  <1>8. CASE CloseAnswered
    <2>1. C.tid \in ThreadIds
      BY <1>1, <1>8, FrameOf DEF CloseAnswered, Replied, SymbolPoints
    <2>2. Await(op, "closer", "close_account", C.tid, C.th, TRUE) \in [Procs -> ThreadFrames]
      BY <1>1, <2>1, AwaitType, Points
    <2>3. UNCHANGED <<closing, acct, requests, CloseVars>>
      BY <1>8 DEF CloseAnswered
    <2>4. CASE CloseFinished(TRUE) \/ CloseFinished(FALSE)
      BY <1>1, <1>2, <1>5, <2>3, <2>4
    <2>5. CASE op' = Await(op, "closer", "close_account", C.tid, C.th, TRUE) /\ UNCHANGED thr
      BY <1>1, <1>2, <2>2, <2>3, <2>5
    <2> QED
      BY <1>8, <2>4, <2>5 DEF CloseAnswered
  <1>9. CASE CloseProven
    <2>1. UNCHANGED <<closing, requests, CloseVars>>
      BY <1>9 DEF CloseProven
    <2>2. CASE op' = Return(op, "closer") /\ UNCHANGED <<thr, acct>>
      BY <1>1, <1>2, <1>3, <2>1, <2>2
    <2>3. CASE acct' = C.view.pos /\ CloseFinished(~C.view.pos)
      BY <1>1, <1>2, <1>5, <2>1, <2>3
    <2> QED
      BY <1>9, <2>2, <2>3 DEF CloseProven
  <1>10. CASE FlattenCanceled
    <2>1. Await(op, "closer", "flat_close", "none", NoThread, TRUE) \in [Procs -> ThreadFrames]
      BY <1>1, AwaitType, Points, NewRecords DEF SymbolPoints
    <2> QED
      BY <1>1, <1>2, <1>10, <2>1 DEF FlattenCanceled
  <1>11. CASE FlattenClosed
    BY <1>1, <1>2, <1>3, <1>11 DEF FlattenClosed
  <1> QED
    BY <1>6, <1>7, <1>8, <1>9, <1>10, <1>11 DEF CloseStep

-----------------------------------------------------------------------------
\* A crash keeps the rows and clears the memory.
LEMMA CrashType ==
  ASSUME TInv, crash
  PROVE  TInv'
  <1>1. faults' \in 0..MaxFaults
    BY DEF crash, Fault, TInv, TypeOK
  <1>2. timer' \in [ThreadIds -> Timers]
    <2>1. \A t \in ThreadIds : [timer[t] EXCEPT !.retry = FALSE] \in Timers
      BY DEF TInv, TypeOK, Timers
    <2>2. timer' = [t \in ThreadIds |-> [timer[t] EXCEPT !.retry = FALSE]]
      BY DEF crash
    <2> QED
      BY <2>1, <2>2
  <1>3. order' \in [ThreadIds -> OrderStates]
    BY DEF crash, TInv, TypeOK, OrderStates
  <1>4. snap' \in AccountViews /\ acct' \in BOOLEAN
    BY DEF crash, NoView, AccountViews
  <1>5. op' \in [Procs -> ThreadFrames] /\ todo' \in [ThreadIds -> ThreadRecords]
    BY IdleFrame, NewRecords DEF crash
  <1>6. op' \in [Procs -> Frames]
    BY <1>5 DEF ThreadFrames
  <1>7. UNCHANGED <<store, pos, sent, requests>>
    BY DEF crash
  <1>8. stop' \in BOOLEAN
    BY DEF crash, TInv, TypeOK
  <1> QED
    BY <1>1, <1>2, <1>3, <1>4, <1>5, <1>6, <1>7, <1>8 DEF store, TInv, TypeOK

LEMMA InitType == Init => TInv
  <1> SUFFICES ASSUME Init PROVE TInv
    OBVIOUS
  <1>1. RestoredThread \in ThreadRecords
    BY DEF RestoredThread, newThread, NoThread, ThreadRecords, Statuses, Attentions
  <1>2. thr \in [ThreadIds -> ThreadRecords] /\ todo \in [ThreadIds -> ThreadRecords]
    BY <1>1, NewRecords DEF Init
  <1>3. op \in [Procs -> ThreadFrames]
    BY IdleFrame DEF Init
  <1>4. snap \in AccountViews /\ timer \in [ThreadIds -> Timers]
    BY DEF Init, NoView, AccountViews, NoTimer, Timers
  <1>5. intent \in [ThreadIds -> IntentStatuses] /\ order \in [ThreadIds -> OrderStates]
    BY DEF Init, IntentStatuses, OrderStates
  <1>6. op \in [Procs -> Frames]
    BY <1>3 DEF ThreadFrames
  <1>7. closing \in [ThreadIds -> Nat] /\ sent \in [ThreadIds -> Nat]
    BY DEF Init
  <1>9. faults \in 0..MaxFaults /\ requests \in 0..MaxRequests
    BY DEF Init
  <1>8. halted \in BOOLEAN /\ acct \in BOOLEAN /\ pos \in BOOLEAN /\ stop \in BOOLEAN
    BY DEF Init
  <1> QED
    BY <1>2, <1>3, <1>4, <1>5, <1>6, <1>7, <1>8, <1>9 DEF TInv, TypeOK

\* One step, whoever takes it.
LEMMA StepType == TInv /\ [Next]_vars => TInv'
  <1> SUFFICES ASSUME TInv, [Next]_vars PROVE TInv'
    OBVIOUS
  <1>1. CASE People
    <2>1. CASE halt \/ resume
      BY <2>1, HaltType
    <2>2. CASE manualOrderFlatten
      BY <2>2, FlattenType
    <2>3. ASSUME NEW t \in ThreadIds, openThreadFromProposal(t) \/ manualOrderOpen(t) \/ executeOpen(t)
          PROVE  TInv'
      BY <2>3, OpenType
    <2>4. ASSUME NEW t \in ThreadIds,
                 \/ rejectIntent(t) \/ closeThread(t) \/ manualOrderClose(t) \/ reviewThread(t)
                 \/ proposeClose(t) \/ approveClose(t)
          PROVE  TInv'
      BY <2>4, CloseRequestType
    <2> QED
      BY <1>1, <2>1, <2>2, <2>3, <2>4 DEF People
  <1>2. CASE Exchange \/ \E t \in ThreadIds : TimeLimitPasses(t)
    BY <1>2, ElsewhereType
  <1>3. CASE crash
    BY <1>3, CrashType
  <1>4. CASE PollTimer \/ PollStep
    BY <1>4, PollType
  <1>5. CASE HaltStep
    BY <1>5, HaltType
  <1>6. CASE CloseStep
    BY <1>6, CloseStepType
  <1>7. ASSUME NEW t \in ThreadIds, OpenStep(t) PROVE TInv'
    <2>1. t \in Procs
      BY DEF Procs
    <2> QED
      BY <1>7, <2>1, OpenType, ProtectionStepType DEF OpenStep
  <1>8. ASSUME NEW p \in Procs, Serve(p) PROVE TInv'
    BY <1>8, ServeType
  <1>9. CASE UNCHANGED vars
    BY <1>9 DEF vars, store, memory, exchange, TInv, TypeOK
  <1> QED
    BY <1>1, <1>2, <1>3, <1>4, <1>5, <1>6, <1>7, <1>8, <1>9 DEF Next

\* Whatever the processes, the exchange and the host do, in any order and number,
\* rows, intents, frames and the exchange keep their types.
THEOREM LoopTypeOK == Spec => []TypeOK
  <1>1. TInv => TypeOK
    BY DEF TInv
  <1> QED
    BY <1>1, InitType, StepType, PTL DEF Spec

-----------------------------------------------------------------------------
\* One entry order per thread.  Until executeOpen takes an intent over nothing was
\* sent for its thread; from then until the request leaves, the intent is decided
\* and cannot be taken over again.
OpeningPoints == {"prop_account", "open_account", "open_setup"}
Untouched == {"none", "pending_approval"}

SInv ==
  \A t \in ThreadIds :
    /\ sent[t] <= 1
    /\ op[t].pc = "prop_account" => intent[t] = "none"
    /\ intent[t] \in Untouched => sent[t] = 0
    /\ op[t].pc \in {"open_account", "open_setup"} => sent[t] = 0 /\ intent[t] \notin Untouched

\* Frames o put no executeOpen at an opening point it was not at.
NoneOpens(o) == \A t \in ThreadIds : o[t].pc \in OpeningPoints => o[t].pc = op[t].pc

\* No intent becomes untouched, and one that is missing while its proposal is
\* being priced stays missing.
IntentsGoOn ==
  \A t \in ThreadIds : /\ intent'[t] \in Untouched => intent'[t] = intent[t]
                       /\ intent[t] = "none" /\ op'[t].pc = "prop_account" => intent'[t] = "none"

\* Steps that send nothing, open nothing and only settle intents.
LEMMA QuietSteps == SInv /\ NoneOpens(op') /\ IntentsGoOn /\ UNCHANGED sent => SInv'
  BY DEF SInv, NoneOpens, IntentsGoOn, OpeningPoints, Untouched

\* Control flow outside of the opening points.
LEMMA QuietControl ==
  ASSUME op \in [Procs -> ThreadFrames], NEW p \in Procs
  PROVE  /\ NoneOpens(op)
         /\ NoneOpens(Return(op, p)) /\ NoneOpens(pollAccount(op)) /\ NoneOpens(NextThread(op))
         /\ NoneOpens(pollAccount(Return(op, p))) /\ NoneOpens(AfterProtection(op, p))
  <1>1. ThreadIds \subseteq Procs /\ Idle.pc = "idle" /\ "poller" \in Procs
    BY DEF Procs, Idle
  <1>2. NoneOpens(Return(op, p))
    BY <1>1 DEF NoneOpens, Return, OpeningPoints
  <1>3. NoneOpens(NextThread(op))
    BY <1>1 DEF NoneOpens, NextThread, OpeningPoints, Idle
  <1>4. NoneOpens(pollAccount(op)) /\ NoneOpens(pollAccount(Return(op, p)))
    BY <1>1, <1>2 DEF NoneOpens, pollAccount, Return, OpeningPoints, Idle
  <1> QED
    BY <1>2, <1>3, <1>4 DEF NoneOpens, AfterProtection

\* A process goes on to wait at another point.
LEMMA QuietAwait ==
  ASSUME op \in [Procs -> ThreadFrames], NEW p \in Procs, NEW pc, pc \notin OpeningPoints,
         NEW t, NEW th, NEW ok \in BOOLEAN
  PROVE  NoneOpens(Await(op, p, pc, t, th, ok))
  BY DEF NoneOpens, Await, Idle, Procs

\* Settling an intent.
LEMMA QuietIntents ==
  ASSUME TypeOK
  PROVE  /\ UNCHANGED intent => IntentsGoOn
         /\ \A t, found : resolveUnknownIntents(t, found) => IntentsGoOn
         /\ \A t : \A fallback \in {"filled", "failed"} : resolveOpenIntents(t, fallback) => IntentsGoOn
         /\ \A t \in ThreadIds, s \in IntentStatuses \ Untouched :
               SetIntent(t, s) /\ (intent[t] # "none" \/ op'[t].pc # "prop_account") => IntentsGoOn
  BY DEF TypeOK, IntentsGoOn, Untouched, resolveUnknownIntents, resolveOpenIntents, SetIntent

\* The exchange answers: only replies change.
LEMMA ServeSends ==
  ASSUME TInv, SInv, NEW p \in Procs, Serve(p)
  PROVE  SInv'
  <1>1. op \in [Procs -> ThreadFrames] /\ TypeOK /\ ThreadIds \subseteq Procs
    BY DEF TInv, Procs
  <1>2. UNCHANGED <<intent, sent>>
    BY DEF Serve, account, setup, placeEntry, openWithProtection, getOrder, cancelOrder, cancelAll,
           closePosition, placeStop, algoOrderExists, placeTakeProfit, ServedVars, store
  <1>3. (\E rep, view : Answer(p, rep, view)) \/ (\E rep, leg : AnswerRun(p, rep, leg))
    <2>1. CASE openWithProtection(p)
      BY <2>1 DEF openWithProtection, EntryLeg, StopLeg
    <2>2. CASE ~openWithProtection(p)
      BY <2>2 DEF Serve, account, setup, placeEntry, getOrder, cancelOrder, cancelAll, closePosition,
           placeStop, algoOrderExists, placeTakeProfit
    <2> QED
      BY <2>1, <2>2
  <1>4. \A t \in ThreadIds : op'[t].pc = op[t].pc
    <2>1. CASE \E rep, view : Answer(p, rep, view)
      BY <1>1, <2>1 DEF Answer, ThreadFrames, Frames
    <2>2. CASE \E rep, leg : AnswerRun(p, rep, leg)
      BY <1>1, <2>2 DEF AnswerRun, ThreadFrames, Frames
    <2> QED
      BY <1>3, <2>1, <2>2
  <1> QED
    BY <1>1, <1>2, <1>4, QuietIntents, QuietSteps DEF NoneOpens

\* placeProtection, started or going on.
LEMMA ProtectSends ==
  ASSUME TInv, NEW p \in Procs
  PROVE  /\ \A t, tIn, row, limits : placeProtection(p, t, tIn, row, limits) => NoneOpens(op')
         /\ \A row : StopReported(p, row) => NoneOpens(op')
         /\ ProtectionStep(p) => NoneOpens(op') /\ IntentsGoOn /\ UNCHANGED sent
  <1>1. op \in [Procs -> ThreadFrames] /\ TypeOK
    BY DEF TInv
  <1>2. ASSUME NEW t, NEW th
        PROVE  /\ NoneOpens(Await(op, p, "stop_place", t, th, TRUE))
               /\ NoneOpens(Await(op, p, "stop_seen", t, th, TRUE))
               /\ NoneOpens(Await(op, p, "stop_again", t, th, TRUE))
               /\ NoneOpens(Await(op, p, "stop_close", t, th, TRUE))
               /\ NoneOpens(Await(op, p, "tp_place", t, th, TRUE))
    BY <1>1, QuietAwait DEF OpeningPoints
  <1>3. ASSUME NEW t, NEW tIn, NEW row, NEW limits, placeProtection(p, t, tIn, row, limits)
        PROVE  NoneOpens(op')
    BY <1>1, <1>2, <1>3, QuietControl DEF placeProtection
  <1>4. \A t, th : StopIsOn(p, t, th) \/ Compensate(p, t, th) => NoneOpens(op')
    BY <1>1, <1>2, QuietControl DEF StopIsOn, Compensate
  <1>7. \A row : StopReported(p, row) => NoneOpens(op')
    BY <1>1, <1>2, <1>4, QuietControl DEF StopReported
  <1>5. ASSUME ProtectionStep(p) PROVE NoneOpens(op')
    BY <1>1, <1>2, <1>4, <1>5, QuietControl
       DEF ProtectionStep, StopPlaced, StopSeen, StopPlacedAgain, Compensated, TakeProfitPlaced
  <1>6. ASSUME ProtectionStep(p) PROVE UNCHANGED sent /\ IntentsGoOn
    BY <1>1, <1>6, QuietIntents
       DEF ProtectionStep, StopPlaced, StopSeen, StopPlacedAgain, Compensated, TakeProfitPlaced, ProtectionVars
  <1> QED
    BY <1>3, <1>5, <1>6, <1>7

\* The steps that open: they are the ones that put an executeOpen at an opening
\* point, create an intent or send.
LEMMA OpenSends ==
  ASSUME TInv, SInv, NEW t \in ThreadIds,
         \/ openThreadFromProposal(t) \/ manualOrderOpen(t) \/ executeOpen(t)
         \/ ProposalPriced(t) \/ OpenPreflight(t) \/ OpenSend(t) \/ OpenSent(t) \/ OpenLookedUp(t)
  PROVE  SInv'
  <1>1. op \in [Procs -> ThreadFrames] /\ TypeOK /\ ThreadIds \subseteq Procs /\ t \in Procs
        /\ intent \in [ThreadIds -> IntentStatuses] /\ sent \in [ThreadIds -> Nat]
    BY DEF TInv, TypeOK, Procs
  <1>2. ASSUME NEW pc, op' = Await(op, t, pc, t, NoThread, TRUE)
        PROVE  op'[t].pc = pc /\ \A u \in ThreadIds \ {t} : op'[u] = op[u]
    BY <1>1, <1>2 DEF Await, Idle
  <1>4. CASE openThreadFromProposal(t)
    <2>1. op'[t].pc = "prop_account" /\ \A u \in ThreadIds \ {t} : op'[u] = op[u]
      BY <1>2, <1>4 DEF openThreadFromProposal
    <2> QED
      BY <1>1, <1>4, <2>1 DEF openThreadFromProposal, Fresh, SInv, Untouched
  <1>5. CASE manualOrderOpen(t)
    BY <1>1, <1>5 DEF manualOrderOpen, Fresh, SetIntent, SInv, Untouched
  <1>6. CASE executeOpen(t)
    <2>1. op'[t].pc = "open_account" /\ \A u \in ThreadIds \ {t} : op'[u] = op[u]
      BY <1>2, <1>6 DEF executeOpen
    <2> QED
      BY <1>1, <1>6, <2>1 DEF executeOpen, SetIntent, SInv, Untouched
  <1>7. CASE ProposalPriced(t)
    BY <1>1, <1>7 DEF ProposalPriced, Replied, CreateThread, SetIntent, Return, Idle, SInv, Untouched
  <1>8. ASSUME AbortOpen(t) PROVE NoneOpens(op') /\ IntentsGoOn
    <2>1. op' = Return(op, t) /\ SetIntent(t, "rejected") /\ "rejected" \in IntentStatuses \ Untouched
      BY <1>8 DEF AbortOpen, IntentStatuses, Untouched
    <2>2. op'[t].pc # "prop_account"
      BY <1>1, <2>1 DEF Return, Idle
    <2> QED
      BY <1>1, <2>1, <2>2, QuietControl, QuietIntents
  <1>9. CASE OpenPreflight(t)
    <2>1. CASE AbortOpen(t)
      BY <1>8, <1>9, <2>1, QuietSteps DEF OpenPreflight
    <2>2. CASE op' = Return(op, t) /\ UNCHANGED intent
      BY <1>1, <1>9, <2>2, QuietControl, QuietIntents, QuietSteps DEF OpenPreflight
    <2>3. CASE op' = Await(op, t, "open_setup", t, NoThread, TRUE) /\ UNCHANGED intent
      <3>1. op'[t].pc = "open_setup" /\ \A u \in ThreadIds \ {t} : op'[u] = op[u]
        BY <1>2, <2>3
      <3> QED
        BY <1>1, <1>9, <2>3, <3>1 DEF OpenPreflight, Replied, SInv, Untouched
    <2> QED
      BY <1>9, <2>1, <2>2, <2>3 DEF OpenPreflight
  <1>10. CASE OpenSend(t)
    <2>1. CASE AbortOpen(t) /\ UNCHANGED sent
      BY <1>8, <2>1, QuietSteps
    <2>2. CASE /\ \E pc \in {"open_entry", "open_both"} : op' = Await(op, t, pc, t, NoThread, TRUE)
               /\ sent' = [sent EXCEPT ![t] = @ + 1]
               /\ UNCHANGED intent
      <3>1. sent[t] = 0 /\ intent[t] \notin Untouched
        BY <1>10 DEF OpenSend, Replied, SInv
      <3>2. sent'[t] = 1 /\ \A u \in ThreadIds \ {t} : sent'[u] = sent[u]
        BY <1>1, <2>2, <3>1
      <3>3. op'[t].pc \in {"open_entry", "open_both"} /\ \A u \in ThreadIds \ {t} : op'[u] = op[u]
        BY <1>2, <2>2
      <3>4. intent' = intent
        BY <2>2
      <3> HIDE <2>2
      <3> QED
        BY <3>1, <3>2, <3>3, <3>4 DEF SInv
    <2> QED
      BY <1>10, <2>1, <2>2 DEF OpenSend
  <1>11. ASSUME NEW outcome, NEW cur, OpenOutcome(t, outcome, cur) PROVE NoneOpens(op') /\ IntentsGoOn
    <2>1. op' = Return(op, t) \/ op' = pollAccount(Return(op, t))
      BY <1>11 DEF OpenOutcome
    <2>2. op'[t].pc # "prop_account"
      BY <1>1, <2>1 DEF Return, Idle, pollAccount
    <2>3. PICK s \in IntentStatuses \ Untouched : SetIntent(t, s)
      BY <1>11 DEF OpenOutcome, IntentStatuses, Untouched
    <2> QED
      BY <1>1, <2>1, <2>2, <2>3, QuietControl, QuietIntents
  <1>12. ASSUME NEW cur, NEW limits, OpenFilled(t, cur, limits), op[t].pc \notin OpeningPoints
         PROVE  NoneOpens(op') /\ IntentsGoOn
    <2>1. NoneOpens(op')
      BY <1>1, <1>12, ProtectSends DEF OpenFilled
    <2>2. op'[t].pc # "prop_account"
      BY <1>12, <2>1 DEF NoneOpens, OpeningPoints
    <2>3. SetIntent(t, "filled") /\ "filled" \in IntentStatuses \ Untouched
      BY <1>12 DEF OpenFilled, IntentStatuses, Untouched
    <2> QED
      BY <1>1, <2>1, <2>2, <2>3, QuietIntents
  <1>13. CASE OpenSent(t)
    <2>1. UNCHANGED sent /\ op[t].pc \notin OpeningPoints
      BY <1>13 DEF OpenSent, Replied, OpeningPoints
    <2>2. ASSUME NEW cur, UNCHANGED intent, op' = Await(op, t, "open_lookup", t, cur, TRUE) PROVE SInv'
      <3>1. NoneOpens(op')
        BY <1>1, <2>2, QuietAwait DEF OpeningPoints
      <3> QED
        BY <1>1, <2>1, <2>2, <3>1, QuietIntents, QuietSteps
    <2>3. CASE \E outcome, cur : OpenOutcome(t, outcome, cur)
      BY <1>11, <2>1, <2>3, QuietSteps
    <2>4. CASE \E cur, limits : OpenFilled(t, cur, limits)
      BY <1>12, <2>1, <2>4, QuietSteps
    <2> QED
      BY <1>13, <2>2, <2>3, <2>4 DEF OpenSent
  <1>14. CASE OpenLookedUp(t)
    <2>1. UNCHANGED sent /\ op[t].pc \notin OpeningPoints
      BY <1>14 DEF OpenLookedUp, Replied, OpeningPoints
    <2>2. CASE \E outcome, cur : OpenOutcome(t, outcome, cur)
      BY <1>11, <2>1, <2>2, QuietSteps
    <2>3. CASE \E cur, limits : OpenFilled(t, cur, limits)
      BY <1>12, <2>1, <2>3, QuietSteps
    <2> QED
      BY <1>14, <2>2, <2>3 DEF OpenLookedUp
  <1> QED
    BY <1>4, <1>5, <1>6, <1>7, <1>9, <1>10, <1>13, <1>14

\* Everybody else works in frames of their own.
LEMMA OthersSend ==
  ASSUME TInv, SInv,
         \/ halt \/ resume \/ manualOrderFlatten \/ PollTimer \/ PollStep \/ HaltStep \/ CloseStep
         \/ \E t \in ThreadIds : \/ closeThread(t) \/ manualOrderClose(t) \/ reviewThread(t)
                                 \/ proposeClose(t) \/ approveClose(t) \/ rejectIntent(t)
  PROVE  SInv'
  <1> DEFINE Aside(o) == \A t \in ThreadIds : o[t] = op[t]
  <1>1. op \in [Procs -> ThreadFrames] /\ TypeOK /\ {"poller", "halter", "closer"} \subseteq Procs
        /\ ThreadIds \subseteq Procs /\ \A t \in ThreadIds : t \notin {"poller", "halter", "closer"}
    BY DEF TInv, Procs
  <1>2. ASSUME NEW p \in {"poller", "halter", "closer"}
        PROVE  /\ Aside(Return(op, p)) /\ Aside(pollAccount(op)) /\ Aside(NextThread(op))
               /\ Aside(pollAccount(Return(op, p))) /\ Aside(AfterProtection(op, p))
    BY <1>1 DEF Return, pollAccount, NextThread, AfterProtection
  <1>3. Aside(op') => NoneOpens(op')
    BY DEF NoneOpens
  <1>4. CASE halt \/ resume \/ HaltStep
    <2>1. Aside(op')
      BY <1>1, <1>2, <1>4 DEF halt, resume, HaltStep, HaltCanceled, HaltClosed, Await
    <2>2. UNCHANGED <<intent, sent>>
      BY <1>4 DEF halt, resume, HaltStep, HaltCanceled, HaltClosed, HaltVars
    <2> QED
      BY <1>1, <1>3, <2>1, <2>2, QuietIntents, QuietSteps
  <1>5. CASE manualOrderFlatten \/ CloseStep
    <2>1. Aside(op')
      BY <1>1, <1>2, <1>5 DEF manualOrderFlatten, CloseStep, EntryCanceled, CloseCanceled, CloseAnswered,
           CloseProven, CloseFinished, FlattenCanceled, FlattenClosed, Await
    <2>2. UNCHANGED <<intent, sent>>
      BY <1>5 DEF manualOrderFlatten, CloseStep, EntryCanceled, CloseCanceled, CloseAnswered,
           CloseProven, FlattenCanceled, FlattenClosed, CloseVars
    <2> QED
      BY <1>1, <1>3, <2>1, <2>2, QuietIntents, QuietSteps
  <1>6. ASSUME NEW t \in ThreadIds,
               \/ closeThread(t) \/ manualOrderClose(t) \/ reviewThread(t) \/ proposeClose(t) \/ approveClose(t)
        PROVE  SInv'
    <2>1. Aside(op')
      BY <1>1, <1>2, <1>6 DEF closeThread, manualOrderClose, reviewThread, proposeClose, approveClose,
           closeThreadNow, Await
    <2>2. UNCHANGED <<intent, sent>>
      BY <1>6 DEF closeThread, manualOrderClose, reviewThread, proposeClose, approveClose, CloseVars
    <2> QED
      BY <1>1, <1>3, <2>1, <2>2, QuietIntents, QuietSteps
  <1>7. ASSUME NEW t \in ThreadIds, rejectIntent(t) PROVE SInv'
    <2>1. UNCHANGED <<op, sent>> /\ "rejected" \in IntentStatuses \ Untouched
      BY <1>7 DEF rejectIntent, memory, IntentStatuses, Untouched
    <2>2. UNCHANGED intent \/ (SetIntent(t, "rejected") /\ intent[t] # "none")
      BY <1>7 DEF rejectIntent
    <2> QED
      BY <1>1, <1>3, <2>1, <2>2, QuietIntents, QuietSteps
  <1>8. ASSUME NEW t, NEW th, NEW entry, Judge(t, th, entry) PROVE NoneOpens(op') /\ IntentsGoOn
    <2>1. \/ UNCHANGED intent \/ resolveUnknownIntents(t, entry) \/ resolveOpenIntents(t, "failed")
      BY <1>8 DEF Judge
    <2>2. Aside(op')
      BY <1>1, <1>2, <1>8 DEF Judge, placeProtection, Await
    <2> QED
      BY <1>1, <1>3, <2>1, <2>2, QuietIntents
  <1>9. CASE PollTimer \/ PollAccount
    <2>1. Aside(op')
      BY <1>1, <1>2, <1>9 DEF PollTimer, PollAccount
    <2>2. UNCHANGED <<intent, sent>>
      BY <1>9 DEF PollTimer, PollAccount, PollVars, store
    <2> QED
      BY <1>1, <1>3, <2>1, <2>2, QuietIntents, QuietSteps
  <1>10. CASE PollNext
    <2>1. UNCHANGED sent
      BY <1>10 DEF PollNext, PollVars
    <2>2. CASE \E t, th, entry : Judge(t, th, entry)
      BY <1>8, <2>1, <2>2, QuietSteps
    <2>3. CASE Aside(op') /\ UNCHANGED intent
      BY <1>1, <1>3, <2>1, <2>3, QuietIntents, QuietSteps
    <2>4. \/ UNCHANGED intent /\ op' \in {Return(op, "poller"), NextThread(op)}
          \/ /\ UNCHANGED intent
             /\ \E t \in ThreadIds :
                  op' \in {Await(op, "poller", pc, t, todo[t], TRUE) : pc \in {"rh_cancel", "rem_lookup", "rec_lookup"}}
          \/ \E t, th, entry : Judge(t, th, entry)
      BY <1>10 DEF PollNext
    <2>5. CASE \E t \in ThreadIds :
                  op' \in {Await(op, "poller", pc, t, todo[t], TRUE) : pc \in {"rh_cancel", "rem_lookup", "rec_lookup"}}
      <3>1. Aside(op')
        BY <1>1, <2>5 DEF Await
      <3> QED
        BY <2>2, <2>3, <2>4, <3>1, <1>2
    <2> QED
      BY <1>2, <2>2, <2>3, <2>4, <2>5
  <1>11. CASE EntryLookedUp
    <2>1. UNCHANGED sent
      BY <1>11 DEF EntryLookedUp, PollVars
    <2>2. CASE \E t, th, entry : Judge(t, th, entry)
      BY <1>8, <2>1, <2>2, QuietSteps
    <2>3. CASE op' = NextThread(op) /\ UNCHANGED intent
      BY <1>1, <1>2, <1>3, <2>1, <2>3, QuietIntents, QuietSteps
    <2> QED
      BY <1>11, <2>2, <2>3 DEF EntryLookedUp
  <1>12. CASE RemainderCanceled \/ RemainderLookedUp \/ RemainderRetried
    <2>1. Aside(op')
      BY <1>1, <1>2, <1>12 DEF RemainderCanceled, RemainderLookedUp, RemainderRetried, ClearRemainder,
           placeProtection, Await
    <2>2. UNCHANGED <<intent, sent>>
      BY <1>12 DEF RemainderCanceled, RemainderLookedUp, RemainderRetried, PollVars
    <2> QED
      BY <1>1, <1>3, <2>1, <2>2, QuietIntents, QuietSteps
  <1>13. CASE ClosedCleanedUp
    <2>1. Aside(op') /\ UNCHANGED sent /\ resolveOpenIntents(op["poller"].tid, "filled")
      BY <1>2, <1>13 DEF ClosedCleanedUp, PollVars
    <2> QED
      BY <1>1, <1>3, <2>1, QuietIntents, QuietSteps
  <1>14. CASE HaltRetryCanceled \/ HaltRetryClosed \/ HaltRetryProven
    <2>1. Aside(op')
      BY <1>1, <1>2, <1>14 DEF HaltRetryCanceled, HaltRetryClosed, HaltRetryProven, Await
    <2>2. UNCHANGED <<intent, sent>>
      BY <1>14 DEF HaltRetryCanceled, HaltRetryClosed, HaltRetryProven, PollVars
    <2> QED
      BY <1>1, <1>3, <2>1, <2>2, QuietIntents, QuietSteps
  <1>15. CASE ProtectionStep("poller")
    BY <1>1, <1>15, ProtectSends, QuietSteps
  <1> QED
    BY <1>4, <1>5, <1>6, <1>7, <1>9, <1>10, <1>11, <1>12, <1>13, <1>14, <1>15 DEF PollStep

\* However often an intent is approved, an outcome is unknown, the gateway dies or
\* a poll races the opener: executeOpen asks for at most one entry per thread.
THEOREM LoopSentAtMostOnce == Spec => []SentAtMostOnce
  <1>1. Init => SInv
    BY DEF Init, SInv, Untouched, Idle, Procs
  <1>2. TInv /\ SInv /\ [Next]_vars => SInv'
    <2> SUFFICES ASSUME TInv, SInv, [Next]_vars PROVE SInv'
      OBVIOUS
    <2>1. op \in [Procs -> ThreadFrames] /\ TypeOK
      BY DEF TInv
    <2>2. CASE Exchange \/ (\E t \in ThreadIds : TimeLimitPasses(t)) \/ UNCHANGED vars
      <3>1. UNCHANGED <<op, intent, sent>>
        BY <2>2 DEF Exchange, PositionLeaves, StopLost, EntryArrives, EntryFills, EntryExpires,
             TimeLimitPasses, ElsewhereVars, vars, store, memory
      <3> QED
        BY <3>1 DEF SInv
    <2>3. CASE crash
      BY <2>3 DEF crash, store, SInv, Idle, Procs
    <2>4. CASE People
      BY <2>4, OpenSends, OthersSend DEF People
    <2>5. CASE PollTimer \/ PollStep \/ HaltStep \/ CloseStep
      BY <2>5, OthersSend
    <2>6. ASSUME NEW t \in ThreadIds, OpenStep(t) PROVE SInv'
      <3>1. t \in Procs
        BY DEF Procs
      <3>2. CASE ProtectionStep(t)
        BY <3>1, <3>2, ProtectSends, QuietSteps
      <3> QED
        BY <2>6, <3>2, OpenSends DEF OpenStep
    <2>7. ASSUME NEW p \in Procs, Serve(p) PROVE SInv'
      BY <2>7, ServeSends
    <2> QED
      BY <2>2, <2>3, <2>4, <2>5, <2>6, <2>7 DEF Next
  <1>3. SInv => SentAtMostOnce
    BY DEF SInv, SentAtMostOnce
  <1> QED
    BY <1>1, <1>2, <1>3, InitType, StepType, PTL DEF Spec
=============================================================================
