-------------------------------- MODULE Rest --------------------------------
(***************************************************************************)
(* The REST client of exec-core (binance/rest.rs) with its token bucket     *)
(* (ratelimit.rs), its error classes (error.rs) and the operations          *)
(* demo_exec.rs builds from it.  Several tasks share one client, as the two *)
(* parallel reads of account_stream.rs do; an operation is one or more      *)
(* requests, a request is one or more sends.                                *)
(*                                                                         *)
(* Time is relative: every timer is a number of ticks that are left (or     *)
(* have passed) and Tick moves all of them, so time has no bound.  A tick   *)
(* is about the receive window, 5 s.                                        *)
(***************************************************************************)
EXTENDS Integers

CONSTANTS Tasks,        \* users of one BinanceRest, each with one operation
          Programs,     \* the assignments of operations to tasks to look at
          Legs,         \* the positions of the account: {"BOTH"}, or LONG and SHORT
          Capacity,     \* the bucket: TG_REST_WEIGHT_PER_MINUTE
          Refill,       \* weight that comes back in a tick
          MaxWait,      \* MAX_ACQUIRE_WAIT
          MaxBan,       \* MAX_HONORED_BAN
          BanSpan,      \* how long the exchange bans
          MaxAttempts,  \* DEFAULT_MAX_ATTEMPTS
          MaxFaults,    \* bound: bad answers, losses and clock drifts
          TornBodies    \* requests whose 2xx answer may break off in its body

ASSUME BucketAssumption ==
  /\ Capacity \in Nat \ {0} /\ Refill \in Nat \ {0} /\ MaxWait \in Nat
  /\ BanSpan \in Nat \ {0} /\ MaxBan \in Nat /\ MaxAttempts \in Nat \ {0}
  /\ MaxFaults \in Nat

VARIABLES bucket,   \* RestRateState
          clock,    \* ServerTimeState
          task,     \* where each task is in its operation
          exch,     \* the exchange: its ban, the positions, orders accepted
          told,     \* ticks left of the longest ban an answer has told us of
          faults    \* faults so far

vars == <<bucket, clock, task, exch, told, faults>>

Least(a, b) == IF a < b THEN a ELSE b
Most(a, b) == IF a > b THEN a ELSE b
None == "none"

Reads == {"account", "balance", "positions", "open_orders", "get_order",
          "all_orders", "user_trades", "income", "leverage_bracket"}
PublicReads == {"ping", "symbol_rules", "exchange_info_symbols", "mark_price"}
Writes == {"place", "cancel", "cancel_all", "close_position", "set_leverage",
           "set_margin_type"}
Ops == Reads \cup PublicReads \cup Writes
Verdicts == {"ok", "local_reject", "unauthorized", "clock_skew", "rate_limited",
             "transport", "rejected"}

ASSUME ProgramsAssumption == Programs \subseteq [Tasks -> Ops]

\* A timestamp this old (or a sync this long ago) is outside every window.
Old == 2

(***************************************************************************)
(* Requests                                                                *)
(***************************************************************************)

\* The request an operation sends first; the table of DemoExec::handle.
FirstRequest(op) ==
  CASE op \in {"positions", "close_position"} -> "v2"
    [] op \in {"symbol_rules", "exchange_info_symbols"} -> "exchangeInfo"
    [] op = "mark_price" -> "premiumIndex"
    [] op = "ping" -> "time"
    [] op = "get_order" -> "order"
    [] op = "place" -> "post"
    [] op \in {"cancel", "cancel_all"} -> "delete"
    [] OTHER -> op

\* estimated_request_weight, an account-wide read of the open orders at 40.
Weight(req) ==
  CASE req = "open_orders" -> 40
    [] req = "income" -> 30
    [] req \in {"v2", "v3", "account", "balance", "all_orders", "user_trades"} -> 5
    [] OTHER -> 1

Public(req) == req \in {"exchangeInfo", "premiumIndex", "time"}

\* POST and DELETE are never sent twice by execute.
IsGet(req) == req \notin {"post", "delete", "set_leverage", "set_margin_type"}
Attempts(req) == IF IsGet(req) THEN MaxAttempts ELSE 1
\* The connection was never made: any method; lost after the send: only GET.
retryable(req, connect) == connect \/ IsGet(req)

\* BinanceErrorKind::classify, over what the exchange can answer.
classifyWithoutTransport(a) ==
  CASE a = "-1021" -> "clock_skew" [] a \in {"429", "418"} -> "rate_limited"
    [] a = "401" -> "unauthorized" [] OTHER -> "rejected"
classify(a) ==
  CASE a = "-1021"           -> "clock_skew"
    [] a = "401"             -> "unauthorized"
    [] a \in {"429", "418"}  -> "rate_limited"
    [] a = "5xx"             -> "transport"
    [] a = "4xx"             -> "rejected"
    \* A 2xx whose body broke off has a status and no code.
    [] a = "2xx torn"        -> "rejected"

(***************************************************************************)
(* The token bucket                                                        *)
(***************************************************************************)

\* gate_at refills for the time that passed; Tick does it tick by tick.
Refilled(b) == [b EXCEPT !.tokens = Least(Capacity, @ + Refill)]

ClampedNot(w) == w
Clamped(w) == Least(w, Capacity)
WaitFor(b, w) == ((Clamped(w) - b.tokens) + Refill - 1) \div Refill

\* Ready, Banned, or how long to wait.
gate_at(b, w) ==
  IF b.blocked > 0 THEN "banned"
  ELSE IF b.tokens >= Clamped(w) THEN "ready" ELSE "wait"

\* ban is what the answer tells of the ban; 0 if it tells nothing.
rate_limited_forBackoff(b, ban) ==
  LET exp == IF b.limited >= Old THEN 1 ELSE Least(b.exp + 1, 2)
  IN  [b EXCEPT !.exp = exp, !.limited = 0, !.blocked = Most(@, exp)]
rate_limited_for(b, ban) ==
  LET exp == IF b.limited >= Old THEN 1 ELSE Least(b.exp + 1, 2)
      honored == IF ban = 0 THEN 0 ELSE Least(ban + 1, MaxBan)
  IN  [b EXCEPT !.exp = exp, !.limited = 0,
                !.blocked = Most(@, Most(exp, honored))]

observe_used_weight(b, used) ==
  [b EXCEPT !.tokens = Least(@, Most(Capacity - used, 0))]

(***************************************************************************)
(* Tasks                                                                   *)
(***************************************************************************)

\* req: the request of the operation; sending: it, or the time it syncs for.
Idle(op) ==
  [op |-> op, pc |-> "idle", req |-> FirstRequest(op), sending |-> None,
   attempt |-> 0, age |-> 0, wait |-> 0, resigned |-> FALSE,
   started |-> 0, legs |-> {}, verdict |-> None]

Init ==
  /\ bucket = [tokens |-> Capacity, blocked |-> 0, exp |-> 0, limited |-> Old]
  \* err: offset_ms against the true difference of the clocks.
  /\ clock \in [err : {0}, attempted : BOOLEAN, holder : {None}]
  /\ \E p \in Programs : task = [t \in Tasks |-> Idle(p[t])]
  /\ exch = [banned |-> 0, open |-> Legs, orders |-> [t \in Tasks |-> 0]]
  /\ told = 0
  /\ faults = 0

\* signed_query: the timestamp is taken here, before the bucket is asked.
Signed(s) == [s EXCEPT !.sending = s.req, !.pc = "gate", !.attempt = 0, !.age = 0]

Done(s, v) == [Idle(s.op) EXCEPT !.pc = "done", !.verdict = v]

\* The clock is synchronized, or was lately: a ping is answered from it, any
\* other operation signs its request.
Synced(s) == IF s.op = "ping" THEN Done(s, "ok") ELSE Signed(s)

\* signed_request: ensure_server_time, then the request; public_get has no
\* time to check.
Begin(t) ==
  LET s == task[t]
  IN  /\ s.pc = "idle"
      /\ task' = [task EXCEPT ![t] =
            IF Public(s.req) /\ s.op # "ping" THEN Signed(s)
            ELSE IF clock.attempted THEN Synced(s) ELSE [s EXCEPT !.pc = "lock"]]
      /\ UNCHANGED <<bucket, clock, exch, told, faults>>

\* The parameters are no good: a missing symbol or client order id, an order
\* that NewOrderRequest::to_params refuses.  Nothing is sent.
BadParams(t) ==
  /\ task[t] = Idle(task[t].op)
  /\ faults < MaxFaults /\ faults' = faults + 1
  /\ task' = [task EXCEPT ![t] = Done(@, "local_reject")]
  /\ UNCHANGED <<bucket, clock, exch, told>>

\* sync_server_time under sync_lock; a sync that is not forced looks again.
SyncLock(t) ==
  /\ task[t].pc = "lock" /\ clock.holder = None
  /\ IF ~task[t].resigned /\ clock.attempted
     THEN /\ task' = [task EXCEPT ![t] = Synced(@)]
          /\ UNCHANGED clock
     ELSE /\ task' = [task EXCEPT ![t].sending = "time", ![t].pc = "gate",
                                  ![t].attempt = 0, ![t].started = 0]
          /\ clock' = [clock EXCEPT !.holder = t]
  /\ UNCHANGED <<bucket, exch, told, faults>>

\* The leg close_position sends now; the others wait their turn.
Leg(s) == CHOOSE l \in s.legs \cup {None} : s.legs # {} => l \in s.legs

\* The operation goes on after a request with verdict v.
NextRequest(s, v) ==
  CASE v = "ok" /\ s.op = "close_position" /\ s.req \in {"v2", "v3"} ->
         IF exch.open = {} THEN Done(s, v)
         ELSE [Idle(s.op) EXCEPT !.req = "post", !.legs = exch.open]
    [] v = "ok" /\ s.legs \ {Leg(s)} # {} ->
         [Idle(s.op) EXCEPT !.req = "post", !.legs = s.legs \ {Leg(s)}]
    \* position_risk gives up at once when limited, else tries the older path.
    [] v \notin {"ok", "rate_limited"} /\ s.req = "v2" ->
         [Idle(s.op) EXCEPT !.req = "v3"]
    [] OTHER -> Done(s, v)

\* A request of the operation ends: -1021 syncs and signs again, once.
SettleMain(s, v) ==
  IF v = "clock_skew" /\ ~s.resigned
  THEN [s EXCEPT !.resigned = TRUE, !.pc = "lock", !.sending = None,
                 !.attempt = 0, !.age = 0]
  ELSE NextRequest(s, v)

\* The read of the server's time ends; the midpoint is off by half of all
\* the time since the sync began.  After -1021 a failed sync is the end.
SettleTime(s, v) ==
  IF s.op = "ping" THEN Done(s, v)
  ELSE IF v # "ok" /\ s.resigned THEN NextRequest(s, "clock_skew") ELSE Signed(s)

\* execute returns v to whoever asked.
Settle(t, s, v) ==
  IF s.sending = "time"
  THEN /\ task' = [task EXCEPT ![t] = SettleTime(s, v)]
       /\ clock' = [err |-> IF v = "ok" THEN s.started \div 2 ELSE clock.err,
                    attempted |-> TRUE, holder |-> None]
  ELSE /\ task' = [task EXCEPT ![t] = SettleMain(s, v)]
       /\ UNCHANGED clock

\* RestRateLimiter::acquire, then the first send with no await between them.
Acquire(t) ==
  LET s == task[t]
      w == Weight(s.sending)
      g == gate_at(bucket, w)
  IN  /\ s.pc = "gate" /\ s.wait = 0
      /\ \/ /\ g = "ready"
            /\ bucket' = [bucket EXCEPT !.tokens = @ - Clamped(w)]
            /\ task' = [task EXCEPT ![t].pc = "flight"]
            /\ UNCHANGED clock
         \/ /\ g = "banned" \/ (g = "wait" /\ WaitFor(bucket, w) > MaxWait)
            /\ Settle(t, s, "rate_limited")
            /\ UNCHANGED bucket
         \/ /\ g = "wait" /\ WaitFor(bucket, w) <= MaxWait
            /\ task' = [task EXCEPT ![t].wait = WaitFor(bucket, w)]
            /\ UNCHANGED <<bucket, clock>>
      /\ UNCHANGED <<exch, told, faults>>

\* The next attempt of the loop in execute: the bucket is not asked again.
Resend(t) ==
  /\ task[t].pc = "pause"
  /\ task' = [task EXCEPT ![t].pc = "flight", ![t].attempt = @ + 1]
  /\ UNCHANGED <<bucket, clock, exch, told, faults>>

(***************************************************************************)
(* What becomes of a send                                                  *)
(***************************************************************************)

\* No response: another attempt, or the error of the last one.
NoResponse(t, connect) ==
  LET s == task[t]
  IN  IF retryable(s.sending, connect) /\ s.attempt + 1 < Attempts(s.sending)
      THEN /\ task' = [task EXCEPT ![t].pc = "pause"]
           /\ UNCHANGED clock
      ELSE Settle(t, s, IF connect THEN "local_reject" ELSE "transport")

\* An order the exchange takes; a closing leg closes its position.
Taken(s, t) ==
  IF s.sending # "post" THEN exch
  ELSE [exch EXCEPT !.orders[t] = @ + 1,
                    !.open = IF s.op = "close_position"
                             THEN @ \ {Leg(s)} ELSE @]

\* The connection to the exchange is not made.
ConnectFails(t) ==
  /\ task[t].pc = "flight" /\ faults < MaxFaults
  /\ NoResponse(t, TRUE)
  /\ faults' = faults + 1
  /\ UNCHANGED <<bucket, exch, told>>

\* A send that meets a ban renews it.
Renewed == [exch EXCEPT !.banned = IF @ > 0 THEN BanSpan ELSE 0]

\* The exchange would refuse the timestamp.
OutOfWindow(s) ==
  /\ ~Public(s.sending)
  /\ s.age - clock.err \notin 0..1

\* The closing leg has nothing left to close.
NothingToClose(s) ==
  /\ s.op = "close_position" /\ s.sending = "post"
  /\ Leg(s) \notin exch.open

\* The request arrives, the answer does not.
AnswerLost(t) ==
  LET s == task[t]
  IN  /\ s.pc = "flight" /\ faults < MaxFaults
      /\ \/ exch' = Renewed
         \/ exch.banned = 0 /\ ~OutOfWindow(s) /\ ~NothingToClose(s)
            /\ exch' = Taken(s, t)
      /\ NoResponse(t, FALSE)
      /\ faults' = faults + 1
      /\ UNCHANGED <<bucket, told>>

\* An error answer: what it does to the bucket, and its class.
Answer(t, a, ban) ==
  /\ bucket' = IF classify(a) = "rate_limited" THEN rate_limited_for(bucket, ban) ELSE bucket
  /\ told' = IF ban > told THEN ban ELSE told
  /\ Settle(t, task[t], classify(a))

\* Served; the answer may tell of weight that others have used.
Served(t) ==
  LET s == task[t]
  IN  /\ s.pc = "flight" /\ exch.banned = 0 /\ ~OutOfWindow(s) /\ ~NothingToClose(s)
      /\ exch' = Taken(s, t)
      /\ \/ bucket' = bucket /\ faults' = faults
         \/ /\ faults < MaxFaults /\ faults' = faults + 1
            /\ bucket' = observe_used_weight(bucket, Capacity)
      /\ Settle(t, s, "ok")
      /\ UNCHANGED told

\* Refused for what the request says: no effect.
Refused(t) ==
  LET s == task[t]
  IN  /\ s.pc = "flight" /\ exch.banned = 0
      /\ \/ OutOfWindow(s) /\ faults' = faults /\ Answer(t, "-1021", 0)
         \/ ~OutOfWindow(s) /\ NothingToClose(s) /\ faults' = faults
            /\ Answer(t, "4xx", 0)
         \/ ~OutOfWindow(s) /\ faults < MaxFaults /\ faults' = faults + 1
            /\ \E a \in {"401", "4xx"} : Answer(t, a, 0)
      /\ UNCHANGED exch

\* -4046: the margin type is what it should be, which set_margin_type takes
\* for done.
MarginUnchanged(t) ==
  LET s == task[t]
  IN  /\ s.pc = "flight" /\ s.req = "set_margin_type" /\ s.sending = s.req
      /\ exch.banned = 0 /\ ~OutOfWindow(s)
      /\ Settle(t, s, "ok")
      /\ UNCHANGED <<bucket, exch, told, faults>>

\* Banned, or limited now; the answer may tell until when.
Limited(t) ==
  /\ task[t].pc = "flight"
  /\ \/ exch.banned > 0 /\ faults' = faults
     \/ exch.banned = 0 /\ faults < MaxFaults /\ faults' = faults + 1
  /\ exch' = [exch EXCEPT !.banned = BanSpan]
  /\ \/ Answer(t, "418", BanSpan)
     \/ Answer(t, "429", 0)

\* A 5xx, sent before or after the order was taken.
ServerError(t) ==
  LET s == task[t]
  IN  /\ s.pc = "flight" /\ exch.banned = 0 /\ faults < MaxFaults
      /\ faults' = faults + 1
      /\ \/ exch' = exch
         \/ ~OutOfWindow(s) /\ ~NothingToClose(s) /\ exch' = Taken(s, t)
      /\ Answer(t, "5xx", 0)

\* A 2xx that breaks off in its body, or is no JSON.
BodyTorn(t) ==
  LET s == task[t]
  IN  /\ s.sending \in TornBodies
      /\ s.pc = "flight" /\ exch.banned = 0 /\ faults < MaxFaults
      /\ ~OutOfWindow(s) /\ ~NothingToClose(s)
      /\ faults' = faults + 1
      /\ exch' = Taken(s, t)
      /\ Answer(t, "2xx torn", 0)

(***************************************************************************)
(* The world                                                               *)
(***************************************************************************)

Down(n) == Most(n - 1, 0)
Tick ==
  /\ bucket' = [Refilled(bucket) EXCEPT
                  !.blocked = Down(@), !.limited = Least(@ + 1, Old),
                  !.exp = IF bucket.limited + 1 >= Old THEN 0 ELSE @]
  /\ task' = [t \in Tasks |->
       [task[t] EXCEPT !.wait = Down(@),
                       !.age = IF task[t].pc \in {"gate", "flight", "pause"}
                                  /\ task[t].sending # "time" THEN Least(@ + 1, Old) ELSE 0,
                       !.started = IF task[t].sending = "time" THEN Least(@ + 1, Old) ELSE 0]]
  /\ exch' = [exch EXCEPT !.banned = Down(@)]
  /\ told' = Down(told)
  /\ UNCHANGED <<clock, faults>>

\* The local clock is moved.
Drift ==
  /\ faults < MaxFaults /\ faults' = faults + 1
  /\ clock' = [clock EXCEPT !.err = -2]
  /\ UNCHANGED <<bucket, task, exch, told>>

\* A position is closed by its stop.
StopFires ==
  /\ faults < MaxFaults /\ faults' = faults + 1
  /\ \E l \in exch.open : exch' = [exch EXCEPT !.open = @ \ {l}]
  /\ UNCHANGED <<bucket, clock, task, told>>

Step(t) ==
  \/ Begin(t) \/ BadParams(t) \/ SyncLock(t) \/ Acquire(t) \/ Resend(t)
Fate(t) ==
  \/ ConnectFails(t) \/ AnswerLost(t) \/ Served(t) \/ Refused(t)
  \/ MarginUnchanged(t) \/ Limited(t) \/ ServerError(t) \/ BodyTorn(t)

Next ==
  \/ \E t \in Tasks : Step(t) \/ Fate(t)
  \/ Tick \/ Drift \/ StopFires

Spec == Init /\ [][Next]_vars

\* The runtime polls every task; the HTTP client bounds every send (15 s).
Fairness ==
  /\ \A t \in Tasks : WF_vars(Step(t)) /\ WF_vars(Fate(t))
  /\ WF_vars(Tick)
FairSpec == Spec /\ Fairness

(***************************************************************************)
(* Properties                                                              *)
(***************************************************************************)

TypeOK ==
  /\ bucket \in [tokens : 0..Capacity, blocked : 0..(MaxBan + 2), exp : 0..2, limited : 0..Old]
  /\ clock \in [err : -2..2, attempted : BOOLEAN, holder : Tasks \cup {None}]
  /\ \A t \in Tasks :
       /\ task[t].pc \in {"idle", "lock", "gate", "flight", "pause", "done"}
       /\ task[t].attempt \in 0..(MaxAttempts - 1)
       /\ task[t].wait \in 0..MaxWait
       /\ task[t].verdict \in Verdicts \cup {None}
  /\ exch.banned \in 0..BanSpan /\ exch.open \subseteq Legs
  /\ told \in 0..BanSpan

\* An operation that sends one order leaves at most one order at the
\* exchange, through retries, a lost answer and the second signature after
\* -1021 (rest.rs: a request with a body is never sent again by execute).
OneOrderPerPlace ==
  \A t \in Tasks : task[t].op = "place" => exch.orders[t] <= 1

\* An error that is not ambiguous (any but transport) means that nothing of
\* the operation has reached the account, and "ok" that it has: the gateway
\* looks an order up by its id only when told the outcome is unknown.
HonestErrors ==
  \A t \in Tasks :
    LET s == task[t]
    IN  /\ s.pc = "done" /\ s.verdict \notin {"ok", "transport"} => exch.orders[t] = 0
        /\ s.pc = "done" /\ s.op = "place" /\ s.verdict = "ok" => exch.orders[t] = 1

\* No request is begun towards an exchange while a ban it told us of lasts,
\* whatever other answers have come since (rate_limited_for keeps the later
\* end, gate_at refuses without waiting).  A resend inside execute is another
\* matter: see NoSendIntoKnownBan.
KnownBanKept ==
  [][\A t \in Tasks :
       task[t].pc = "gate" /\ task'[t].pc = "flight" => told = 0]_vars

\* Every operation comes to an end: the waits for the bucket, the sync lock
\* and the retries are all bounded.
OperationsEnd == <>(\A t \in Tasks : task[t].pc = "done")

\* An operation leaves no more orders than it was asked for, and what it reports
\* as certain is what the exchange did (rest.rs:400, 449).
OrdersHonest == TypeOK /\ OneOrderPerPlace /\ HonestErrors
=============================================================================
