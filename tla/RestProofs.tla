----------------------------- MODULE RestProofs -----------------------------
(***************************************************************************)
(* The REST client for any number of tasks and operations, any bucket,     *)
(* ban and number of attempts.  RInv is the inductive form of TypeOK;      *)
(* Consistent ties what a task is about to send to its operation, and      *)
(* FewOrders says where in an operation an order can have been taken.      *)
(***************************************************************************)
EXTENDS Rest, TLAPS

USE BucketAssumption, ProgramsAssumption

AllRequests == Ops \cup {"v2", "v3", "exchangeInfo", "premiumIndex", "time", "order", "post", "delete"}
Pcs == {"idle", "lock", "gate", "flight", "pause", "done"}
Sends == {"gate", "flight", "pause"}

TaskRecords ==
  [op : Ops, pc : Pcs, req : AllRequests, sending : AllRequests \cup {None},
   attempt : 0..(MaxAttempts - 1), age : 0..Old, wait : 0..MaxWait, resigned : BOOLEAN,
   started : 0..Old, legs : SUBSET Legs, verdict : Verdicts \cup {None}]

\* Only two operations send orders, what is sent is the request or the read of the
\* time before it, and a task pauses only if another attempt is left.
Consistent(s) ==
  /\ s.req = "post" => s.op \in {"place", "close_position"}
  /\ s.op = "place" => s.req = "post" /\ s.legs = {}
  /\ s.legs # {} => s.op = "close_position" /\ s.req = "post"
  /\ s.pc \in Sends => s.sending \in {"time", s.req}
  /\ s.pc = "pause" => s.attempt + 1 < Attempts(s.sending)

GoodTasks == {s \in TaskRecords : Consistent(s)}

Accounts == [banned : 0..BanSpan, open : SUBSET Legs, orders : [Tasks -> Nat]]
Buckets == [tokens : 0..Capacity, blocked : 0..(MaxBan + 2), exp : 0..2, limited : 0..Old]
Clocks == [err : -2..2, attempted : BOOLEAN, holder : Tasks \cup {None}]

RInv ==
  /\ bucket \in Buckets /\ clock \in Clocks
  /\ task \in [Tasks -> GoodTasks]
  /\ exch \in Accounts
  /\ told \in 0..BanSpan /\ faults \in 0..MaxFaults

-----------------------------------------------------------------------------
LEMMA FirstRequestType ==
  ASSUME NEW op \in Ops
  PROVE  /\ FirstRequest(op) \in AllRequests
         /\ FirstRequest(op) = "post" <=> op = "place"
  BY DEF FirstRequest, Ops, Reads, PublicReads, Writes, AllRequests

LEMMA IdleType ==
  ASSUME NEW op \in Ops
  PROVE  Idle(op) \in GoodTasks
  BY FirstRequestType DEF Idle, GoodTasks, TaskRecords, Consistent, Pcs, Sends, Old

\* Where an operation goes on.
LEMMA SignedType ==
  ASSUME NEW s \in GoodTasks
  PROVE  /\ Signed(s) \in GoodTasks /\ Signed(s).op = s.op
         /\ Signed(s).pc = "gate"
  <1>1. s \in TaskRecords /\ Consistent(s)
    BY DEF GoodTasks
  <1>2. Signed(s) \in TaskRecords
    <2>1. /\ 0 \in 0..Old /\ 0 \in 0..(MaxAttempts - 1) /\ "gate" \in Pcs
          /\ s.req \in AllRequests \cup {None}
      BY <1>1 DEF TaskRecords, Pcs, Old
    <2> QED
      BY <1>1, <2>1 DEF Signed, TaskRecords
  <1>3. /\ Signed(s).op = s.op /\ Signed(s).req = s.req /\ Signed(s).legs = s.legs
        /\ Signed(s).pc = "gate" /\ Signed(s).sending = s.req
    BY <1>1 DEF Signed, TaskRecords
  <1>4. Consistent(Signed(s))
    BY <1>1, <1>3 DEF Consistent
  <1> QED
    BY <1>2, <1>3, <1>4 DEF GoodTasks

LEMMA DoneType ==
  ASSUME NEW s \in GoodTasks, NEW v \in Verdicts
  PROVE  /\ Done(s, v) \in GoodTasks /\ Done(s, v).op = s.op
         /\ Done(s, v).pc = "done" /\ Done(s, v).verdict = v
  <1>1. s.op \in Ops
    BY DEF GoodTasks, TaskRecords
  <1>2. Idle(s.op) \in TaskRecords /\ Consistent(Idle(s.op)) /\ Idle(s.op).op = s.op
    BY <1>1, IdleType DEF Idle, GoodTasks
  <1>3. Done(s, v) \in TaskRecords
    BY <1>2 DEF Done, TaskRecords, Pcs
  <1>4. /\ Done(s, v).op = s.op /\ Done(s, v).req = Idle(s.op).req /\ Done(s, v).legs = Idle(s.op).legs
        /\ Done(s, v).pc = "done" /\ Done(s, v).verdict = v
    BY <1>2 DEF Done, TaskRecords
  <1>5. Consistent(Done(s, v))
    BY <1>2, <1>4 DEF Consistent, Sends
  <1> QED
    BY <1>3, <1>4, <1>5 DEF GoodTasks

LEMMA SyncedType ==
  ASSUME NEW s \in GoodTasks
  PROVE  /\ Synced(s) \in GoodTasks /\ Synced(s).op = s.op
         /\ Synced(s).pc = "gate" \/ (Synced(s).pc = "done" /\ s.op = "ping" /\ Synced(s).verdict = "ok")
  BY SignedType, DoneType DEF Synced, Verdicts

\* A request has ended with v: the operation is over with v, or sends another
\* request, which for an order is a further leg of a close.
LEMMA NextRequestType ==
  ASSUME RInv, NEW s \in GoodTasks, NEW v \in Verdicts
  PROVE  LET u == NextRequest(s, v) IN
         /\ u \in GoodTasks /\ u.op = s.op
         /\ \/ u = Done(s, v)
            \/ /\ u.pc = "idle"
               /\ s.req \in {"v2", "v3"} \/ s.legs \ {Leg(s)} # {}
  <1> DEFINE u == NextRequest(s, v)
  <1>0. s.op \in Ops /\ s.legs \subseteq Legs /\ exch.open \subseteq Legs /\ Consistent(s)
    BY DEF GoodTasks, TaskRecords, RInv, Accounts
  <1>1. Idle(s.op) \in TaskRecords /\ Consistent(Idle(s.op)) /\ Idle(s.op).op = s.op /\ Idle(s.op).pc = "idle"
        /\ Idle(s.op).legs = {}
    BY <1>0, IdleType DEF Idle, GoodTasks
  <1>2. Done(s, v) \in GoodTasks /\ Done(s, v).op = s.op
    BY DoneType
  <1>3. ASSUME NEW l \in SUBSET Legs, s.op = "close_position"
        PROVE  LET w == [Idle(s.op) EXCEPT !.req = "post", !.legs = l] IN
               w \in GoodTasks /\ w.op = s.op /\ w.pc = "idle"
    <2> DEFINE w == [Idle(s.op) EXCEPT !.req = "post", !.legs = l]
    <2>1. w \in TaskRecords
      BY <1>1 DEF TaskRecords, AllRequests
    <2>2. w.op = s.op /\ w.pc = "idle" /\ w.req = "post"
      BY <1>1 DEF TaskRecords
    <2> HIDE DEF w
    <2>3. Consistent(w)
      BY <1>3, <2>2 DEF Consistent, Sends
    <2> QED
      BY <2>1, <2>2, <2>3 DEF GoodTasks, w
  <1>4. ASSUME s.req = "v2"
        PROVE  LET w == [Idle(s.op) EXCEPT !.req = "v3"] IN
               w \in GoodTasks /\ w.op = s.op /\ w.pc = "idle"
    <2> DEFINE w == [Idle(s.op) EXCEPT !.req = "v3"]
    <2>1. w \in TaskRecords
      BY <1>1 DEF TaskRecords, AllRequests
    <2>2. w.op = s.op /\ w.pc = "idle" /\ w.req = "v3" /\ w.legs = {}
      BY <1>1 DEF TaskRecords
    <2> HIDE DEF w
    <2>3. Consistent(w)
      BY <1>0, <1>4, <2>2 DEF Consistent, Sends
    <2> QED
      BY <2>1, <2>2, <2>3 DEF GoodTasks, w
  <1>5. CASE v = "ok" /\ s.op = "close_position" /\ s.req \in {"v2", "v3"}
    <2>1. u = Done(s, v) \/ u = [Idle(s.op) EXCEPT !.req = "post", !.legs = exch.open]
      BY <1>0, <1>5 DEF NextRequest, Consistent
    <2> QED
      BY <1>0, <1>2, <1>3, <1>5, <2>1
  <1>6. CASE ~(v = "ok" /\ s.op = "close_position" /\ s.req \in {"v2", "v3"}) /\ v = "ok" /\ s.legs \ {Leg(s)} # {}
    <2>1. u = [Idle(s.op) EXCEPT !.req = "post", !.legs = s.legs \ {Leg(s)}]
      BY <1>6 DEF NextRequest
    <2>2. s.op = "close_position" /\ s.legs \ {Leg(s)} \in SUBSET Legs
      BY <1>0, <1>6 DEF Consistent
    <2> QED
      BY <1>0, <1>3, <1>6, <2>1, <2>2
  <1>7. CASE v \notin {"ok", "rate_limited"} /\ s.req = "v2"
    <2>1. u = [Idle(s.op) EXCEPT !.req = "v3"]
      BY <1>7 DEF NextRequest
    <2> QED
      BY <1>4, <1>7, <2>1
  <1>8. CASE /\ ~(v = "ok" /\ s.op = "close_position" /\ s.req \in {"v2", "v3"})
             /\ ~(v = "ok" /\ s.legs \ {Leg(s)} # {})
             /\ ~(v \notin {"ok", "rate_limited"} /\ s.req = "v2")
    <2>1. u = Done(s, v)
      BY <1>8 DEF NextRequest
    <2> QED
      BY <1>2, <2>1
  <1> QED
    BY <1>5, <1>6, <1>7, <1>8

\* The client may take part in at most one order of an operation: no operation
\* has two legs.
OneLeg == \A a, b \in Legs : a = b

\* A request of the operation, or the read of the time, has ended with v.
LEMMA SettleType ==
  ASSUME RInv, NEW t \in Tasks, NEW v \in Verdicts, task[t].pc \in Sends, Settle(t, task[t], v)
  PROVE  /\ task' \in [Tasks -> GoodTasks] /\ clock' \in Clocks
         /\ \A r \in Tasks \ {t} : task'[r] = task[r]
         /\ task'[t].op = task[t].op
         /\ task'[t].pc \in {"gate", "lock", "idle", "done"}
         /\ task'[t].pc = "done" /\ task[t].sending # "time" => task'[t].verdict = v
         /\ task'[t].pc = "done" /\ task[t].sending = "time" =>
               task[t].op = "ping" \/ task'[t].verdict = "clock_skew"
         /\ task[t].sending = "post" /\ v # "clock_skew" /\ (task[t].op = "place" \/ OneLeg) =>
               task'[t].pc = "done"
  <1> DEFINE s == task[t]
  <1>0. s \in GoodTasks /\ s \in TaskRecords /\ Consistent(s) /\ clock \in Clocks
    BY DEF RInv, GoodTasks
  <1>0a. s.sending \in {"time", s.req} /\ s.started \in 0..2 /\ "clock_skew" \in Verdicts
    BY <1>0 DEF Consistent, Old, TaskRecords, Verdicts
  <1>1. CASE s.sending = "time"
    <2>1. /\ task' = [task EXCEPT ![t] = SettleTime(s, v)]
          /\ clock' = [err |-> IF v = "ok" THEN s.started \div 2 ELSE clock.err,
                       attempted |-> TRUE, holder |-> None]
      BY <1>1 DEF Settle
    <2>2. clock' \in Clocks
      <3>1. s.started \div 2 \in -2..2
        BY <1>0a
      <3> QED
        BY <1>0, <2>1, <3>1 DEF Clocks
    <2> DEFINE u == SettleTime(s, v)
    <2>3. /\ u \in GoodTasks /\ u.op = s.op /\ u.pc \in {"gate", "idle", "done"}
          /\ u.pc = "done" => s.op = "ping" \/ u.verdict = "clock_skew"
      <3>1. CASE s.op = "ping"
        BY <1>0, <3>1, DoneType DEF SettleTime
      <3>2. CASE s.op # "ping" /\ v # "ok" /\ s.resigned
        <4>1. u = NextRequest(s, "clock_skew")
          BY <3>2 DEF SettleTime
        <4>2. /\ Done(s, "clock_skew") \in GoodTasks /\ Done(s, "clock_skew").op = s.op
              /\ Done(s, "clock_skew").pc = "done" /\ Done(s, "clock_skew").verdict = "clock_skew"
          BY <1>0, <1>0a, DoneType
        <4>3. u \in GoodTasks /\ u.op = s.op /\ (u = Done(s, "clock_skew") \/ u.pc = "idle")
          BY <1>0, <1>0a, <4>1, NextRequestType
        <4> QED
          BY <4>2, <4>3
      <3>3. CASE s.op # "ping" /\ ~(v # "ok" /\ s.resigned)
        BY <1>0, <3>3, SignedType DEF SettleTime
      <3> QED
        BY <3>1, <3>2, <3>3
    <2> HIDE DEF u
    <2> QED
      BY <1>1, <2>1, <2>2, <2>3 DEF RInv, u
  <1>2. CASE s.sending # "time"
    <2>1. task' = [task EXCEPT ![t] = SettleMain(s, v)] /\ clock' = clock /\ s.sending = s.req
      BY <1>0a, <1>2 DEF Settle
    <2> DEFINE u == SettleMain(s, v)
    <2>2. CASE v = "clock_skew" /\ ~s.resigned
      <3>1. u = [s EXCEPT !.resigned = TRUE, !.pc = "lock", !.sending = None, !.attempt = 0, !.age = 0]
        BY <2>2 DEF SettleMain
      <3>2. u \in TaskRecords
        <4>1. /\ 0 \in 0..Old /\ 0 \in 0..(MaxAttempts - 1) /\ "lock" \in Pcs
              /\ None \in AllRequests \cup {None} /\ TRUE \in BOOLEAN
          BY DEF Pcs, Old
        <4> QED
          BY <1>0, <3>1, <4>1 DEF TaskRecords
      <3>3. u.pc = "lock" /\ u.op = s.op /\ u.req = s.req /\ u.legs = s.legs
        BY <1>0, <3>1 DEF TaskRecords
      <3> HIDE DEF u
      <3>4. Consistent(u)
        BY <1>0, <3>3 DEF Consistent, Sends
      <3> QED
        BY <1>0, <1>2, <2>1, <2>2, <3>2, <3>3, <3>4 DEF RInv, GoodTasks, u
    <2>3. CASE ~(v = "clock_skew" /\ ~s.resigned)
      <3>1. u = NextRequest(s, v)
        BY <2>3 DEF SettleMain
      <3>2. u \in GoodTasks /\ u.op = s.op
            /\ \/ u.pc = "done" /\ u.verdict = v
               \/ u.pc = "idle" /\ (s.req \in {"v2", "v3"} \/ s.legs \ {Leg(s)} # {})
        BY <1>0, <3>1, NextRequestType, DoneType
      <3>3. ASSUME s.req = "post", s.op = "place" \/ OneLeg
            PROVE  s.legs \ {Leg(s)} = {}
        <4>1. s.op = "place" => s.legs = {}
          BY <1>0 DEF Consistent
        <4>2. s.legs \subseteq Legs
          BY <1>0 DEF TaskRecords
        <4>3. s.legs # {} => Leg(s) \in s.legs
          BY DEF Leg
        <4> QED
          BY <3>3, <4>1, <4>2, <4>3 DEF OneLeg
      <3> HIDE DEF u
      <3> QED
        BY <1>0, <1>2, <2>1, <3>2, <3>3 DEF RInv, u
    <2> QED
      BY <2>2, <2>3
  <1> QED
    BY <1>1, <1>2

-----------------------------------------------------------------------------
\* The token bucket stays a bucket.
LEMMA BucketType ==
  ASSUME NEW b \in Buckets
  PROVE  /\ Refilled(b) \in Buckets
         /\ \A ban \in Nat : rate_limited_for(b, ban) \in Buckets
         /\ \A used \in Nat : observe_used_weight(b, used) \in Buckets
         /\ \A w \in Nat : gate_at(b, w) = "ready" => [b EXCEPT !.tokens = @ - Clamped(w)] \in Buckets
  <1>0. /\ b.tokens \in 0..Capacity /\ b.blocked \in 0..(MaxBan + 2) /\ b.exp \in 0..2 /\ b.limited \in 0..2
        /\ b = [tokens |-> b.tokens, blocked |-> b.blocked, exp |-> b.exp, limited |-> b.limited]
    BY DEF Buckets, Old
  <1>1. Refilled(b) \in Buckets
    BY <1>0 DEF Buckets, Refilled, Least
  <1>2. ASSUME NEW ban \in Nat PROVE rate_limited_for(b, ban) \in Buckets
    <2> DEFINE exp == IF b.limited >= Old THEN 1 ELSE Least(b.exp + 1, 2)
               honored == IF ban = 0 THEN 0 ELSE Least(ban + 1, MaxBan)
    <2>1. exp \in 0..2 /\ honored \in 0..MaxBan
      BY <1>0 DEF Least, Old
    <2> HIDE DEF exp, honored
    <2>2. Most(b.blocked, Most(exp, honored)) \in 0..(MaxBan + 2)
      BY <1>0, <2>1 DEF Most
    <2>3. rate_limited_for(b, ban) = [b EXCEPT !.exp = exp, !.limited = 0, !.blocked = Most(@, Most(exp, honored))]
      BY DEF rate_limited_for, exp, honored
    <2>4. rate_limited_for(b, ban) =
            [tokens |-> b.tokens, blocked |-> Most(b.blocked, Most(exp, honored)), exp |-> exp, limited |-> 0]
      BY <1>0, <2>3
    <2>5. 0 \in 0..Old
      BY DEF Old
    <2> QED
      BY <1>0, <2>1, <2>2, <2>4, <2>5 DEF Buckets
  <1>3. ASSUME NEW used \in Nat PROVE observe_used_weight(b, used) \in Buckets
    BY <1>0 DEF Buckets, observe_used_weight, Least, Most
  <1>4. ASSUME NEW w \in Nat, gate_at(b, w) = "ready" PROVE [b EXCEPT !.tokens = @ - Clamped(w)] \in Buckets
    <2>1. b.tokens >= Clamped(w) /\ Clamped(w) \in Nat
      BY <1>0, <1>4 DEF gate_at, Clamped, Least
    <2> QED
      BY <1>0, <2>1 DEF Buckets
  <1> QED
    BY <1>1, <1>2, <1>3, <1>4

LEMMA WeightType == \A req : Weight(req) \in Nat
  BY DEF Weight

\* A wait for the bucket is not negative.
LEMMA WaitType ==
  ASSUME NEW b \in Buckets, NEW w \in Nat, gate_at(b, w) = "wait"
  PROVE  WaitFor(b, w) \in Nat
  <1>1. b.tokens \in Nat /\ Clamped(w) \in Nat /\ b.tokens < Clamped(w)
    BY DEF Buckets, gate_at, Clamped, Least
  <1>2. (Clamped(w) - b.tokens) + Refill - 1 \in Nat
    BY <1>1
  <1>3. \A x \in Nat, y \in Nat \ {0} : x \div y \in Nat
    OBVIOUS
  <1> QED
    BY <1>2, <1>3 DEF WaitFor

-----------------------------------------------------------------------------
\* The setting in which an error is certain: no 2xx of an order breaks off in its
\* body (which classify takes for a rejection), and no close has two legs.
Certain == "post" \notin TornBodies /\ OneLeg

\* Orders of a task that places one are taken at its end only; if errors are
\* certain, orders are taken only where "ok" or "transport" is reported.
Few(t) ==
  LET s == task[t]
      n == exch.orders[t]
  IN  /\ s.op = "place" => n = 0 \/ (n = 1 /\ s.pc = "done")
      /\ s.op = "place" /\ s.pc = "done" /\ s.verdict = "ok" => n = 1
      /\ Certain => n = 0 \/ (s.pc = "done" /\ s.verdict \in {"ok", "transport"})
FewOrders == \A t \in Tasks : Few(t)

\* A ban the exchange told of is in the bucket, unless it is longer than the
\* longest the client honours.
BanKnown == BanSpan <= MaxBan => told <= bucket.blocked

RestInv == RInv /\ FewOrders /\ BanKnown

\* A step of a task that takes no order and does not end in "ok".
LEMMA QuietFew ==
  ASSUME RInv, FewOrders, NEW t \in Tasks, NEW u, task' = [task EXCEPT ![t] = u], exch'.orders = exch.orders,
         task[t].pc # "done", u.op = task[t].op, u.pc = "done" => u.verdict # "ok" \/ u.op # "place"
  PROVE  FewOrders'
  BY DEF FewOrders, Few, RInv

\* A request ends with v; k orders of it were taken.
LEMMA SettleFew ==
  ASSUME RInv, FewOrders, NEW t \in Tasks, NEW v \in Verdicts, task[t].pc \in Sends, Settle(t, task[t], v),
         NEW k \in 0..1, exch'.orders = [exch.orders EXCEPT ![t] = @ + k],
         k = 1 => task[t].sending = "post" /\ v # "clock_skew" /\ (Certain => v \in {"ok", "transport"}),
         v = "ok" /\ task[t].sending = "post" => k = 1
  PROVE  FewOrders'
  <1> SUFFICES ASSUME NEW r \in Tasks PROVE Few(r)'
    BY DEF FewOrders
  <1>0. /\ exch.orders \in [Tasks -> Nat] /\ Consistent(task[t]) /\ Few(r)
        /\ task \in [Tasks -> GoodTasks] /\ task[t].pc # "done"
    BY DEF RInv, Accounts, GoodTasks, FewOrders, Sends
  <1>1. CASE r # t
    <2>1. task'[r] = task[r] /\ exch'.orders[r] = exch.orders[r]
      BY <1>0, <1>1, SettleType
    <2> QED
      BY <1>0, <2>1 DEF Few
  <1>2. CASE r = t
    <2>1. exch'.orders[t] = exch.orders[t] + k
      BY <1>0
    <2>2. /\ task'[t].op = task[t].op
          /\ task'[t].pc = "done" /\ task[t].sending # "time" => task'[t].verdict = v
          /\ task'[t].pc = "done" /\ task[t].sending = "time" =>
                task[t].op = "ping" \/ task'[t].verdict = "clock_skew"
          /\ task[t].sending = "post" /\ v # "clock_skew" /\ (task[t].op = "place" \/ OneLeg) =>
                task'[t].pc = "done"
      BY SettleType
    <2>3. task[t].sending \in {"time", task[t].req} /\ (task[t].op = "place" => task[t].req = "post")
      BY <1>0 DEF Consistent
    <2>4. /\ task[t].op = "place" => exch.orders[t] = 0
          /\ Certain => exch.orders[t] = 0
      BY <1>0, <1>2 DEF Few
    <2> QED
      BY <1>2, <2>1, <2>2, <2>3, <2>4 DEF Few, Certain
  <1> QED
    BY <1>1, <1>2

LEMMA SameOrders ==
  ASSUME RInv, NEW t \in Tasks
  PROVE  exch.orders = [exch.orders EXCEPT ![t] = @ + 0]
  BY DEF RInv, Accounts

\* What a served request takes: nothing, or one order of a post.
LEMMA TakenType ==
  ASSUME RInv, NEW t \in Tasks
  PROVE  LET e == Taken(task[t], t) IN
         /\ e \in Accounts /\ e.banned = exch.banned
         /\ task[t].sending # "post" => e.orders = [exch.orders EXCEPT ![t] = @ + 0]
         /\ task[t].sending = "post" => e.orders = [exch.orders EXCEPT ![t] = @ + 1]
  <1>0. exch \in Accounts /\ exch.orders \in [Tasks -> Nat]
    BY DEF RInv, Accounts
  <1>1. CASE task[t].sending # "post"
    BY <1>0, <1>1, SameOrders DEF Taken
  <1>2. CASE task[t].sending = "post"
    <2> DEFINE o == [exch.orders EXCEPT ![t] = @ + 1]
               p == IF task[t].op = "close_position" THEN exch.open \ {Leg(task[t])} ELSE exch.open
    <2>1. Taken(task[t], t) = [exch EXCEPT !.orders = o, !.open = p]
      BY <1>0, <1>2 DEF Taken, Accounts
    <2>2. o \in [Tasks -> Nat] /\ p \in SUBSET Legs
      BY <1>0 DEF Accounts
    <2> QED
      BY <1>0, <1>2, <2>1, <2>2 DEF Accounts
  <1> QED
    BY <1>1, <1>2

-----------------------------------------------------------------------------
\* The steps of the client.
LEMMA BeginKeeps ==
  ASSUME RestInv, NEW t \in Tasks, Begin(t) \/ BadParams(t) \/ SyncLock(t) \/ Resend(t)
  PROVE  RestInv'
  <1> DEFINE s == task[t]
  <1>0. s \in GoodTasks /\ s \in TaskRecords /\ Consistent(s) /\ task \in [Tasks -> GoodTasks]
    BY DEF RestInv, RInv, GoodTasks
  <1>0a. "local_reject" \in Verdicts /\ exch.orders = exch.orders
    BY DEF Verdicts
  <1>1. CASE Begin(t)
    <2>1. PICK u \in {Signed(s), Synced(s), [s EXCEPT !.pc = "lock"]} : task' = [task EXCEPT ![t] = u]
      BY <1>1 DEF Begin
    <2>2. u \in GoodTasks /\ u.op = s.op /\ (u.pc = "done" => u.op = "ping")
      <3>1. CASE u = [s EXCEPT !.pc = "lock"]
        <4>1. u \in TaskRecords /\ u.pc = "lock" /\ u.op = s.op /\ u.req = s.req /\ u.legs = s.legs
          BY <1>0, <3>1 DEF TaskRecords, Pcs
        <4>2. Consistent(u)
          BY <1>0, <4>1 DEF Consistent, Sends
        <4> QED
          BY <4>1, <4>2 DEF GoodTasks
      <3> QED
        BY <1>0, <2>1, <3>1, SignedType, SyncedType
    <2>3. UNCHANGED <<bucket, clock, exch, told, faults>> /\ s.pc = "idle"
      BY <1>1 DEF Begin
    <2>4. FewOrders'
      BY <2>1, <2>2, <2>3, QuietFew DEF RestInv
    <2> QED
      BY <1>0, <2>1, <2>2, <2>3, <2>4 DEF RestInv, RInv, BanKnown
  <1>2. CASE BadParams(t)
    <2>1. /\ task' = [task EXCEPT ![t] = Done(s, "local_reject")] /\ s = Idle(s.op)
          /\ UNCHANGED <<bucket, clock, exch, told>> /\ faults' \in 0..MaxFaults
      BY <1>2 DEF BadParams, RestInv, RInv
    <2>2. Done(s, "local_reject") \in GoodTasks /\ Done(s, "local_reject").op = s.op
          /\ Done(s, "local_reject").verdict = "local_reject"
      BY <1>0, <1>0a, DoneType
    <2>3. s.pc = "idle"
      BY <2>1 DEF Idle
    <2>4. FewOrders'
      BY <2>1, <2>2, <2>3, QuietFew DEF RestInv
    <2> QED
      BY <1>0, <2>1, <2>2, <2>4 DEF RestInv, RInv, BanKnown
  <1>3. CASE SyncLock(t)
    <2>1. s.pc = "lock" /\ UNCHANGED <<bucket, exch, told, faults>>
      BY <1>3 DEF SyncLock
    <2>2. PICK u : /\ task' = [task EXCEPT ![t] = u] /\ u \in GoodTasks /\ u.op = s.op
                   /\ u.pc = "done" => u.op = "ping"
      <3> DEFINE w == [s EXCEPT !.sending = "time", !.pc = "gate", !.attempt = 0, !.started = 0]
      <3>1. task' = [task EXCEPT ![t] = Synced(s)] \/ task' = [task EXCEPT ![t] = w]
        BY <1>0, <1>3 DEF SyncLock
      <3>2. w \in TaskRecords /\ w.pc = "gate" /\ w.op = s.op /\ w.req = s.req /\ w.legs = s.legs /\ w.sending = "time"
        <4>1. /\ 0 \in 0..Old /\ 0 \in 0..(MaxAttempts - 1) /\ "gate" \in Pcs
              /\ "time" \in AllRequests \cup {None}
          BY DEF Pcs, Old, AllRequests
        <4> QED
          BY <1>0, <4>1 DEF TaskRecords
      <3> HIDE DEF w
      <3>3. Consistent(w)
        BY <1>0, <3>2 DEF Consistent, Sends
      <3>4. w \in GoodTasks
        BY <3>2, <3>3 DEF GoodTasks
      <3> QED
        BY <1>0, <3>1, <3>2, <3>4, SyncedType
    <2>3. clock' \in Clocks
      BY <1>3 DEF SyncLock, RestInv, RInv, Clocks
    <2>4. FewOrders'
      BY <2>1, <2>2, QuietFew DEF RestInv
    <2> QED
      BY <1>0, <2>1, <2>2, <2>3, <2>4 DEF RestInv, RInv, BanKnown
  <1>4. CASE Resend(t)
    <2> DEFINE u == [s EXCEPT !.pc = "flight", !.attempt = @ + 1]
    <2>1. s.pc = "pause" /\ task' = [task EXCEPT ![t] = u] /\ UNCHANGED <<bucket, clock, exch, told, faults>>
      BY <1>0, <1>4 DEF Resend
    <2>2. s.attempt + 1 \in 0..(MaxAttempts - 1) /\ s.sending \in {"time", s.req}
      BY <1>0, <2>1 DEF Consistent, Sends, Attempts, TaskRecords
    <2>3. u \in TaskRecords /\ u.pc = "flight" /\ u.op = s.op /\ u.req = s.req /\ u.legs = s.legs /\ u.sending = s.sending
      BY <1>0, <2>2 DEF TaskRecords, Pcs
    <2> HIDE DEF u
    <2>4. u \in GoodTasks
      BY <1>0, <2>2, <2>3 DEF Consistent, GoodTasks
    <2>5. FewOrders'
      BY <2>1, <2>3, QuietFew DEF RestInv
    <2> QED
      BY <1>0, <2>1, <2>4, <2>5 DEF RestInv, RInv, BanKnown
  <1> QED
    BY <1>1, <1>2, <1>3, <1>4

LEMMA AcquireKeeps ==
  ASSUME RestInv, NEW t \in Tasks, Acquire(t)
  PROVE  RestInv'
  <1> DEFINE s == task[t]
             w == Weight(s.sending)
  <1>0. /\ s \in TaskRecords /\ Consistent(s) /\ task \in [Tasks -> GoodTasks] /\ w \in Nat /\ bucket \in Buckets
        /\ s.pc = "gate" /\ UNCHANGED <<exch, told, faults>> /\ exch.orders = [exch.orders EXCEPT ![t] = @ + 0]
    BY SameOrders, WeightType DEF RestInv, RInv, GoodTasks, Acquire
  <1>1. CASE /\ gate_at(bucket, w) = "ready" /\ bucket' = [bucket EXCEPT !.tokens = @ - Clamped(w)]
             /\ task' = [task EXCEPT ![t].pc = "flight"] /\ UNCHANGED clock
    <2> DEFINE u == [s EXCEPT !.pc = "flight"]
    <2>1. bucket' \in Buckets /\ bucket'.blocked = bucket.blocked
      BY <1>0, <1>1, BucketType DEF Buckets
    <2>2. u \in TaskRecords /\ u.pc = "flight" /\ u.op = s.op /\ u.req = s.req /\ u.legs = s.legs /\ u.sending = s.sending
      BY <1>0 DEF TaskRecords, Pcs
    <2>3. task' = [task EXCEPT ![t] = u]
      BY <1>0, <1>1
    <2> HIDE DEF u
    <2>4. u \in GoodTasks
      BY <1>0, <2>2 DEF Consistent, GoodTasks, Sends
    <2>5. FewOrders'
      BY <1>0, <2>2, <2>3, QuietFew DEF RestInv
    <2> QED
      BY <1>0, <1>1, <2>1, <2>3, <2>4, <2>5 DEF RestInv, RInv, BanKnown
  <1>2. CASE Settle(t, s, "rate_limited") /\ UNCHANGED bucket
    <2>1. "rate_limited" \in Verdicts /\ s.pc \in Sends
      BY <1>0 DEF Verdicts, Sends
    <2>2. FewOrders'
      <3>1. PICK k \in 0..1 : k = 0
        OBVIOUS
      <3>2. PICK v \in Verdicts : v = "rate_limited"
        BY <2>1
      <3>3. exch'.orders = [exch.orders EXCEPT ![t] = @ + k] /\ Settle(t, task[t], v)
        BY <1>0, <1>2, <3>1, <3>2
      <3>4. /\ k = 1 => task[t].sending = "post" /\ v # "clock_skew" /\ (Certain => v \in {"ok", "transport"})
            /\ v = "ok" /\ task[t].sending = "post" => k = 1
        BY <3>1, <3>2
      <3>5. RInv /\ FewOrders /\ task[t].pc \in Sends
        BY <2>1 DEF RestInv
      <3> QED
        BY <3>3, <3>4, <3>5, SettleFew
    <2>3. task' \in [Tasks -> GoodTasks] /\ clock' \in Clocks
      BY <1>2, <2>1, SettleType DEF RestInv
    <2> QED
      BY <1>0, <1>2, <2>2, <2>3 DEF RestInv, RInv, BanKnown
  <1>3. CASE /\ gate_at(bucket, w) = "wait" /\ WaitFor(bucket, w) <= MaxWait
             /\ task' = [task EXCEPT ![t].wait = WaitFor(bucket, w)] /\ UNCHANGED <<bucket, clock>>
    <2> DEFINE u == [s EXCEPT !.wait = WaitFor(bucket, w)]
    <2>1. WaitFor(bucket, w) \in 0..MaxWait
      BY <1>0, <1>3, WaitType
    <2>2. /\ u \in TaskRecords /\ u.pc = "gate" /\ u.op = s.op /\ u.req = s.req /\ u.legs = s.legs
          /\ u.sending = s.sending /\ task' = [task EXCEPT ![t] = u]
      BY <1>0, <1>3, <2>1 DEF TaskRecords
    <2> HIDE DEF u
    <2>3. u \in GoodTasks
      BY <1>0, <2>2 DEF Consistent, GoodTasks, Sends
    <2>4. FewOrders'
      BY <1>0, <2>2, QuietFew DEF RestInv
    <2> QED
      BY <1>0, <1>3, <2>2, <2>3, <2>4 DEF RestInv, RInv, BanKnown
  <1> QED
    BY <1>1, <1>2, <1>3 DEF Acquire

-----------------------------------------------------------------------------
\* The fate of a send.

\* No response: a pause, or the end of the request; k orders were taken.
LEMMA NoResponseKeeps ==
  ASSUME RestInv, NEW t \in Tasks, task[t].pc = "flight", NEW connect \in BOOLEAN, NoResponse(t, connect),
         UNCHANGED <<bucket, told>>, faults' \in 0..MaxFaults, exch' \in Accounts,
         NEW k \in 0..1, exch'.orders = [exch.orders EXCEPT ![t] = @ + k],
         k = 1 => task[t].sending = "post" /\ ~connect
  PROVE  RestInv'
  <1> DEFINE s == task[t]
  <1>0. s \in TaskRecords /\ Consistent(s) /\ task \in [Tasks -> GoodTasks] /\ s.pc \in Sends
    BY DEF RestInv, RInv, GoodTasks, Sends
  <1>1. CASE /\ retryable(s.sending, connect) /\ s.attempt + 1 < Attempts(s.sending)
             /\ task' = [task EXCEPT ![t].pc = "pause"] /\ UNCHANGED clock
    <2> DEFINE u == [s EXCEPT !.pc = "pause"]
    <2>1. k = 0
      BY <1>1 DEF retryable, IsGet
    <2>2. exch'.orders = exch.orders
      BY <2>1, SameOrders DEF RestInv
    <2>3. /\ u \in TaskRecords /\ u.pc = "pause" /\ u.op = s.op /\ u.req = s.req /\ u.legs = s.legs
          /\ u.sending = s.sending /\ u.attempt = s.attempt /\ task' = [task EXCEPT ![t] = u]
      BY <1>0, <1>1 DEF TaskRecords, Pcs
    <2> HIDE DEF u
    <2>4. u \in GoodTasks
      BY <1>0, <1>1, <2>3 DEF Consistent, GoodTasks, Sends
    <2>5. FewOrders'
      BY <2>2, <2>3, QuietFew DEF RestInv
    <2> QED
      BY <1>0, <1>1, <2>3, <2>4, <2>5 DEF RestInv, RInv, BanKnown
  <1>2. CASE Settle(t, s, IF connect THEN "local_reject" ELSE "transport")
    <2> DEFINE v == IF connect THEN "local_reject" ELSE "transport"
    <2>1. v \in Verdicts /\ v # "ok" /\ v # "clock_skew" /\ (k = 1 => v = "transport")
      BY DEF Verdicts
    <2> HIDE DEF v
    <2>2. Settle(t, s, v)
      BY <1>2 DEF v
    <2>3. FewOrders'
      BY <1>0, <2>1, <2>2, SettleFew DEF RestInv
    <2>4. task' \in [Tasks -> GoodTasks] /\ clock' \in Clocks
      BY <1>0, <2>1, <2>2, SettleType DEF RestInv
    <2> QED
      BY <2>3, <2>4 DEF RestInv, RInv, BanKnown
  <1> QED
    BY <1>1, <1>2 DEF NoResponse

\* A told ban that is honoured is kept: the later end wins.
LEMMA BanMath ==
  ASSUME NEW b \in Buckets, NEW ban \in 0..BanSpan, NEW known \in 0..BanSpan, BanSpan <= MaxBan, known <= b.blocked
  PROVE  (IF ban > known THEN ban ELSE known) <= rate_limited_for(b, ban).blocked
  <1> DEFINE exp == IF b.limited >= Old THEN 1 ELSE Least(b.exp + 1, 2)
             honored == IF ban = 0 THEN 0 ELSE Least(ban + 1, MaxBan)
  <1>1. b.blocked \in Nat /\ exp \in Nat /\ honored \in Nat /\ honored >= ban
    BY DEF Least, Buckets, Old
  <1> HIDE DEF exp, honored
  <1>2. rate_limited_for(b, ban).blocked = Most(b.blocked, Most(exp, honored))
    BY DEF rate_limited_for, Buckets, exp, honored
  <1> QED
    BY <1>1, <1>2 DEF Most

\* What classify makes of an answer.
LEMMA ClassifyType ==
  /\ classify("-1021") = "clock_skew" /\ classify("401") = "unauthorized"
  /\ classify("429") = "rate_limited" /\ classify("418") = "rate_limited"
  /\ classify("5xx") = "transport" /\ classify("4xx") = "rejected" /\ classify("2xx torn") = "rejected"
  BY Zenon DEF classify

\* An answer by its class.
AnswerOf(t, v, ban) ==
  /\ Settle(t, task[t], v)
  /\ told' = IF ban > told THEN ban ELSE told
  /\ bucket' = IF v = "rate_limited" THEN rate_limited_for(bucket, ban) ELSE bucket

LEMMA AnswerByClass ==
  ASSUME NEW t, NEW a, NEW ban, Answer(t, a, ban)
  PROVE  AnswerOf(t, classify(a), ban)
  BY Zenon DEF Answer, AnswerOf

\* What the exchange may answer to a send that is no "ok".
LEMMA ErrorClasses ==
  ASSUME NEW t, Refused(t) \/ Limited(t) \/ ServerError(t) \/ BodyTorn(t)
  PROVE  /\ task[t].pc = "flight"
         /\ faults' = faults \/ (faults < MaxFaults /\ faults' = faults + 1)
         /\ \/ /\ exch' = exch
               /\ AnswerOf(t, "clock_skew", 0) \/ AnswerOf(t, "rejected", 0) \/ AnswerOf(t, "unauthorized", 0)
            \/ /\ exch' = [exch EXCEPT !.banned = BanSpan]
               /\ AnswerOf(t, "rate_limited", BanSpan) \/ AnswerOf(t, "rate_limited", 0)
            \/ exch' = exch /\ AnswerOf(t, "transport", 0)
            \/ exch' = Taken(task[t], t) /\ AnswerOf(t, "transport", 0)
            \/ exch' = Taken(task[t], t) /\ task[t].sending \in TornBodies /\ AnswerOf(t, "rejected", 0)
  <1>1. CASE Refused(t)
    <2>1. /\ task[t].pc = "flight" /\ exch' = exch
          /\ faults' = faults \/ (faults < MaxFaults /\ faults' = faults + 1)
          /\ Answer(t, "-1021", 0) \/ Answer(t, "4xx", 0) \/ Answer(t, "401", 0)
      BY <1>1, Zenon DEF Refused
    <2>2. AnswerOf(t, "clock_skew", 0) \/ AnswerOf(t, "rejected", 0) \/ AnswerOf(t, "unauthorized", 0)
      BY <2>1, AnswerByClass, ClassifyType, Zenon
    <2> QED
      BY <2>1, <2>2, Zenon
  <1>2. CASE Limited(t)
    <2>1. /\ task[t].pc = "flight" /\ exch' = [exch EXCEPT !.banned = BanSpan]
          /\ faults' = faults \/ (faults < MaxFaults /\ faults' = faults + 1)
          /\ Answer(t, "418", BanSpan) \/ Answer(t, "429", 0)
      BY <1>2, Zenon DEF Limited
    <2>2. AnswerOf(t, "rate_limited", BanSpan) \/ AnswerOf(t, "rate_limited", 0)
      BY <2>1, AnswerByClass, ClassifyType, Zenon
    <2> QED
      BY <2>1, <2>2, Zenon
  <1>3. CASE ServerError(t)
    <2>1. /\ task[t].pc = "flight" /\ (exch' = exch \/ exch' = Taken(task[t], t))
          /\ faults < MaxFaults /\ faults' = faults + 1
      BY <1>3, Zenon DEF ServerError
    <2>2. AnswerOf(t, "transport", 0)
      <3>1. Answer(t, "5xx", 0)
        BY <1>3, Zenon DEF ServerError
      <3> QED
        BY <3>1, AnswerByClass, ClassifyType, Zenon
    <2> QED
      BY <2>1, <2>2
  <1>4. CASE BodyTorn(t)
    <2>1. /\ task[t].pc = "flight" /\ exch' = Taken(task[t], t) /\ task[t].sending \in TornBodies
          /\ faults < MaxFaults /\ faults' = faults + 1 /\ Answer(t, "2xx torn", 0)
      BY <1>4, Zenon DEF BodyTorn
    <2>2. AnswerOf(t, "rejected", 0)
      BY <2>1, AnswerByClass, ClassifyType, Zenon
    <2> QED
      BY <2>1, <2>2, Zenon
  <1> QED
    BY <1>1, <1>2, <1>3, <1>4

\* An answer of class v, which may tell of a ban; k orders were taken.
LEMMA AnswerKeeps ==
  ASSUME RestInv, NEW t \in Tasks, task[t].pc = "flight",
         NEW v \in Verdicts, v # "ok", NEW ban \in 0..BanSpan, ban # 0 => v = "rate_limited",
         AnswerOf(t, v, ban),
         faults' \in 0..MaxFaults, exch' \in Accounts,
         NEW k \in 0..1, exch'.orders = [exch.orders EXCEPT ![t] = @ + k],
         k = 1 => task[t].sending = "post" /\ v # "clock_skew" /\ (Certain => v = "transport")
  PROVE  RestInv'
  <1> USE DEF AnswerOf
  <1>3. task[t].pc \in Sends
    BY DEF Sends
  <1>4. FewOrders'
    BY <1>3, SettleFew DEF RestInv
  <1>5. task' \in [Tasks -> GoodTasks] /\ clock' \in Clocks
    BY <1>3, SettleType DEF RestInv
  <1>6. bucket' \in Buckets /\ told' \in 0..BanSpan
    <2>1. ban \in Nat /\ told \in 0..BanSpan /\ bucket \in Buckets
      BY DEF RestInv, RInv
    <2> QED
      BY <2>1, BucketType
  <1>7. BanKnown'
    <2>1. told \in 0..BanSpan /\ bucket \in Buckets
      BY DEF RestInv, RInv
    <2> QED
      BY <2>1, BanMath DEF RestInv, BanKnown
  <1> QED
    BY <1>4, <1>5, <1>6, <1>7 DEF RestInv, RInv

\* What no task does to the account.
LEMMA RenewedType ==
  ASSUME RInv, NEW t \in Tasks
  PROVE  /\ Renewed \in Accounts /\ Renewed.orders = [exch.orders EXCEPT ![t] = @ + 0]
         /\ [exch EXCEPT !.banned = BanSpan] \in Accounts
         /\ [exch EXCEPT !.banned = BanSpan].orders = [exch.orders EXCEPT ![t] = @ + 0]
  <1>1. exch \in Accounts /\ BanSpan \in 0..BanSpan /\ 0 \in 0..BanSpan
    BY DEF RInv
  <1> QED
    BY <1>1, SameOrders DEF Renewed, Accounts

\* A fault is counted.
LEMMA FaultType ==
  ASSUME RInv, faults' = faults \/ (faults < MaxFaults /\ faults' = faults + 1)
  PROVE  faults' \in 0..MaxFaults
  BY DEF RInv

LEMMA LossKeeps ==
  ASSUME RestInv, NEW t \in Tasks, ConnectFails(t) \/ AnswerLost(t)
  PROVE  RestInv'
  <1>0. /\ task[t].pc = "flight" /\ UNCHANGED <<bucket, told>> /\ RInv
        /\ faults < MaxFaults /\ faults' = faults + 1
    BY DEF ConnectFails, AnswerLost, RestInv
  <1>0a. faults' \in 0..MaxFaults
    BY <1>0, FaultType
  <1>1. CASE ConnectFails(t)
    <2>1. PICK k \in 0..1 : k = 0
      OBVIOUS
    <2>2. exch' = exch /\ exch' \in Accounts /\ exch'.orders = [exch.orders EXCEPT ![t] = @ + k]
      BY <1>0, <1>1, <2>1, SameOrders DEF ConnectFails, RInv
    <2>3. NoResponse(t, TRUE)
      BY <1>1 DEF ConnectFails
    <2>4. k = 1 => FALSE
      BY <2>1
    <2> QED
      BY <1>0, <1>0a, <2>2, <2>3, <2>4, NoResponseKeeps
  <1>2. CASE AnswerLost(t)
    <2>1. NoResponse(t, FALSE)
      BY <1>2 DEF AnswerLost
    <2>2. exch' = Renewed \/ exch' = Taken(task[t], t)
      BY <1>2 DEF AnswerLost
    <2>3. PICK k \in 0..1 : /\ exch' \in Accounts /\ exch'.orders = [exch.orders EXCEPT ![t] = @ + k]
                            /\ k = 1 => task[t].sending = "post"
      BY <1>0, <2>2, RenewedType, TakenType
    <2> QED
      BY <1>0, <1>0a, <2>1, <2>3, NoResponseKeeps
  <1> QED
    BY <1>1, <1>2

LEMMA OkKeeps ==
  ASSUME RestInv, NEW t \in Tasks, Served(t) \/ MarginUnchanged(t)
  PROVE  RestInv'
  <1>0. task[t].pc = "flight" /\ task[t].pc \in Sends /\ RInv /\ FewOrders /\ Consistent(task[t]) /\ told' = told
    BY DEF Served, MarginUnchanged, Sends, RestInv, RInv, GoodTasks
  <1>1. PICK v \in Verdicts : v = "ok"
    BY DEF Verdicts
  <1>2. Settle(t, task[t], v)
    BY <1>1 DEF Served, MarginUnchanged
  <1>3. bucket' \in Buckets /\ bucket'.blocked = bucket.blocked /\ faults' \in 0..MaxFaults
    <2>1. Capacity \in Nat /\ bucket \in Buckets /\ observe_used_weight(bucket, Capacity) \in Buckets
      BY <1>0, BucketType DEF RInv
    <2>2. observe_used_weight(bucket, Capacity).blocked = bucket.blocked
      BY <2>1 DEF observe_used_weight, Buckets
    <2> QED
      BY <1>0, <2>1, <2>2 DEF Served, MarginUnchanged, RInv
  <1>4. PICK k \in 0..1 : /\ exch' \in Accounts /\ exch'.orders = [exch.orders EXCEPT ![t] = @ + k]
                          /\ k = 1 <=> task[t].sending = "post"
    <2>1. CASE Served(t)
      BY <1>0, <2>1, TakenType DEF Served
    <2>2. CASE MarginUnchanged(t)
      <3>1. exch' = exch /\ task[t].sending # "post"
        BY <2>2 DEF MarginUnchanged
      <3> QED
        BY <1>0, <3>1, SameOrders DEF RInv
    <2> QED
      BY <2>1, <2>2
  <1>5. /\ k = 1 => task[t].sending = "post" /\ v # "clock_skew" /\ (Certain => v \in {"ok", "transport"})
        /\ v = "ok" /\ task[t].sending = "post" => k = 1
    BY <1>1, <1>4
  <1>6. FewOrders'
    BY <1>0, <1>2, <1>4, <1>5, SettleFew
  <1>7. task' \in [Tasks -> GoodTasks] /\ clock' \in Clocks
    BY <1>0, <1>2, SettleType
  <1> QED
    BY <1>0, <1>3, <1>4, <1>6, <1>7 DEF RestInv, RInv, BanKnown

LEMMA ErrorKeeps ==
  ASSUME RestInv, NEW t \in Tasks, Refused(t) \/ Limited(t) \/ ServerError(t) \/ BodyTorn(t)
  PROVE  RestInv'
  <1>0. task[t].pc = "flight" /\ RInv /\ faults' \in 0..MaxFaults
    BY ErrorClasses, FaultType DEF RestInv
  <1>1. PICK v \in Verdicts, ban \in 0..BanSpan, k \in 0..1 :
          /\ v # "ok" /\ (ban # 0 => v = "rate_limited") /\ AnswerOf(t, v, ban)
          /\ exch' \in Accounts /\ exch'.orders = [exch.orders EXCEPT ![t] = @ + k]
          /\ k = 1 => task[t].sending = "post" /\ v # "clock_skew" /\ (Certain => v = "transport")
    <2>1. 0 \in 0..BanSpan /\ BanSpan \in 0..BanSpan /\ 0 \in 0..1 /\ 1 \in 0..1
      OBVIOUS
    <2>2. {"clock_skew", "unauthorized", "rate_limited", "transport", "rejected"} \subseteq Verdicts
      BY DEF Verdicts
    <2>3. exch \in Accounts /\ exch.orders = [exch.orders EXCEPT ![t] = @ + 0]
      BY <1>0, SameOrders DEF RInv
    <2>4. /\ [exch EXCEPT !.banned = BanSpan] \in Accounts
          /\ [exch EXCEPT !.banned = BanSpan].orders = [exch.orders EXCEPT ![t] = @ + 0]
      BY <1>0, RenewedType
    <2>5. \E n \in 0..1 : /\ Taken(task[t], t) \in Accounts
                          /\ Taken(task[t], t).orders = [exch.orders EXCEPT ![t] = @ + n]
                          /\ n = 1 => task[t].sending = "post"
      BY <1>0, <2>1, TakenType
    <2>6. CASE exch' = exch /\ \E v \in {"clock_skew", "rejected", "unauthorized", "transport"} : AnswerOf(t, v, 0)
      BY <2>1, <2>2, <2>3, <2>6
    <2>7. CASE /\ exch' = [exch EXCEPT !.banned = BanSpan]
               /\ \E ban \in {0, BanSpan} : AnswerOf(t, "rate_limited", ban)
      BY <2>1, <2>2, <2>4, <2>7
    <2>8. CASE exch' = Taken(task[t], t) /\ AnswerOf(t, "transport", 0)
      BY <2>1, <2>2, <2>5, <2>8
    <2>9. CASE exch' = Taken(task[t], t) /\ task[t].sending \in TornBodies /\ AnswerOf(t, "rejected", 0)
      BY <2>1, <2>2, <2>5, <2>9 DEF Certain
    <2> QED
      BY <2>6, <2>7, <2>8, <2>9, ErrorClasses
  <1> QED
    BY <1>0, <1>1, AnswerKeeps

-----------------------------------------------------------------------------
\* The world.
Ticked(s, a, b) == [s EXCEPT !.wait = Down(s.wait), !.age = a, !.started = b]

LEMMA TickTask ==
  ASSUME NEW s \in GoodTasks, NEW a \in 0..Old, NEW b \in 0..Old
  PROVE  /\ Ticked(s, a, b) \in GoodTasks /\ Ticked(s, a, b).op = s.op
         /\ Ticked(s, a, b).pc = s.pc /\ Ticked(s, a, b).verdict = s.verdict
  <1> DEFINE u == Ticked(s, a, b)
  <1>1. s \in TaskRecords /\ Consistent(s)
    BY DEF GoodTasks
  <1>2. Down(s.wait) \in 0..MaxWait
    BY <1>1 DEF TaskRecords, Down, Most
  <1>3. /\ u \in TaskRecords /\ u.op = s.op /\ u.pc = s.pc /\ u.verdict = s.verdict /\ u.req = s.req
        /\ u.sending = s.sending /\ u.attempt = s.attempt /\ u.legs = s.legs
    BY <1>1, <1>2 DEF TaskRecords, Ticked
  <1> HIDE DEF u
  <1>4. Consistent(u)
    BY <1>1, <1>3 DEF Consistent
  <1> QED
    BY <1>3, <1>4 DEF GoodTasks, u

LEMMA TickKeeps ==
  ASSUME RestInv, Tick
  PROVE  RestInv'
  <1>0. /\ bucket \in Buckets /\ exch \in Accounts /\ told \in 0..BanSpan /\ task \in [Tasks -> GoodTasks]
        /\ clock' = clock /\ faults' = faults
    BY DEF RestInv, RInv, Tick
  <1>1. bucket' \in Buckets /\ bucket'.blocked = Down(bucket.blocked)
    <2> DEFINE b == Refilled(bucket)
               x == IF bucket.limited + 1 >= Old THEN 0 ELSE b.exp
    <2>1. b \in Buckets /\ b.blocked = bucket.blocked
      BY <1>0, BucketType DEF Refilled, Buckets
    <2>2. bucket' = [b EXCEPT !.blocked = Down(b.blocked), !.limited = Least(b.limited + 1, Old), !.exp = x]
      BY <2>1 DEF Tick, Buckets
    <2>3. Down(b.blocked) \in 0..(MaxBan + 2) /\ Least(b.limited + 1, Old) \in 0..Old /\ x \in 0..2
      BY <2>1 DEF Buckets, Down, Most, Least, Old
    <2> HIDE DEF b, x
    <2> QED
      BY <2>1, <2>2, <2>3 DEF Buckets
  <1>2. exch' \in Accounts /\ exch'.orders = exch.orders
    <2>1. exch' = [exch EXCEPT !.banned = Down(exch.banned)]
      BY DEF Tick
    <2>2. exch.banned \in 0..BanSpan
      BY <1>0 DEF Accounts
    <2>3. Down(exch.banned) \in 0..BanSpan
      BY <2>2 DEF Down, Most
    <2> QED
      BY <1>0, <2>1, <2>3 DEF Accounts
  <1>3. told' \in 0..BanSpan /\ told' = Down(told)
    <2>1. told' = Down(told)
      BY DEF Tick
    <2> QED
      BY <1>0, <2>1 DEF Down, Most
  <1>4. ASSUME NEW t \in Tasks
        PROVE  /\ task'[t] \in GoodTasks /\ task'[t].op = task[t].op /\ task'[t].pc = task[t].pc
               /\ task'[t].verdict = task[t].verdict
    <2> DEFINE s == task[t]
               a == IF s.pc \in {"gate", "flight", "pause"} /\ s.sending # "time" THEN Least(s.age + 1, Old) ELSE 0
               b == IF s.sending = "time" THEN Least(s.started + 1, Old) ELSE 0
    <2>1. s \in GoodTasks /\ s.age \in 0..Old /\ s.started \in 0..Old
      BY <1>0 DEF GoodTasks, TaskRecords
    <2>2. a \in 0..Old /\ b \in 0..Old
      BY <2>1 DEF Least, Old
    <2>3. task'[t] = Ticked(s, a, b)
      BY <2>1 DEF Tick, GoodTasks, TaskRecords, Ticked
    <2> HIDE DEF a, b, s
    <2>4. /\ Ticked(s, a, b) \in GoodTasks /\ Ticked(s, a, b).op = s.op
          /\ Ticked(s, a, b).pc = s.pc /\ Ticked(s, a, b).verdict = s.verdict
      BY <2>1, <2>2, TickTask
    <2> QED
      BY <2>3, <2>4 DEF s
  <1>5. task' \in [Tasks -> GoodTasks]
    BY <1>4 DEF Tick
  <1>6. FewOrders'
    BY <1>2, <1>4 DEF RestInv, FewOrders, Few
  <1>7. BanKnown'
    BY <1>0, <1>1, <1>3 DEF RestInv, BanKnown, Down, Most, Buckets
  <1> QED
    BY <1>0, <1>1, <1>2, <1>3, <1>5, <1>6, <1>7 DEF RestInv, RInv

LEMMA WorldKeeps ==
  ASSUME RestInv, Drift \/ StopFires
  PROVE  RestInv'
  <1>0. faults' \in 0..MaxFaults
    BY FaultType DEF RestInv, Drift, StopFires
  <1>1. CASE Drift
    <2>1. clock' \in Clocks
      <3>1. -2 \in -2..2
        OBVIOUS
      <3> QED
        BY <1>1, <3>1 DEF RestInv, RInv, Drift, Clocks
    <2> QED
      BY <1>0, <1>1, <2>1 DEF RestInv, RInv, FewOrders, Few, BanKnown, Drift
  <1>2. CASE StopFires
    <2>1. exch' \in Accounts /\ exch'.orders = exch.orders
      BY <1>2 DEF RestInv, RInv, StopFires, Accounts
    <2> QED
      BY <1>0, <1>2, <2>1 DEF RestInv, RInv, FewOrders, Few, BanKnown, StopFires
  <1> QED
    BY <1>1, <1>2

-----------------------------------------------------------------------------
LEMMA InitRestInv == Init => RestInv
  <1> SUFFICES ASSUME Init PROVE RestInv
    OBVIOUS
  <1>1. bucket \in Buckets /\ told = 0 /\ told \in 0..BanSpan /\ faults \in 0..MaxFaults /\ bucket.blocked = 0
    BY DEF Init, Buckets, Old
  <1>2. clock \in Clocks
    <2>1. 0 \in -2..2
      OBVIOUS
    <2> QED
      BY <2>1 DEF Init, Clocks
  <1>3. exch \in Accounts /\ \A t \in Tasks : exch.orders[t] = 0
    BY DEF Init, Accounts
  <1>4. PICK p \in Programs : task = [t \in Tasks |-> Idle(p[t])]
    BY DEF Init
  <1>5. task \in [Tasks -> GoodTasks] /\ \A t \in Tasks : task[t].pc = "idle"
    <2>1. \A t \in Tasks : p[t] \in Ops
      BY <1>4
    <2> QED
      BY <1>4, <2>1, IdleType DEF Idle
  <1> QED
    BY <1>1, <1>2, <1>3, <1>5 DEF RestInv, RInv, FewOrders, Few, BanKnown

LEMMA NextRestInv == RestInv /\ [Next]_vars => RestInv'
  <1> SUFFICES ASSUME RestInv, [Next]_vars PROVE RestInv'
    OBVIOUS
  <1>1. CASE UNCHANGED vars
    BY <1>1 DEF vars, RestInv, RInv, FewOrders, Few, BanKnown
  <1>2. ASSUME NEW t \in Tasks, Step(t)
        PROVE  RestInv'
    BY <1>2, BeginKeeps, AcquireKeeps DEF Step
  <1>3. ASSUME NEW t \in Tasks, Fate(t)
        PROVE  RestInv'
    BY <1>3, LossKeeps, OkKeeps, ErrorKeeps DEF Fate
  <1> QED
    BY <1>1, <1>2, <1>3, TickKeeps, WorldKeeps DEF Next

LEMMA AlwaysRestInv == Spec => []RestInv
  BY InitRestInv, NextRestInv, PTL DEF Spec

\* A task's step moves no other task, a fate is that of a send, and time moves
\* nobody on.
LEMMA FateInFlight ==
  ASSUME NEW t, Fate(t)
  PROVE  task[t].pc = "flight"
  BY ErrorClasses DEF Fate, ConnectFails, AnswerLost, Served, MarginUnchanged

LEMMA OwnStep ==
  ASSUME RestInv, NEW r \in Tasks, Step(r) \/ Fate(r), NEW t \in Tasks, t # r
  PROVE  task'[t] = task[t]
  <1>0. task \in [Tasks -> GoodTasks]
    BY DEF RestInv, RInv
  <1>1. ASSUME NEW v, Settle(r, task[r], v) PROVE task'[t] = task[t]
    BY <1>0, <1>1 DEF Settle
  <1>2. ASSUME NEW connect, NoResponse(r, connect) PROVE task'[t] = task[t]
    BY <1>0, <1>1, <1>2 DEF NoResponse
  <1>3. CASE Step(r)
    BY <1>0, <1>1, <1>3 DEF Step, Begin, BadParams, SyncLock, Acquire, Resend
  <1>4. CASE ConnectFails(r) \/ AnswerLost(r) \/ Served(r) \/ MarginUnchanged(r)
    BY <1>1, <1>2, <1>4 DEF ConnectFails, AnswerLost, Served, MarginUnchanged
  <1>5. CASE Refused(r) \/ Limited(r) \/ ServerError(r) \/ BodyTorn(r)
    <2>1. \E v, ban : AnswerOf(r, v, ban)
      BY <1>5, ErrorClasses
    <2> QED
      BY <1>1, <2>1 DEF AnswerOf
  <1> QED
    BY <1>3, <1>4, <1>5 DEF Fate

LEMMA TickKeepsPc ==
  ASSUME RestInv, Tick, NEW t \in Tasks
  PROVE  task'[t].pc = task[t].pc
  BY DEF Tick, RestInv, RInv, GoodTasks, TaskRecords

\* rest.rs execute and close_position: for any tasks and programs on one client, an
\* operation that places one order leaves at most one at the exchange; and if no
\* 2xx of an order is torn and no close has two legs (BodyTorn and hedge legs are
\* the two ways out), every error but "transport" means that nothing was taken.
THEOREM OrdersAreHonest == Certain => (Spec => []OrdersHonest)
  <1> SUFFICES ASSUME Certain PROVE Spec => []OrdersHonest
    OBVIOUS
  <1>1. RestInv => TypeOK
    BY DEF RestInv, RInv, TypeOK, GoodTasks, TaskRecords, Accounts, Buckets, Clocks, Pcs
  <1>2. RestInv => OneOrderPerPlace /\ HonestErrors
    BY DEF RestInv, RInv, Accounts, FewOrders, Few, OneOrderPerPlace, HonestErrors
  <1> QED
    BY <1>1, <1>2, AlwaysRestInv, PTL DEF OrdersHonest

\* The part that holds without that condition: retries, lost answers, torn bodies
\* and the second signature after -1021 never place an order twice.
THEOREM OneOrderIsPlaced == Spec => [](TypeOK /\ OneOrderPerPlace)
  <1>1. RestInv => TypeOK
    BY DEF RestInv, RInv, TypeOK, GoodTasks, TaskRecords, Accounts, Buckets, Clocks, Pcs
  <1>2. RestInv => OneOrderPerPlace
    BY DEF RestInv, FewOrders, Few, OneOrderPerPlace
  <1> QED
    BY <1>1, <1>2, AlwaysRestInv, PTL

\* ratelimit.rs: a request is begun only when no ban that was told lasts, provided
\* the exchange bans for no longer than MAX_HONORED_BAN.
THEOREM BanIsKept == BanSpan <= MaxBan => (Spec => KnownBanKept)
  <1> SUFFICES ASSUME BanSpan <= MaxBan PROVE Spec => KnownBanKept
    OBVIOUS
  <1> DEFINE Kept == \A t \in Tasks : task[t].pc = "gate" /\ task'[t].pc = "flight" => told = 0
  <1>1. RestInv /\ [Next]_vars => [Kept]_vars
    <2> SUFFICES ASSUME RestInv, [Next]_vars, NEW t \in Tasks, task[t].pc = "gate", task'[t].pc = "flight"
                 PROVE  told = 0
      OBVIOUS
    <2>1. ~UNCHANGED task /\ ~Tick
      <3>1. CASE Tick
        BY <3>1, TickKeepsPc
      <3> QED
        BY <3>1
    <2>2. PICK r \in Tasks : Step(r) \/ Fate(r)
      BY <2>1 DEF Next, vars, Drift, StopFires
    <2>3. r = t
      BY <2>2, OwnStep
    <2>4. Acquire(t)
      BY <2>2, <2>3, FateInFlight DEF Step, Begin, BadParams, SyncLock, Resend, Idle
    <2>5. gate_at(bucket, Weight(task[t].sending)) = "ready"
      <3>0. task[t] \in TaskRecords /\ task \in [Tasks -> GoodTasks] /\ RInv /\ task[t].pc \in Sends
        BY DEF RestInv, RInv, GoodTasks, Sends
      <3>1. ASSUME Settle(t, task[t], "rate_limited") PROVE FALSE
        <4>1. "rate_limited" \in Verdicts
          BY DEF Verdicts
        <4>2. task'[t].pc \in {"gate", "lock", "idle", "done"}
          BY <3>0, <3>1, <4>1, SettleType
        <4> QED
          BY <4>2
      <3>2. ASSUME NEW w, task' = [task EXCEPT ![t].wait = w] PROVE FALSE
        BY <3>0, <3>2 DEF TaskRecords
      <3> QED
        BY <2>4, <3>1, <3>2 DEF Acquire
    <2>6. bucket.blocked = 0
      BY <2>5 DEF gate_at, RestInv, RInv, Buckets
    <2> QED
      BY <2>6 DEF RestInv, RInv, BanKnown
  <1>2. Spec => [][Kept]_vars
    BY <1>1, AlwaysRestInv, PTL DEF Spec
  <1> QED
    BY <1>2 DEF KnownBanKept
=============================================================================
