------------------------------ MODULE Backends ------------------------------
(***************************************************************************)
(* The three execution backends that reach a real exchange, behind the one *)
(* ExecBackend interface of packages/gateway/src/demo/execution.ts:        *)
(*   demo   DemoBackend: one child process, lines executed in order        *)
(*   cli    CliBackend: one binance-cli process per command                *)
(*   agent  AgentMcpBackend: one agent CLI run per operation, with caches  *)
(* An operation is a program of requests.  A request is on the wire until  *)
(* the exchange executes it, which may be after its caller has given up.   *)
(* One symbol, one entry order, one conditional order.                     *)
(***************************************************************************)
EXTENDS Integers, Sequences, SequencesExt, FiniteSets

CONSTANTS Tasks,        \* callers of the backend
          Scripts,      \* [kind, limit, ops, left]: backend, entry type, the calls of each
                        \* task, and what an earlier canary left at the exchange
          Refusals,     \* pairs <<kind, request>> the exchange may refuse for other reasons
          MaxFaults     \* bound on the faults of a behaviour

Kinds == {"demo", "cli", "agent"}
CommonOps == {"entry", "stop", "close", "reduce", "cancelAll", "cancelOrder", "getOrder", "account"}
AgentOps == CommonOps \cup {"cancelAlgo", "cancelStale", "netCheck", "algoExists", "listAlgos", "openprot"}
OpsOf(k) == IF k = "agent" THEN AgentOps ELSE CommonOps

ASSUME BackendsAssumption ==
    /\ MaxFaults \in Nat /\ "none" \notin Tasks
    /\ \A s \in Scripts : /\ s.kind \in Kinds /\ s.limit \in BOOLEAN
                          /\ s.left \in {"nothing", "position", "stop", "owned"}
                          /\ \A t \in Tasks : s.ops[t] \in Seq(OpsOf(s.kind))

VARIABLES
    script,   \* the script of this behaviour
    x,        \* the exchange: [pos, entry, stop, old]; old: the stop is a leftover
    wire,     \* requests sent and not answered, oldest first; view: what a read has seen
    child,    \* demo: the child process is running
    call,     \* the call each task awaits
    cache,    \* agent: accountCache, a view or <<>>
    running,  \* agent: the task whose read accountInFlight is, or "none"
    orderCache,  \* agent: orderCache of the entry, <<status>> or <<>>
    crossed,  \* history: a write returned while the read that filled the cache ran
    log,      \* history: what the calls returned
    effects,  \* history: calls whose write took effect, and how
    seen,     \* history: snapshots since the last write returned
    faults

exchangeVars == <<x, effects>>
cacheVars == <<cache, running, orderCache, crossed>>
backendVars == <<script, x, wire, child, call, cache, running, orderCache, crossed, log, effects, seen, faults>>

kind == script.kind
Snap == [pos |-> x.pos > 0, stop |-> x.stop]

WriteOps == {"entry", "stop", "close", "reduce", "cancelAll", "cancelOrder", "cancelAlgo", "cancelStale", "openprot"}

(***************************************************************************)
(* The requests an operation sends, stage by stage.                        *)
(***************************************************************************)
DemoProgram(op) ==
    CASE op = "entry" -> <<{"new"}>>
      [] op = "stop" -> <<{"algo"}>>
      [] op = "close" -> <<{"close"}>>
      [] op = "reduce" -> <<{"pos", "orders"}, {"reduce"}>>
      [] op = "cancelAll" -> <<{"cancelAll"}>>
      [] op = "cancelOrder" -> <<{"cancel"}>>
      [] op = "getOrder" -> <<{"query"}>>
      [] op = "account" -> <<{"pos", "orders"}>>
CliProgram(op) ==
    CASE op = "entry" -> <<{"new"}>>
      [] op = "stop" -> <<{"algo"}>>
      [] op = "close" -> <<{"pos"}, {"closeq"}>>
      [] op = "reduce" -> <<{"pos", "orders", "algos"}, {"reduce"}>>
      [] op = "cancelAll" -> <<{"cancelPlain"}, {"cancelAlgos"}>>
      [] op = "cancelOrder" -> <<{"cancel"}, {"cancelAlgo"}>>
      [] op = "getOrder" -> <<{"query"}>>
      [] op = "account" -> <<{"pos", "orders", "algos"}>>
AgentProgram(op) ==
    CASE op = "entry" -> <<{"new"}>>
      [] op = "stop" -> <<{"algo"}>>
      [] op = "close" -> <<{"close"}>>
      [] op = "reduce" -> <<{"acct"}, {"reduce"}>>
      [] op = "cancelAll" -> <<{"cancelAll"}>>
      [] op = "cancelOrder" -> <<{"cancel"}>>
      [] op = "cancelAlgo" -> <<{"cancelAlgo"}>>
      [] op = "cancelStale" -> <<{"cancelOld"}>>
      [] op = "getOrder" -> <<{"query"}>>
      [] op \in {"account", "netCheck"} -> <<{"acct"}>>
      [] op = "algoExists" -> <<{"seek"}>>
      [] op = "listAlgos" -> <<{"algos"}>>
      [] op = "openprot" -> <<{"openprot"}>>
Program(op) == CASE kind = "demo" -> DemoProgram(op) [] kind = "cli" -> CliProgram(op) [] OTHER -> AgentProgram(op)

NewOrders == {"new", "algo", "closeq", "reduce"}
Writing == NewOrders \cup {"close", "cancel", "cancelAlgo", "cancelOld", "cancelAll", "cancelPlain", "cancelAlgos",
                           "openprot", "protect"}

-----------------------------------------------------------------------------
(***************************************************************************)
(* The exchange (external).  Apply(e, r) is the state after request r, and *)
(* Reply(e, r) the answer.  A conditional order needs a position (-4509)   *)
(* and no other one (-4130); it stays when the position is closed.         *)
(***************************************************************************)
Market == ~script.limit
Accepts(e, r) ==
    CASE r = "new" -> e.entry = "none"
      [] r \in {"algo", "protect"} -> e.pos > 0 /\ ~e.stop
      [] r \in {"closeq", "reduce"} -> e.pos > 0
      [] r = "cancel" -> e.entry = "NEW"
      [] r = "cancelAlgo" -> e.stop /\ ~e.old
      [] r = "cancelOld" -> e.stop /\ e.old
      [] r = "openprot" -> e.entry = "none"
      [] OTHER -> TRUE
Apply(e, r) ==
    IF ~Accepts(e, r) THEN e
    ELSE CASE r \in {"new", "openprot"} ->
                 IF Market THEN [e EXCEPT !.entry = "FILLED", !.pos = 2] ELSE [e EXCEPT !.entry = "NEW"]
           [] r \in {"algo", "protect"} -> [e EXCEPT !.stop = TRUE]
           [] r \in {"close", "closeq"} -> [e EXCEPT !.pos = 0]
           [] r = "reduce" -> [e EXCEPT !.pos = @ - 1]
           [] r = "cancel" -> [e EXCEPT !.entry = "CANCELED"]
           [] r \in {"cancelAlgo", "cancelOld", "cancelAlgos"} -> [e EXCEPT !.stop = FALSE, !.old = FALSE]
           [] r = "cancelPlain" -> [e EXCEPT !.entry = IF @ = "NEW" THEN "CANCELED" ELSE @]
           [] r = "cancelAll" -> [e EXCEPT !.entry = IF @ = "NEW" THEN "CANCELED" ELSE @,
                                               !.stop = FALSE, !.old = FALSE]
           [] OTHER -> e
Value(e, r) ==
    CASE r \in {"new", "openprot"} -> IF Market THEN "filled" ELSE "submitted"
      [] r \in {"algo", "protect"} -> "submitted"
      [] r \in {"closeq", "reduce"} -> "filled"
      [] r = "close" -> e.pos > 0
      [] r = "pos" -> e.pos > 0
      [] r = "orders" -> IF kind = "demo" THEN e.stop ELSE FALSE
      [] r = "algos" -> e.stop
      [] r = "seek" -> e.stop /\ ~e.old
      [] r = "acct" -> [pos |-> e.pos > 0, stop |-> e.stop]
      [] r = "query" -> e.entry
      [] OTHER -> "done"
Answer(k, v) == [kind |-> k, val |-> v]
Reply(e, r) ==
    IF ~Accepts(e, r)
    THEN Answer(IF r \in {"cancel", "cancelAlgo", "cancelOld"} THEN "gone" ELSE "rejected", FALSE)
    ELSE IF r = "query" /\ e.entry = "none" THEN Answer("gone", FALSE)
    ELSE Answer("ok", Value(e, r))

-----------------------------------------------------------------------------
(***************************************************************************)
(* What a backend makes of an answer.  Beside ok, rejected and gone:       *)
(*   local    never sent (no child, no process, arguments refused)         *)
(*   lost     the timer, the exit of the child, a run without JSON         *)
(*   torn     an error text that tells a broken connection                 *)
(*   garbled  cli: exit code 0 and output that is not JSON                 *)
(***************************************************************************)
\* DemoExecError.ambiguous and CliError.ambiguous; in an agent run a text that
\* tells a transport error overrides whatever outcome it reports.
DemoAmbiguous(r, k) == k = "lost" \/ (k = "torn" /\ r \in Writing)
CliAmbiguous(r, k) == (k \in {"lost", "torn"} /\ r \in Writing) \/ (k = "garbled" /\ r \in NewOrders)
isTransportErrorIgnored(k) == FALSE
isTransportError(k) == k = "torn"
AgentAmbiguous(k) == k = "lost" \/ isTransportError(k)
Ambiguous(r, k) ==
    CASE kind = "demo" -> DemoAmbiguous(r, k) [] kind = "cli" -> CliAmbiguous(r, k) [] OTHER -> AgentAmbiguous(k)

\* order(), receipt() and toReceipt().
receipt(r, a) ==
    IF a.kind = "ok" THEN a.val ELSE IF Ambiguous(r, a.kind) THEN "unknown" ELSE "failed"

\* The view of an account read from its answers; a failed read of the
\* conditional orders shows none (cli).
DemoView(got) == [pos |-> got["pos"].val, stop |-> got["orders"].val]
CliView(got) == [pos |-> got["pos"].val, stop |-> got["algos"].kind = "ok" /\ got["algos"].val]
ViewOf(got) == CASE kind = "demo" -> DemoView(got) [] kind = "cli" -> CliView(got) [] OTHER -> got["acct"].val
ReadFailed(got) == \E r \in DOMAIN got : r # "algos" /\ got[r].kind # "ok"

\* A call that has all it needs: <<"next">> sends the next stage, <<"done", out>>
\* returns out, <<"wait">> needs more answers.
Next_ == <<"next">>
Result(word, leg, view) == [word |-> word, leg |-> leg, pos |-> view.pos, stop |-> view.stop]
NoView == [pos |-> FALSE, stop |-> FALSE]
Done(word) == <<"done", Result(word, "none", NoView)>>
DoneView(view) == <<"done", Result("view", "none", view)>>
DoneLegs(word, leg) == <<"done", Result(word, leg, NoView)>>
YesNo(b) == IF b THEN "yes" ELSE "no"
\* What cancelOrder and cancelAlgoOrder report as done: canceled, or not there.
CancelOk(a) == a.kind \in {"ok", "gone"}
CancelAllErrors(got) == \E r \in DOMAIN got : got[r].kind \notin {"ok", "rejected", "gone"}
ReadVerdict(op, want, got) ==
    IF ReadFailed(got) THEN Done("throw")
    ELSE IF want # {} THEN <<"wait">>
    ELSE IF op # "reduce" THEN DoneView(ViewOf(got))
    ELSE IF ViewOf(got).pos THEN Next_ ELSE Done("failed")
CloseVerdict(stage, a) ==
    CASE kind = "agent" \/ (kind = "cli" /\ stage = 2) -> Done(IF a.kind = "ok" THEN "closed" ELSE "error")
      [] kind = "demo" -> Done(IF a.kind # "ok" THEN "error" ELSE IF a.val THEN "closed" ELSE "nothing")
      [] OTHER -> IF a.kind # "ok" THEN Done("error") ELSE IF a.val THEN Next_ ELSE Done("nothing")
CancelAllVerdict(stage, a, got) ==
    IF kind # "cli" THEN Done(IF a.kind = "ok" THEN "ok" ELSE "error")
    ELSE IF stage = 1 THEN Next_ ELSE Done(IF CancelAllErrors(got) THEN "error" ELSE "ok")
CancelVerdict(op, stage, a) ==
    IF op = "cancelOrder" /\ kind = "cli" /\ stage = 1 /\ a.kind \in {"rejected", "gone"} THEN Next_
    ELSE Done(IF CancelOk(a) THEN "ok" ELSE "error")
GetOrderVerdict(a) ==
    Done(IF a.kind = "ok" THEN a.val
         ELSE IF a.kind = "gone" \/ (a.kind = "rejected" /\ kind # "agent") THEN "null" ELSE "throw")
OpenVerdict(r, a) ==
    IF a.kind = "ok" THEN DoneLegs(a.val.entry, a.val.stop)
    ELSE DoneLegs(receipt(r, a), IF a.kind = "local" THEN "skipped" ELSE "unknown")
Verdict(op, stage, want, got) ==
    LET sole == CHOOSE r \in Program(op)[stage] : TRUE
        a == got[sole] IN
    CASE op \in {"account", "netCheck", "reduce"} /\ stage = 1 -> ReadVerdict(op, want, got)
      [] op = "close" -> CloseVerdict(stage, a)
      [] op = "cancelAll" -> CancelAllVerdict(stage, a, got)
      [] op \in {"cancelOrder", "cancelAlgo", "cancelStale"} -> CancelVerdict(op, stage, a)
      [] op = "getOrder" -> GetOrderVerdict(a)
      [] op \in {"algoExists", "listAlgos"} -> Done(IF a.kind = "ok" THEN YesNo(a.val) ELSE "null")
      [] op = "openprot" -> OpenVerdict(sole, a)
      [] OTHER -> DoneLegs(receipt(sole, a), IF a.kind = "rejected" /\ a.val THEN "refused" ELSE "none")

-----------------------------------------------------------------------------
(***************************************************************************)
(* Calls.                                                                  *)
(***************************************************************************)
Idle == [op |-> "none", n |-> 0, stage |-> 0, want |-> {}, got |-> <<>>, since |-> {}]
Busy(t) == call[t].op # "none"
Lines(t, n, rs) == SetToSeq({[task |-> t, n |-> n, req |-> r, view |-> <<>>] : r \in rs})

\* agent: every write drops accountCache as it returns, cancelOrder its order.
\* An account read fills the cache and settles the readers that joined it.
invalidateAccountNever(op, c) == c
invalidateAccount(op, c) == IF kind = "agent" /\ op \in WriteOps THEN <<>> ELSE c

Fresh_(view, since) ==
    \/ view.word = "throw"
    \/ /\ \E s \in since : s.pos = view.pos
       /\ view.stop => \E s \in since : s.stop

\* Since the run of call t began a write has returned, and the run may have
\* looked before it.
Crossed(t) == ~(call[t].since \subseteq seen)

\* The calls ts return out; every busy call has seen the exchange as it is now.
Return(ts, out) ==
    LET t0 == IF running \in ts THEN running ELSE CHOOSE t \in ts : TRUE
        op == call[t0].op IN
    /\ call' = [t \in Tasks |->
                  IF t \in ts THEN [Idle EXCEPT !.n = call[t].n]
                  ELSE IF Busy(t) THEN [call[t] EXCEPT !.since = @ \cup {Snap'}] ELSE call[t]]
    /\ log' = log \cup {[task |-> t, n |-> call[t].n, op |-> call[t].op, out |-> out,
                         fresh |-> call[t].op \in {"account", "netCheck"} => Fresh_(out, call[t].since),
                         late |-> call[t].want = {"join"} /\ Crossed(t0)] : t \in ts}
    /\ seen' = IF op \in WriteOps THEN {Snap'} ELSE seen \cup {Snap'}
    /\ \/ /\ op \in {"account", "netCheck"} /\ kind = "agent" /\ out.word # "throw"
          /\ cache' = <<out>> /\ crossed' = Crossed(t0)
       \/ /\ ~(op \in {"account", "netCheck"} /\ kind = "agent" /\ out.word # "throw")
          /\ cache' = invalidateAccount(op, cache) /\ UNCHANGED crossed
    /\ running' = IF running \in ts THEN "none" ELSE running
    /\ orderCache' = IF kind # "agent" THEN orderCache
                     ELSE IF op = "cancelOrder" THEN <<>>
                     ELSE IF op = "getOrder" /\ out.word # "throw" THEN <<out>> ELSE orderCache
Continue(t, c) ==
    /\ call' = [u \in Tasks |->
                  LET b == IF u = t THEN c ELSE call[u] IN
                  IF b.op # "none" THEN [b EXCEPT !.since = @ \cup {Snap'}] ELSE b]
    /\ seen' = seen \cup {Snap'}
    /\ UNCHANGED <<log, cacheVars>>

Joined(t) == {u \in Tasks : u = t \/ (running = t /\ call[u].want = {"join"})}

With(got, r, a) == [q \in DOMAIN got \cup {r} |-> IF q = r THEN a ELSE got[q]]

\* Answer a of request r reaches call t; w is the wire without it.
Settle(t, r, a, w) ==
    LET c == [call[t] EXCEPT !.want = @ \ {r}, !.got = With(@, r, a)]
        v == Verdict(c.op, c.stage, c.want, c.got) IN
    CASE v[1] = "wait" -> wire' = w /\ Continue(t, c)
      [] v[1] = "done" -> wire' = w /\ Return(Joined(t), v[2])
      [] v[1] = "next" ->
           LET rs == Program(c.op)[c.stage + 1] IN
           /\ Continue(t, [c EXCEPT !.stage = @ + 1, !.want = rs])
           /\ wire' = w \o Lines(t, c.n, rs)

Awaits(l) == call[l.task].n = l.n /\ l.req \in call[l.task].want

\* A task begins its next call.  The account read inside reducePosition neither
\* joins a reader nor is joined: on the agent the two do not overlap.  Without a
\* child nothing is sent.
MayBegin(op) ==
    kind = "agent" => \A u \in Tasks : {op, call[u].op} \notin {{"account", "reduce"}, {"reduce"}}
Opened(t, op) ==
    LET c == [Idle EXCEPT !.op = op, !.n = call[t].n + 1, !.stage = 1, !.since = seen \cup {Snap}]
        rs == Program(op)[1] IN
    IF kind = "agent" /\ op \in {"account", "reduce"} /\ cache # <<>>
    THEN \* account() answers from its cache
         IF op = "account"
         THEN [to |-> "hit", c |-> c] ELSE [to |-> IF cache[1].pos THEN "second" ELSE "hit", c |-> c]
    ELSE IF kind = "agent" /\ op = "account" /\ running # "none"
    THEN [to |-> "join", c |-> [c EXCEPT !.want = {"join"}]]
    ELSE IF kind = "agent" /\ op = "getOrder" /\ orderCache # <<>>
    THEN [to |-> "hit", c |-> c]
    ELSE IF kind = "demo" /\ ~child THEN [to |-> "hit", c |-> c]
    ELSE [to |-> "send", c |-> [c EXCEPT !.want = rs]]
HitValue(op) ==
    IF kind = "demo"
    THEN Verdict(op, 1, {}, [r \in Program(op)[1] |-> Answer("local", FALSE)])[2]
    ELSE IF op = "account" THEN cache[1] ELSE IF op = "getOrder" THEN orderCache[1] ELSE Done("failed")[2]

BackendInit ==
    /\ script \in Scripts
    /\ x = [pos |-> IF script.left \in {"position", "owned"} THEN 2 ELSE 0, entry |-> "none", stop |-> script.left = "stop",
              old |-> script.left = "stop"]
    /\ wire = <<>> /\ child = TRUE
    /\ call = [t \in Tasks |-> Idle]
    /\ cache = <<>> /\ running = "none" /\ orderCache = <<>> /\ crossed = FALSE
    /\ log = {} /\ effects = {} /\ seen = {Snap} /\ faults = 0

Begin(t, op) ==
    /\ ~Busy(t) /\ MayBegin(op)
    /\ LET o == Opened(t, op) IN
       \/ /\ o.to = "send"
          /\ call' = [call EXCEPT ![t] = o.c]
          /\ wire' = wire \o Lines(t, o.c.n, o.c.want)
          /\ running' = IF kind = "agent" /\ op = "account" THEN t ELSE running
          /\ UNCHANGED <<log, seen, cache, orderCache>>
       \/ /\ o.to = "join"
          /\ call' = [call EXCEPT ![t] = o.c]
          /\ UNCHANGED <<wire, running, log, seen, cache, orderCache>>
       \/ /\ o.to = "second"
          /\ call' = [call EXCEPT ![t] = [o.c EXCEPT !.stage = 2, !.want = {"reduce"}]]
          /\ wire' = wire \o Lines(t, o.c.n, {"reduce"})
          /\ UNCHANGED <<running, log, seen, cache, orderCache>>
       \/ /\ o.to = "hit"
          /\ call' = [call EXCEPT ![t].n = o.c.n]
          /\ log' = log \cup {[task |-> t, n |-> o.c.n, op |-> op, out |-> HitValue(op),
                               fresh |-> op = "account" => Fresh_(HitValue(op), o.c.since),
                               late |-> op = "account" /\ crossed]}
          /\ UNCHANGED <<wire, running, seen, cache, orderCache>>
    /\ UNCHANGED <<script, x, child, effects, faults, crossed>>

\* demo executes its lines in order; processes run side by side.
Executable(i) == i \in 1..Len(wire) /\ (kind = "demo" => i = 1 /\ child)
Fault == faults < MaxFaults /\ faults' = faults + 1
Effect(l) ==
    /\ x' = Apply(x, l.req)
    /\ effects' = IF Accepts(x, l.req) /\ l.req \in Writing
                  THEN effects \cup {<<l.task, l.n, l.req>>} ELSE effects

\* The exchange executes request i and its answer arrives.  The two legs of
\* open_with_protection are one run: the stop follows a fill at once.
Execute(i) ==
    /\ Executable(i)
    /\ LET l == wire[i]
           w == RemoveAt(wire, i)
           first == l.req = "openprot" /\ Market /\ Accepts(x, l.req)
           a == IF l.req = "protect"
                THEN Answer("ok", [entry |-> "filled",
                                   stop |-> IF Accepts(x, "protect") THEN "submitted" ELSE "failed"])
                ELSE IF l.req = "openprot" THEN
                     IF Accepts(x, l.req) THEN Answer("ok", [entry |-> "submitted", stop |-> "skipped"])
                     ELSE Answer("rejected", FALSE)
                ELSE IF l.view # <<>> THEN Answer("ok", l.view[1]) ELSE Reply(x, l.req)
           r == IF l.req = "protect" THEN "openprot" ELSE l.req IN
       /\ Effect(l)
       /\ IF first
          THEN wire' = [wire EXCEPT ![i].req = "protect"] /\ Continue(l.task, call[l.task])
          ELSE IF Awaits([l EXCEPT !.req = r]) THEN Settle(l.task, r, a, w)
          ELSE wire' = w /\ Continue(l.task, call[l.task])
    /\ UNCHANGED <<script, child, faults>>

\* agent: a read has looked at the exchange, and its run is still busy answering.
Looks(i) ==
    /\ kind = "agent" /\ Executable(i) /\ wire[i].req = "acct" /\ wire[i].view = <<>>
    /\ wire' = [wire EXCEPT ![i].view = <<Value(x, "acct")>>]
    /\ UNCHANGED <<script, x, child, call, cacheVars, log, effects, seen, faults>>

\* Request i fails with an error of the given kind, executed or not.
Fails(i, k) ==
    /\ Fault /\ Executable(i)
    /\ LET l == wire[i]
           r == IF l.req = "protect" THEN "openprot" ELSE l.req IN
       /\ k = "garbled" => kind = "cli"
       /\ k = "rejected" => <<kind, r>> \in Refusals
       /\ k \in {"local", "rejected"} => l.req # "protect"
       /\ Awaits([l EXCEPT !.req = r])
       /\ IF k \in {"local", "rejected"} THEN UNCHANGED exchangeVars
          ELSE IF k = "garbled" THEN Effect(l)
          ELSE Effect(l) \/ UNCHANGED exchangeVars
       /\ Settle(l.task, r, Answer(k, k = "rejected"), RemoveAt(wire, i))
    /\ UNCHANGED <<script, child>>

\* agent: a run reports a conditional order it did not place.
Boasts(i) ==
    /\ Fault /\ kind = "agent" /\ Executable(i)
    /\ UNCHANGED <<script, x, child>>
    /\ LET l == wire[i]
           r == IF l.req = "protect" THEN "openprot" ELSE l.req
           told == IF l.req = "protect" THEN [entry |-> "filled", stop |-> "submitted"] ELSE "submitted" IN
       /\ l.req \in {"algo", "protect"} /\ Awaits([l EXCEPT !.req = r])
       /\ effects' = effects \cup {<<l.task, l.n, "boast">>}
       /\ Settle(l.task, r, Answer("ok", told), RemoveAt(wire, i))

\* The timer of a call: the child keeps the line, a killed process may have
\* sent its request before.
OwnLine(t, r) == {i \in DOMAIN wire : wire[i].task = t /\ wire[i].n = call[t].n
                                      /\ (wire[i].req = r \/ (r = "openprot" /\ wire[i].req = "protect"))}
Timer(t) ==
    /\ UNCHANGED <<script, x, child, effects, faults>>
    /\ \E r \in call[t].want \ {"join"} :
         \/ /\ kind = "demo" \/ r \in Writing
            /\ Settle(t, r, Answer("lost", FALSE), wire)
         \/ /\ kind # "demo"
            /\ \E i \in OwnLine(t, r) : Settle(t, r, Answer("lost", FALSE), RemoveAt(wire, i))

\* demo: the child exits; every pending call is rejected as ambiguous, and
\* nothing starts another child.
ChildExits ==
    /\ Fault /\ kind = "demo" /\ child
    /\ child' = FALSE /\ wire' = <<>>
    /\ LET out(t) == Verdict(call[t].op, call[t].stage, {},
                        [r \in Program(call[t].op)[call[t].stage] |->
                            IF r \in DOMAIN call[t].got THEN call[t].got[r] ELSE Answer("lost", FALSE)])[2] IN
       /\ log' = log \cup {[task |-> t, n |-> call[t].n, op |-> call[t].op, out |-> out(t), fresh |-> TRUE, late |-> FALSE]
                           : t \in {u \in Tasks : Busy(u)}}
       /\ call' = [t \in Tasks |-> IF Busy(t) THEN [Idle EXCEPT !.n = call[t].n] ELSE call[t]]
    /\ seen' = IF \E t \in Tasks : call[t].op \in WriteOps THEN {Snap} ELSE seen
    /\ UNCHANGED <<script, x, effects, cacheVars>>

\* The entries of the caches age.
CacheExpires ==
    /\ kind = "agent" /\ (cache # <<>> \/ orderCache # <<>>)
    /\ cache' = <<>> /\ orderCache' = <<>>
    /\ UNCHANGED <<script, x, wire, child, call, running, crossed, log, effects, seen, faults>>

\* The market: the limit entry fills, the stop triggers.
Trades ==
    /\ \/ x.entry = "NEW" /\ x' = [x EXCEPT !.entry = "FILLED", !.pos = 2]
       \/ x.stop /\ x.pos > 0 /\ x' = [x EXCEPT !.stop = FALSE, !.old = FALSE, !.pos = 0]
    /\ call' = [t \in Tasks |-> IF Busy(t) THEN [call[t] EXCEPT !.since = @ \cup {Snap'}] ELSE call[t]]
    /\ seen' = seen \cup {Snap'}
    /\ UNCHANGED <<script, wire, child, cacheVars, log, effects, faults>>

\* The calls of the script, each task in order.
Calls(t) == call[t].n < Len(script.ops[t]) /\ Begin(t, script.ops[t][call[t].n + 1])

BackendNext ==
    \/ \E t \in Tasks : Calls(t) \/ Timer(t)
    \/ \E i \in DOMAIN wire : Execute(i) \/ \E k \in {"local", "rejected", "torn", "garbled"} : Fails(i, k)
    \/ \E i \in DOMAIN wire : Boasts(i) \/ Looks(i)
    \/ ChildExits \/ CacheExpires \/ Trades

BackendSpec == BackendInit /\ [][BackendNext]_backendVars

-----------------------------------------------------------------------------
Views == [pos : BOOLEAN, stop : BOOLEAN]
BackendTypeOK ==
    /\ x \in [pos : 0..2, entry : {"none", "NEW", "FILLED", "CANCELED"}, stop : BOOLEAN, old : BOOLEAN]
    /\ \A i \in DOMAIN wire : wire[i].task \in Tasks /\ wire[i].n \in 1..call[wire[i].task].n
    /\ \A t \in Tasks : Busy(t) <=> call[t].want # {}
    /\ running \in Tasks \cup {"none"} /\ (running # "none" => call[running].op = "account")
    /\ Len(cache) <= 1 /\ Len(orderCache) <= 1 /\ seen \subseteq Views

\* A receipt tells the truth: filled or submitted only for a write that took
\* effect, failed only for one that did not and cannot any more.  (A run that
\* reports what it did not do counts as done here: the code has to take its word.)
TookEffect(e) == \E z \in effects : z[1] = e.task /\ z[2] = e.n
OnItsWay(e) == \E i \in DOMAIN wire : wire[i].task = e.task /\ wire[i].n = e.n /\ wire[i].req \in Writing
StopTookEffect(e) == \E z \in effects : z[1] = e.task /\ z[2] = e.n /\ z[3] \in {"protect", "boast"}
ReceiptsHonest ==
    \A e \in log :
        /\ e.op \in {"entry", "stop", "reduce"} =>
              /\ e.out.word \in {"filled", "submitted"} => TookEffect(e)
              /\ e.out.word = "failed" => ~TookEffect(e) /\ ~OnItsWay(e)
        /\ e.op = "openprot" =>
              /\ e.out.word \in {"filled", "submitted"} => TookEffect(e)
              /\ e.out.word = "failed" => ~TookEffect(e) /\ ~OnItsWay(e)
              /\ e.out.leg = "submitted" => StopTookEffect(e)
              /\ e.out.leg \in {"failed", "skipped"} => ~StopTookEffect(e) /\ ~OnItsWay(e)

\* An account read shows what the exchange held at some moment after the last
\* write that had returned when the read began: a position it shows or misses was
\* or was not there, a stop it shows was there.  An older state comes only from
\* the cache or a shared run (execution-agent.ts:679), and only if a write
\* returned while the run that fetched it was under way; never from its own run.
ReadsAreFresh == \A e \in log : e.fresh \/ e.late

\* An entry whose order is known and that cancelOrder or cancelAll then reported
\* as gone no longer rests at the exchange.
CanceledIsGone ==
    \A e, c \in log : /\ e.op = "entry" /\ e.out.word = "submitted"
                      /\ c.op \in {"cancelOrder", "cancelAll"} /\ c.out.word = "ok" /\ c.task = e.task /\ c.n > e.n
                      => x.entry # "NEW"

\* Whatever was lost, torn, garbled or late between gateway and exchange, a
\* receipt and a reported cancellation are facts of the exchange.
AnswersHonest == BackendTypeOK /\ ReceiptsHonest /\ CanceledIsGone
=============================================================================
