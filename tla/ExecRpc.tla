------------------------------ MODULE ExecRpc ------------------------------
(***************************************************************************)
(* The gateway's ExecClient (packages/gateway/src/exec-client.ts) talking  *)
(* to execd's server (crates/execd/src/rpc_server.rs) over one Unix        *)
(* socket: calls with time-outs, frames queued while the socket is down,   *)
(* reconnects, and one event subscription that replays the log and then    *)
(* follows the broadcast.                                                  *)
(*                                                                         *)
(* A frame is a record; bytes, NDJSON and the length of the back-off are   *)
(* left out (a reconnect timer fires sooner or later). toServer is what    *)
(* the client wrote and the server has not read, toClient the other way    *)
(* round; a lost connection loses both.                                    *)
(***************************************************************************)
EXTENDS Execd, FiniteSets

CONSTANTS Scripts,     \* what a caller does: a set of requests, each made once,
                       \* all at once or (waits) each after the answer to the
                       \* one before, with bounds on its subscribe() calls and on
                       \* the interruptions (a time-out, a lost connection, an
                       \* end of execd, unsubscribe(), close())
          MaxRetries,  \* bound: retries of a call that timed out
          BusCap,      \* capacity of the broadcast channel (4096)
          Page,        \* rows of one refill query (500)
          Outbound     \* frames of the outbound queue (1000)

ASSUME ScriptsAssumption ==
    \A s \in Scripts : s.calls \subseteq Reqs /\ s.subs \in Nat /\ s.faults \in Nat /\ s.waits \in BOOLEAN
ASSUME LimitsAssumption ==
    /\ MaxRetries \in Nat
    /\ BusCap \in Nat \ {0} /\ Page \in Nat \ {0} /\ Outbound \in Nat \ {0}

VARIABLES
    script,    \* requests the caller has yet to make
    calls,     \* every call of the client, by id: the frame and its outcome
    sock,      \* #socket: "down", "connecting", "ready"
    conn,      \* number of the connection
    queue,     \* #writeQueue
    sub,       \* #subscription: on, since and lastDeliveredSeq
    got,       \* seqs handed to onEvent by this subscription
    budget,    \* retries, faults and subscriptions left, and whether it waits
    toServer, toClient,
    origin,    \* the call and the connection each task of execd answers
    fwd        \* the forwarding tasks of the connection's subscriptions

clientVars == <<script, calls, sock, conn, queue, sub, got, budget>>
wireVars == <<toServer, toClient, origin, fwd>>
vars == <<execdVars, clientVars, wireVars>>

Subscribe(since) == [method |-> "subscribe", since |-> since]
Requests == Reqs \cup [method : {"subscribe"}, since : Nat]
Outcomes == {"pending", "answered", "timeout", "closed"}
Calls == [frame : Requests, res : Outcomes, ans : Answers]
Budgets == [retries : Nat, faults : Nat, subs : Nat, waits : BOOLEAN]
Forwarders == [last : Nat, phase : {"replay", "live"}, live : Seq(Nat)]

TypeOK ==
    /\ ExecdTypeOK
    /\ script \in SUBSET UNION {s.calls : s \in Scripts}
    /\ calls \in Seq(Calls)
    /\ sock \in {"down", "connecting", "ready", "closed"}
    /\ conn \in Nat
    /\ queue \in Seq(Nat) /\ toServer \in Seq(Nat)
    /\ sub \in [on : BOOLEAN, since : Nat, last : Nat]
    /\ got \in Seq(Nat)
    /\ budget \in Budgets
    /\ toClient \in Seq([reply : BOOLEAN, id : Nat, ans : Answers])
    /\ origin \in Seq([id : Nat, conn : Nat])
    /\ fwd \in Seq(Forwarders)

Init ==
    /\ ExecdInit
    /\ \E s \in Scripts :
         /\ script = s.calls
         /\ budget = [retries |-> MaxRetries, faults |-> s.faults,
                       subs |-> s.subs, waits |-> s.waits]
    /\ calls = <<>> /\ sock = "connecting" /\ conn = 0 /\ queue = <<>>
    /\ sub = [on |-> FALSE, since |-> 0, last |-> 0] /\ got = <<>>
    /\ toServer = <<>> /\ toClient = <<>> /\ origin = <<>> /\ fwd = <<>>

(***************************************************************************)
(* The client                                                              *)
(***************************************************************************)

Fault == /\ budget.faults > 0
         /\ budget' = [budget EXCEPT !.faults = @ - 1]

NewCall(frame) == [frame |-> frame, res |-> "pending", ans |-> NoAnswer]

\* call(): a new id, a timer, and the frame is written or, with no socket,
\* queued. A time-out takes the call from #pending and not from the queue.
Issue(frame) ==
    LET id == Len(calls) + 1 IN
    /\ calls' = Append(calls, NewCall(frame))
    /\ \/ /\ sock = "down"
          /\ queue' = Append(queue, id)
          /\ UNCHANGED toServer
       \/ /\ sock \in {"connecting", "ready"}
          /\ toServer' = Append(toServer, id)
          /\ UNCHANGED queue

Pending == {n \in DOMAIN calls :
              calls[n].res = "pending" /\ calls[n].frame.method # "subscribe"}
Call(req) ==
    /\ sock # "closed"
    /\ req \in script
    /\ budget.waits => Pending = {}
    /\ script' = script \ {req}
    /\ Issue(req)
    /\ UNCHANGED <<execdVars, sock, conn, sub, got, budget, toClient, origin, fwd>>

\* The caller sends a write that timed out once more, under the same
\* idempotency key.
Retry(n) ==
    /\ sock # "closed"
    /\ calls[n].res = "timeout" /\ calls[n].frame.method = "propose"
    /\ budget.retries > 0
    /\ budget' = [budget EXCEPT !.retries = @ - 1]
    /\ Issue(calls[n].frame)
    /\ UNCHANGED <<execdVars, script, sock, conn, sub, got, toClient, origin, fwd>>

TimerFires(n) ==
    /\ calls[n].res = "pending" /\ calls[n].frame.method # "subscribe"
    /\ Fault
    /\ calls' = [calls EXCEPT ![n].res = "timeout"]
    /\ UNCHANGED <<execdVars, script, sock, conn, queue, sub, got, wireVars>>

subscribe(since) ==
    /\ sock # "closed" /\ ~sub.on
    /\ budget.subs > 0
    /\ budget' = [budget EXCEPT !.subs = @ - 1]
    /\ sub' = [on |-> TRUE, since |-> since, last |-> since]
    /\ got' = <<>>
    /\ Issue(Subscribe(since))
    /\ UNCHANGED <<execdVars, script, sock, conn, toClient, origin, fwd>>

unsubscribe ==
    /\ sub.on
    /\ Fault
    /\ sub' = [sub EXCEPT !.on = FALSE]
    /\ UNCHANGED <<execdVars, script, calls, sock, conn, queue, got, wireVars>>

\* The connection is gone, and with it its forwarders and what was on its way.
\* What had arrived may have been read first (serverReads): it has its task.
Hangup == toServer' = <<>> /\ toClient' = <<>> /\ fwd' = <<>> /\ UNCHANGED <<execdVars, origin>>

close ==
    /\ sock # "closed"
    /\ Fault
    /\ sock' = "closed"
    /\ calls' = [n \in DOMAIN calls |->
                   IF calls[n].res = "pending"
                   THEN [calls[n] EXCEPT !.res = "closed"] ELSE calls[n]]
    /\ queue' = <<>>
    /\ sub' = [sub EXCEPT !.on = FALSE]
    /\ Hangup
    /\ UNCHANGED <<script, conn, got>>

\* The 'connect' event: the queue is flushed, then the subscription renewed
\* from the last delivered seq.
Flushed(ids) == toServer \o queue \o ids
onConnect ==
    /\ sock = "connecting" /\ Running # {}
    /\ sock' = "ready"
    /\ conn' = conn + 1
    /\ queue' = <<>>
    /\ \/ /\ sub.on
          /\ calls' = Append(calls, NewCall(Subscribe(sub.last)))
          /\ toServer' = Flushed(<<Len(calls) + 1>>)
       \/ /\ ~sub.on
          /\ toServer' = Flushed(<<>>)
          /\ UNCHANGED calls
    /\ UNCHANGED <<execdVars, script, sub, got, budget, toClient, origin, fwd>>

\* 'close' of a socket that never connected, or after a loss: what was
\* written into it is gone, and one reconnect timer is set.
connectFails ==
    /\ sock = "connecting" /\ Running = {}
    /\ sock' = "down"
    /\ toServer' = <<>>
    /\ UNCHANGED <<execdVars, script, calls, conn, queue, sub, got, budget,
                   toClient, origin, fwd>>

connectionLost ==
    /\ sock = "ready"
    /\ Fault
    /\ sock' = "down"
    /\ Hangup
    /\ UNCHANGED <<script, calls, conn, queue, sub, got>>

reconnect ==
    /\ sock = "down"
    /\ sock' = "connecting"
    /\ UNCHANGED <<execdVars, script, calls, conn, queue, sub, got, budget, wireVars>>

\* handleFrame: an answer settles the call if it is still pending; an event
\* is handed on when it is the next one.
Drops(seq) == seq <= sub.last \/ seq # sub.last + 1
handleFrame ==
    /\ sock = "ready" /\ toClient # <<>>
    /\ toClient' = Tail(toClient)
    /\ LET f == Head(toClient) IN
       \/ /\ f.reply
          /\ calls' = IF calls[f.id].res = "pending"
                      THEN [calls EXCEPT ![f.id].res = "answered",
                                         ![f.id].ans = f.ans]
                      ELSE calls
          /\ UNCHANGED <<sub, got>>
       \/ /\ ~f.reply
          /\ LET drop == ~sub.on \/ Drops(f.id) IN
             /\ sub' = IF drop THEN sub ELSE [sub EXCEPT !.last = f.id]
             /\ got' = IF drop THEN got ELSE Append(got, f.id)
          /\ UNCHANGED calls
    /\ UNCHANGED <<execdVars, script, sock, conn, queue, budget, toServer, origin, fwd>>

(***************************************************************************)
(* The server                                                              *)
(***************************************************************************)

Reply(id, ans) == [reply |-> TRUE, id |-> id, ans |-> ans]
Notify(seq) == [reply |-> FALSE, id |-> seq, ans |-> NoAnswer]

\* The outbound channel is bounded and a sender waits for room.
Room == sock = "ready" /\ Len(toClient) < Outbound

\* The read loop: a request gets a task; a subscription first joins the
\* broadcast, then replays. (The client ignores the answer to a subscription,
\* and so does the model.)
serverReads ==
    /\ sock = "ready" /\ toServer # <<>>
    /\ toServer' = Tail(toServer)
    /\ LET id == Head(toServer)
           f == calls[id].frame IN
       \/ /\ f.method = "subscribe"
          /\ fwd' = Append(fwd, [last |-> f.since, phase |-> "replay",
                                 live |-> <<>>])
          /\ UNCHANGED <<tasks, origin>>
       \/ /\ f.method # "subscribe"
          /\ tasks' = Append(tasks, Received(f))
          /\ origin' = Append(origin, [id |-> id, conn |-> conn])
          /\ UNCHANGED fwd
    /\ UNCHANGED <<lock, lease, epoch, starts, policy, intents, events,
                   clientVars, toClient>>

handle(n) == Handle(n) /\ UNCHANGED <<clientVars, wireVars>>

\* A full receiver loses its oldest event: the broadcast channel overwrites.
Push(live, seq) ==
    IF Len(live) < BusCap THEN Append(live, seq) ELSE Append(Tail(live), seq)
publish(n) ==
    /\ tasks[n].pc = "publish"
    /\ LET seq == Head(tasks[n].out)
           rest == Tail(tasks[n].out) IN
       /\ fwd' = [k \in DOMAIN fwd |->
                    [fwd[k] EXCEPT !.live = Push(@, seq)]]
       /\ tasks' = [tasks EXCEPT ![n].out = rest,
                      ![n].pc = IF rest = <<>> THEN "answer" ELSE "publish"]
    /\ UNCHANGED <<lock, lease, epoch, starts, policy, intents, events,
                   clientVars, toServer, toClient, origin>>

answer(n) ==
    /\ tasks[n].pc = "answer"
    /\ \/ /\ origin[n].conn = conn /\ sock = "ready"
          /\ Room
          /\ toClient' = Append(toClient, Reply(origin[n].id, tasks[n].ans))
       \/ /\ ~(origin[n].conn = conn /\ sock = "ready")
          /\ UNCHANGED toClient
    /\ tasks' = [tasks EXCEPT ![n].pc = "done"]
    /\ UNCHANGED <<lock, lease, epoch, starts, policy, intents, events,
                   clientVars, toServer, origin, fwd>>

\* The replay: rows after last in order until a query finds none.
replay(k) ==
    /\ fwd[k].phase = "replay"
    /\ \/ /\ fwd[k].last < Len(events) /\ Room
          /\ toClient' = Append(toClient, Notify(fwd[k].last + 1))
          /\ fwd' = [fwd EXCEPT ![k].last = @ + 1]
       \/ /\ fwd[k].last >= Len(events)
          /\ fwd' = [fwd EXCEPT ![k].phase = "live"]
          /\ UNCHANGED toClient
    /\ UNCHANGED <<execdVars, clientVars, toServer, origin>>

\* What a live event makes the forwarder send: nothing if it was sent, the
\* rows of a hole first (one page of them), then the event itself.
ToSendUnfilled(last, seq) == IF seq <= last THEN <<>> ELSE <<seq>>
ToSend(last, seq) ==
    LET fill == IF seq > last + 1
                THEN [j \in 1..(IF Len(events) - last < Page
                                THEN Len(events) - last ELSE Page) |-> last + j]
                ELSE <<>>
        now == last + Len(fill) IN
    IF seq <= last THEN <<>>
    ELSE IF seq <= now THEN fill ELSE Append(fill, seq)

follow(k) ==
    /\ fwd[k].phase = "live" /\ fwd[k].live # <<>> /\ Room
    /\ LET send == ToSend(fwd[k].last, Head(fwd[k].live)) IN
       /\ toClient' = toClient \o [j \in 1..Len(send) |-> Notify(send[j])]
       /\ fwd' = [fwd EXCEPT ![k].live = Tail(@),
                    ![k].last = IF send = <<>> THEN @ ELSE send[Len(send)]]
    /\ UNCHANGED <<execdVars, clientVars, toServer, origin>>

start == bootstrap /\ UNCHANGED <<clientVars, wireVars>>

\* execd ends while a later start is still allowed: its connections close.
stop(i) ==
    /\ starts < MaxStarts
    /\ Fault
    /\ exit(i)
    /\ sock' = IF sock = "ready" THEN "down" ELSE sock
    /\ toServer' = IF sock = "ready" THEN <<>> ELSE toServer
    /\ toClient' = <<>> /\ fwd' = <<>>
    /\ UNCHANGED <<script, calls, conn, queue, sub, got, origin>>

Server ==
    \/ serverReads
    \/ \E n \in DOMAIN tasks : handle(n) \/ publish(n) \/ answer(n)
    \/ \E k \in DOMAIN fwd : replay(k) \/ follow(k)

Client == onConnect \/ connectFails \/ reconnect \/ handleFrame

Next ==
    \/ \E req \in script : Call(req)
    \/ \E n \in DOMAIN calls : Retry(n) \/ TimerFires(n)
    \/ \E since \in 0..sub.last : subscribe(since)
    \/ unsubscribe \/ close \/ connectionLost
    \/ Client \/ Server
    \/ start
    \/ \E i \in Running : stop(i)

\* A tokio task that can run runs, the sockets deliver, the reconnect timer
\* fires, and somebody starts execd again.
Fairness ==
    /\ WF_vars(serverReads) /\ WF_vars(Client)
    /\ WF_vars(start)
    /\ WF_vars(\E n \in DOMAIN tasks : handle(n) \/ publish(n) \/ answer(n))
    /\ WF_vars(\E k \in DOMAIN fwd : replay(k) \/ follow(k))

Spec == Init /\ [][Next]_vars /\ Fairness

(***************************************************************************)
(* Properties                                                              *)
(***************************************************************************)

\* What onEvent is given is the log from since on, each event once and in
\* order (exec-client.ts:308), whatever was replayed twice by two forwarders
\* of one connection, repeated after a reconnect or sent by the forwarder of
\* an earlier subscription, and nothing that is not in the log.
DeliveredInOrder ==
    \A k \in DOMAIN got : got[k] = sub.since + k /\ got[k] <= Len(events)

\* However often a proposal is retried after a time-out, all its answers name
\* one intent (exec-client.ts:41).
RetriesAgree ==
    \A m, n \in DOMAIN calls :
        /\ calls[m].frame.method = "propose" /\ calls[n].frame.method = "propose"
        /\ calls[m].frame.key # NoKey
        /\ calls[m].frame.key = calls[n].frame.key
        /\ calls[m].frame.who = calls[n].frame.who
        /\ calls[m].ans.ok /\ calls[n].ans.ok
        => calls[m].ans.intent = calls[n].ans.intent

\* Every committed event reaches a subscriber that stays (rpc_server.rs:217):
\* also what was committed while it was connecting, what was published out of
\* order, and what was committed before execd died. It needs BusCap events of
\* room in the broadcast channel, or a Page that covers what was overwritten.
EventsArrive == sub.on ~> (~sub.on \/ sub.last >= Len(events))

\* A key names one intent, every retry of it is answered with that intent, and
\* every answer tells what was stored (intents.rs:113, exec-client.ts:41).
IntentsSound == TypeOK /\ OneIntentPerKey /\ AnswersAreTrue /\ RetriesAgree

\* The event log tells every change of an intent and every version of the
\* policy, tells the halt unless it shows that two policy writes crossed, and
\* the subscriber reads it without a repetition or an inversion.
LogTellsAll == LogTellsIntents /\ LogTellsPolicy /\ DeliveredInOrder
=============================================================================
