---------------------------- MODULE ExecRpcProofs ----------------------------
(***************************************************************************)
(* Proofs about execd and its client (Execd, ExecRpc), for any callers,     *)
(* restarts, retries and interleavings of the handlers:                     *)
(*   - the instance that runs holds the newest lease;                       *)
(*   - one intent per idempotency key, and true answers to every retry;     *)
(*   - the event log tells every change, and a subscriber reads it in order.*)
(***************************************************************************)
EXTENDS ExecRpc, TLAPS

(***************************************************************************)
(* The lease                                                               *)
(***************************************************************************)

\* Who runs holds the lock, and took the lease last.
LeaseInv ==
    /\ lock \in Instances \cup {Nobody}
    /\ lease \in Nat /\ starts \in Instances
    /\ epoch \in [Instances -> Nat]
    /\ \A i \in Instances : epoch[i] > 0 => lock = i /\ epoch[i] = lease

processVars == <<lock, lease, epoch, starts>>

LEMMA HandleKeepsProcess ==
    ASSUME NEW n, Handle(n)
    PROVE  UNCHANGED processVars
  BY DEF Handle, Propose, ProposeLookup, ProposeCorrupt, ProposeInsert, Reject, RejectWrite,
     Get, Authorize, PolicySet, PolicySetWrite, EmergencyStop, EmergencyStopWrite, processVars

LEMMA ProcessSteps ==
    ASSUME [Next]_vars
    PROVE  \/ UNCHANGED processVars
           \/ bootstrap
           \/ \E i \in Running : exit(i)
  <1>1. CASE \E req \in script : Call(req)
    BY <1>1 DEF Call, execdVars, processVars
  <1>2. CASE \E n \in DOMAIN calls : Retry(n) \/ TimerFires(n)
    BY <1>2 DEF Retry, TimerFires, execdVars, processVars
  <1>3. CASE \E since \in 0..sub.last : subscribe(since)
    BY <1>3 DEF subscribe, execdVars, processVars
  <1>4. CASE unsubscribe \/ close \/ connectionLost \/ Client
    BY <1>4 DEF unsubscribe, close, connectionLost, Client, Hangup, onConnect, connectFails,
       reconnect, handleFrame, execdVars, processVars
  <1>5. CASE Server
    <2>1. CASE serverReads
      BY <2>1 DEF serverReads, processVars
    <2>2. CASE \E n \in DOMAIN tasks : handle(n) \/ publish(n) \/ answer(n)
      BY <2>2, HandleKeepsProcess DEF handle, publish, answer, processVars
    <2>3. CASE \E k \in DOMAIN fwd : replay(k) \/ follow(k)
      BY <2>3 DEF replay, follow, execdVars, processVars
    <2> QED
      BY <1>5, <2>1, <2>2, <2>3 DEF Server
  <1>6. CASE start
    BY <1>6 DEF start
  <1>7. CASE \E i \in Running : stop(i)
    BY <1>7 DEF stop
  <1>8. CASE UNCHANGED vars
    BY <1>8 DEF vars, execdVars, processVars
  <1> QED
    BY <1>1, <1>2, <1>3, <1>4, <1>5, <1>6, <1>7, <1>8 DEF Next

LEMMA LeaseInvStep ==
    ASSUME LeaseInv, [Next]_vars
    PROVE  LeaseInv'
  <1>1. CASE UNCHANGED processVars
    BY <1>1 DEF LeaseInv, processVars
  <1>2. CASE bootstrap
    <2>1. starts + 1 \in Instances /\ starts + 1 # Nobody /\ lease + 1 \in Nat
      BY <1>2, MaxStartsAssumption DEF LeaseInv, bootstrap, Instances, Nobody
    <2>2. lock' = starts + 1 /\ lease' = lease + 1 /\ starts' = starts + 1
          /\ epoch' = [epoch EXCEPT ![starts + 1] = lease + 1]
      BY <1>2 DEF bootstrap
    <2>3. \A i \in Instances : ~(epoch[i] > 0)
      BY <1>2, MaxStartsAssumption DEF LeaseInv, bootstrap, TakesLock, Instances, Nobody
    <2>4. \A i \in Instances : epoch'[i] > 0 => i = starts + 1 /\ epoch'[i] = lease + 1
      BY <2>1, <2>2, <2>3 DEF LeaseInv
    <2> QED
      BY <2>1, <2>2, <2>4 DEF LeaseInv
  <1>3. ASSUME NEW j \in Running, exit(j) PROVE LeaseInv'
    <2>1. j \in Instances /\ epoch[j] > 0 /\ lock = j
      BY <1>3 DEF Running, LeaseInv
    <2>2. epoch' = [epoch EXCEPT ![j] = 0] /\ lock' = Nobody /\ lease' = lease /\ starts' = starts
      BY <1>3, <2>1 DEF exit
    <2>3. \A i \in Instances : ~(epoch'[i] > 0)
      BY <2>1, <2>2 DEF LeaseInv
    <2> QED
      BY <2>1, <2>2, <2>3 DEF LeaseInv
  <1> QED
    BY <1>1, <1>2, <1>3, ProcessSteps

LEMMA AlwaysLeaseInv == Spec => []LeaseInv
  <1>1. Init => LeaseInv
    BY MaxStartsAssumption DEF Init, ExecdInit, LeaseInv, Instances, Nobody
  <1> QED
    BY <1>1, LeaseInvStep, PTL DEF Spec

\* lock.rs, app.rs: of any number of starts on one data directory the one that
\* runs holds the newest lease; none works under a lease that was taken over.
THEOREM RunningHoldsTheLease == Spec => []LeaseIsMine
  <1>1. LeaseInv => LeaseIsMine
    BY DEF LeaseInv, LeaseIsMine, Running
  <1> QED
    BY <1>1, AlwaysLeaseInv, PTL

(***************************************************************************)
(* The inductive invariant of requests, answers and deliveries             *)
(***************************************************************************)

\* Row i of the table rows holds what the proposal r asked for.
Names(r, i, rows) ==
    /\ i \in 1..Len(rows)
    /\ rows[i].who = r.who /\ rows[i].key = r.key
    /\ rows[i].account = r.account /\ rows[i].surface = r.surface
    /\ rows[i].body = r.body

\* An answer to the frame f that tells of an intent tells of the one f asked for.
TrueTo(f, ans, rows) == f.method = "propose" /\ ans.ok => Names(f, ans.intent, rows)

\* A request with len events committed: what it has yet to publish is in the log.
TaskOK(t, rows, len) ==
    /\ t \in Tasks
    /\ t.pc = "publish" => t.out # <<>>
    /\ \A k \in 1..Len(t.out) : t.out[k] \in 1..len
    /\ t.pc \in {"publish", "answer"} => TrueTo(t.req, t.ans, rows)
    /\ t.req.method = "reject" /\ t.pc = "write" => t.req.target \in 1..Len(rows)

CallOK(c, rows) == c \in Calls /\ TrueTo(c.frame, c.ans, rows)

Frames == [reply : BOOLEAN, id : Nat, ans : Answers]
FrameOK(f, made, rows, len) ==
    /\ f \in Frames
    /\ f.reply => f.id \in 1..Len(made) /\ TrueTo(made[f.id].frame, f.ans, rows)
    /\ ~f.reply => f.id \in 1..len

ForwarderOK(w, len) ==
    w \in Forwarders /\ \A k \in 1..Len(w.live) : w.live[k] \in 1..len

StoreOK ==
    /\ policy \in Policies /\ intents \in Seq(Intents) /\ events \in Seq(Events)
    /\ OneIntentPerKey
TasksOK ==
    /\ tasks \in Seq(Tasks)
    /\ \A n \in 1..Len(tasks) : TaskOK(tasks[n], intents, Len(events))
CallsOK ==
    /\ calls \in Seq(Calls)
    /\ \A n \in 1..Len(calls) : CallOK(calls[n], intents)
IdsOK ==
    /\ queue \in Seq(Nat) /\ toServer \in Seq(Nat)
    /\ \A k \in 1..Len(queue) : queue[k] \in 1..Len(calls)
    /\ \A k \in 1..Len(toServer) : toServer[k] \in 1..Len(calls)
\* A task answers the call its request came from.
OriginOK ==
    /\ origin \in Seq([id : Nat, conn : Nat]) /\ Len(origin) = Len(tasks)
    /\ \A n \in 1..Len(tasks) : /\ origin[n].id \in 1..Len(calls)
                                /\ tasks[n].req = calls[origin[n].id].frame
FramesOK ==
    /\ toClient \in Seq(Frames)
    /\ \A k \in 1..Len(toClient) : FrameOK(toClient[k], calls, intents, Len(events))
ForwardersOK ==
    /\ fwd \in Seq(Forwarders)
    /\ \A k \in 1..Len(fwd) : ForwarderOK(fwd[k], Len(events))
ClientOK ==
    /\ script \in SUBSET UNION {s.calls : s \in Scripts}
    /\ sock \in {"down", "connecting", "ready", "closed"} /\ conn \in Nat
    /\ budget \in Budgets
SubOK ==
    /\ sub \in [on : BOOLEAN, since : Nat, last : Nat] /\ got \in Seq(Nat)
    /\ sub.last = sub.since + Len(got)
    /\ \A k \in 1..Len(got) : got[k] = sub.since + k /\ got[k] <= Len(events)

RpcInv ==
    /\ StoreOK /\ TasksOK /\ CallsOK /\ IdsOK /\ OriginOK /\ FramesOK
    /\ ForwardersOK /\ ClientOK /\ SubOK

(***************************************************************************)
(* The log and the policy                                                  *)
(***************************************************************************)

\* Each version is told once; a version is told.
Once(E) ==
    \A s, t \in 1..Len(E) : /\ E[s].name = "policy" /\ E[t].name = "policy"
                            /\ E[s].version = E[t].version
                            => s = t
Logged(E, v) == \E s \in 1..Len(E) : E[s].name = "policy" /\ E[s].version = v

\* The policy r a handler read is the one it replaces, or the version it will
\* write is told already.
Replaces(r, E, p) == r = p \/ (r.version < p.version /\ Logged(E, r.version + 1))
IsPolicy(f) == f.method \in {"set", "stop"}
ReadOK(t, E, p) ==
    IsPolicy(t.req) /\ t.pc = "write" =>
        /\ t.req.method = "set" => t.req.policy.version = t.read.version + 1
        /\ Once(E) => Replaces(t.read, E, p)

PolicyInv ==
    /\ LogTellsPolicy
    /\ \A n \in 1..Len(tasks) : ReadOK(tasks[n], events, policy)

(***************************************************************************)
(* Tables only grow                                                        *)
(***************************************************************************)

\* Rows are added and a row keeps everything but its status.
Grown(I, J) ==
    /\ Len(I) <= Len(J)
    /\ \A i \in 1..Len(I) : /\ J[i].who = I[i].who /\ J[i].key = I[i].key
                            /\ J[i].account = I[i].account /\ J[i].surface = I[i].surface
                            /\ J[i].body = I[i].body
\* Calls are added and a call keeps its frame.
Made(C, D) == Len(C) <= Len(D) /\ \A n \in 1..Len(C) : D[n].frame = C[n].frame

LEMMA NamesStays ==
    ASSUME NEW I \in Seq(Intents), NEW J \in Seq(Intents), Grown(I, J), NEW r, NEW i, Names(r, i, I)
    PROVE  Names(r, i, J)
  <1>1. Len(I) \in Nat /\ Len(J) \in Nat
    OBVIOUS
  <1> QED
    BY <1>1 DEF Names, Grown

LEMMA TrueToStays ==
    ASSUME NEW I \in Seq(Intents), NEW J \in Seq(Intents), Grown(I, J), NEW f, NEW a, TrueTo(f, a, I)
    PROVE  TrueTo(f, a, J)
  BY NamesStays DEF TrueTo

LEMMA TaskStays ==
    ASSUME NEW I \in Seq(Intents), NEW J \in Seq(Intents), Grown(I, J),
           NEW e \in Nat, NEW d \in Nat, e <= d, NEW t, TaskOK(t, I, e)
    PROVE  TaskOK(t, J, d)
  <1>1. t \in Tasks /\ (t.pc = "publish" => t.out # <<>>)
    BY DEF TaskOK
  <1>2. \A k \in 1..Len(t.out) : t.out[k] \in 1..d
    BY DEF TaskOK
  <1>3. t.pc \in {"publish", "answer"} => TrueTo(t.req, t.ans, J)
    BY TrueToStays DEF TaskOK
  <1>4. t.req.method = "reject" /\ t.pc = "write" => t.req.target \in 1..Len(J)
    <2>1. Len(I) \in Nat /\ Len(J) \in Nat /\ Len(I) <= Len(J)
      BY DEF Grown
    <2> QED
      BY <2>1 DEF TaskOK
  <1> QED
    BY <1>1, <1>2, <1>3, <1>4 DEF TaskOK

LEMMA FrameStays ==
    ASSUME NEW I \in Seq(Intents), NEW J \in Seq(Intents), Grown(I, J),
           NEW C \in Seq(Calls), NEW D \in Seq(Calls), Made(C, D),
           NEW e \in Nat, NEW d \in Nat, e <= d, NEW f, FrameOK(f, C, I, e)
    PROVE  FrameOK(f, D, J, d)
  <1>0. Len(C) \in Nat /\ Len(D) \in Nat /\ Len(C) <= Len(D)
    BY DEF Made
  <1>1. f \in Frames /\ (~f.reply => f.id \in 1..d)
    BY DEF FrameOK
  <1>2. ASSUME f.reply PROVE f.id \in 1..Len(D) /\ TrueTo(D[f.id].frame, f.ans, J)
    <2>1. f.id \in 1..Len(C) /\ TrueTo(C[f.id].frame, f.ans, I)
      BY <1>2 DEF FrameOK
    <2>2. D[f.id].frame = C[f.id].frame
      BY <2>1 DEF Made
    <2> QED
      BY <1>0, <2>1, <2>2, TrueToStays
  <1> QED
    BY <1>1, <1>2 DEF FrameOK

LEMMA ForwarderStays ==
    ASSUME NEW e \in Nat, NEW d \in Nat, e <= d, NEW w, ForwarderOK(w, e)
    PROVE  ForwarderOK(w, d)
  BY DEF ForwarderOK

LEMMA SameRows ==
    ASSUME NEW I \in Seq(Intents)
    PROVE  Grown(I, I)
  BY DEF Grown

LEMMA SameCalls ==
    ASSUME NEW C \in Seq(Calls)
    PROVE  Made(C, C)
  BY DEF Made

\* What is not touched by a step that adds rows, events and calls.
LEMMA UntouchedStays ==
    ASSUME RpcInv, intents' \in Seq(Intents), Grown(intents, intents'),
           events' \in Seq(Events), Len(events) <= Len(events'),
           calls' \in Seq(Calls), Made(calls, calls')
    PROVE  /\ \A t : TaskOK(t, intents, Len(events)) => TaskOK(t, intents', Len(events'))
           /\ \A f : FrameOK(f, calls, intents, Len(events)) => FrameOK(f, calls', intents', Len(events'))
           /\ \A w : ForwarderOK(w, Len(events)) => ForwarderOK(w, Len(events'))
           /\ \A c : CallOK(c, intents) => CallOK(c, intents')
           /\ toClient' = toClient => FramesOK'
           /\ fwd' = fwd => ForwardersOK'
           /\ tasks' = tasks => TasksOK'
           /\ queue' = queue /\ toServer' = toServer => IdsOK'
           /\ tasks' = tasks /\ origin' = origin => OriginOK'
           /\ sub' = sub /\ got' = got => SubOK'
           /\ calls' = calls => CallsOK'
  <1>0. /\ intents \in Seq(Intents) /\ events \in Seq(Events) /\ calls \in Seq(Calls)
        /\ Len(events) \in Nat /\ Len(events') \in Nat
        /\ Len(calls) \in Nat /\ Len(calls') \in Nat /\ Len(calls) <= Len(calls')
    BY DEF RpcInv, StoreOK, CallsOK, Made
  <1>12. \A x \in 1..Len(calls) : x \in 1..Len(calls')
    BY <1>0
  <1>1. \A t : TaskOK(t, intents, Len(events)) => TaskOK(t, intents', Len(events'))
    BY <1>0, TaskStays
  <1>2. \A f : FrameOK(f, calls, intents, Len(events)) => FrameOK(f, calls', intents', Len(events'))
    BY <1>0, FrameStays
  <1>3. \A w : ForwarderOK(w, Len(events)) => ForwarderOK(w, Len(events'))
    BY <1>0, ForwarderStays
  <1>4. \A c : CallOK(c, intents) => CallOK(c, intents')
    BY <1>0, TrueToStays DEF CallOK
  <1>5. toClient' = toClient => FramesOK'
    BY <1>2 DEF RpcInv, FramesOK
  <1>6. fwd' = fwd => ForwardersOK'
    BY <1>3 DEF RpcInv, ForwardersOK
  <1>7. tasks' = tasks => TasksOK'
    BY <1>1 DEF RpcInv, TasksOK
  <1>8. queue' = queue /\ toServer' = toServer => IdsOK'
    <2>1. IdsOK
      BY DEF RpcInv
    <2> QED
      BY <1>12, <2>1 DEF IdsOK
  <1>9. ASSUME tasks' = tasks, origin' = origin PROVE OriginOK'
    <2>1. \A n \in 1..Len(tasks) : /\ origin[n].id \in 1..Len(calls')
                                   /\ tasks[n].req = calls'[origin[n].id].frame
      <3>1. \A n \in 1..Len(tasks) : /\ origin[n].id \in 1..Len(calls)
                                     /\ tasks[n].req = calls[origin[n].id].frame
        BY DEF RpcInv, OriginOK
      <3>2. \A n \in 1..Len(calls) : calls'[n].frame = calls[n].frame
        BY DEF Made
      <3> QED
        BY <1>12, <3>1, <3>2
    <2> QED
      BY <1>9, <2>1 DEF RpcInv, OriginOK
  <1>10. sub' = sub /\ got' = got => SubOK'
    <2>1. \A k \in 1..Len(got) : got[k] = sub.since + k /\ got[k] <= Len(events')
      BY <1>0 DEF RpcInv, SubOK
    <2> QED
      BY <2>1 DEF RpcInv, SubOK
  <1>11. calls' = calls => CallsOK'
    BY <1>4 DEF RpcInv, CallsOK
  <1> QED
    BY <1>1, <1>2, <1>3, <1>4, <1>5, <1>6, <1>7, <1>8, <1>9, <1>10, <1>11

(***************************************************************************)
(* What a handler makes of its task                                        *)
(***************************************************************************)

Stepped(t, pc, p) == [t EXCEPT !.pc = pc, !.read = p]
Answered(t, ans) == [t EXCEPT !.pc = "answer", !.ans = ans]

LEMMA SteppedTask ==
    ASSUME NEW I \in Seq(Intents), NEW e \in Nat, NEW t, TaskOK(t, I, e),
           NEW pc \in Pcs, pc \notin {"publish", "answer"}, NEW p \in Policies,
           t.req.method = "reject" /\ pc = "write" => t.req.target \in 1..Len(I)
    PROVE  /\ TaskOK(Stepped(t, pc, p), I, e)
           /\ Stepped(t, pc, p).req = t.req /\ Stepped(t, pc, p).pc = pc
  <1> DEFINE u == Stepped(t, pc, p)
  <1>1. t \in Tasks
    BY DEF TaskOK
  <1>2. u \in Tasks /\ u.req = t.req /\ u.pc = pc /\ u.out = t.out /\ u.ans = t.ans
    BY <1>1 DEF Tasks, Stepped
  <1> HIDE DEF u
  <1>3. TaskOK(u, I, e)
    BY <1>2 DEF TaskOK
  <1> QED
    BY <1>2, <1>3 DEF u

LEMMA AnsweredTask ==
    ASSUME NEW I \in Seq(Intents), NEW e \in Nat, NEW t, TaskOK(t, I, e),
           NEW ans \in Answers, TrueTo(t.req, ans, I)
    PROVE  /\ TaskOK(Answered(t, ans), I, e)
           /\ Answered(t, ans).req = t.req /\ Answered(t, ans).pc = "answer"
  <1> DEFINE u == Answered(t, ans)
  <1>1. t \in Tasks /\ "answer" \in Pcs
    BY DEF TaskOK, Pcs
  <1>2. u \in Tasks /\ u.req = t.req /\ u.pc = "answer" /\ u.out = t.out /\ u.ans = ans
    BY <1>1 DEF Tasks, Answered
  <1> HIDE DEF u
  <1>3. TaskOK(u, I, e)
    BY <1>2 DEF TaskOK
  <1> QED
    BY <1>2, <1>3 DEF u

\* The seqs of the events es appended to the log E.
Seqs(E, es) == [k \in 1..Len(es) |-> Len(E) + k]
Publishing(t, E, es, ans) == [t EXCEPT !.pc = "publish", !.ans = ans, !.out = Seqs(E, es)]

LEMMA SeqsInLog ==
    ASSUME NEW E \in Seq(Events), NEW es \in Seq(Events), es # <<>>
    PROVE  /\ Seqs(E, es) \in Seq(Nat) /\ Seqs(E, es) # <<>> /\ Len(Seqs(E, es)) = Len(es)
           /\ E \o es \in Seq(Events) /\ Len(E \o es) = Len(E) + Len(es) /\ Len(E) <= Len(E \o es)
           /\ \A k \in 1..Len(Seqs(E, es)) : Seqs(E, es)[k] \in 1..Len(E \o es)
  <1>1. Len(E) \in Nat /\ Len(es) \in Nat \ {0}
    OBVIOUS
  <1>2. E \o es \in Seq(Events) /\ Len(E \o es) = Len(E) + Len(es)
    OBVIOUS
  <1>3. Seqs(E, es) \in Seq(Nat) /\ Len(Seqs(E, es)) = Len(es)
        /\ \A k \in 1..Len(es) : Seqs(E, es)[k] = Len(E) + k
    BY <1>1 DEF Seqs
  <1> QED
    BY <1>1, <1>2, <1>3

LEMMA CommittedTask ==
    ASSUME NEW I \in Seq(Intents), NEW J \in Seq(Intents), Grown(I, J),
           NEW E \in Seq(Events), NEW es \in Seq(Events), es # <<>>,
           NEW t, TaskOK(t, I, Len(E)), NEW ans \in Answers, TrueTo(t.req, ans, J)
    PROVE  /\ TaskOK(Publishing(t, E, es, ans), J, Len(E \o es))
           /\ Publishing(t, E, es, ans).req = t.req /\ Publishing(t, E, es, ans).pc = "publish"
  <1> DEFINE u == Publishing(t, E, es, ans)
  <1>1. t \in Tasks /\ "publish" \in Pcs
    BY DEF TaskOK, Pcs
  <1>2. Seqs(E, es) \in Seq(Nat) /\ Seqs(E, es) # <<>>
        /\ \A k \in 1..Len(Seqs(E, es)) : Seqs(E, es)[k] \in 1..Len(E \o es)
    BY SeqsInLog
  <1>3. u \in Tasks /\ u.req = t.req /\ u.pc = "publish" /\ u.out = Seqs(E, es) /\ u.ans = ans
    BY <1>1, <1>2 DEF Tasks, Publishing
  <1> HIDE DEF u
  <1>4. TaskOK(u, J, Len(E \o es))
    BY <1>2, <1>3 DEF TaskOK
  <1> QED
    BY <1>3, <1>4 DEF u

(***************************************************************************)
(* Steps of the handlers                                                   *)
(***************************************************************************)

\* What every step of a handler is, whatever it writes.
HandlerStep(n) ==
    /\ intents' \in Seq(Intents) /\ Grown(intents, intents')
    /\ events' \in Seq(Events) /\ Len(events) <= Len(events')
    /\ policy' \in Policies
    /\ OneIntentPerKey'
    /\ \E u : /\ TaskOK(u, intents', Len(events')) /\ u.req = tasks[n].req
              /\ tasks' = [tasks EXCEPT ![n] = u]

LEMMA TaskReplaced ==
    ASSUME NEW s \in Seq(Tasks), NEW n \in 1..Len(s), NEW u \in Tasks
    PROVE  /\ [s EXCEPT ![n] = u] \in Seq(Tasks) /\ Len([s EXCEPT ![n] = u]) = Len(s)
           /\ \A m \in 1..Len(s) : [s EXCEPT ![n] = u][m] = IF m = n THEN u ELSE s[m]
  OBVIOUS

\* One task of several is replaced.
LEMMA OneTaskKeeps ==
    ASSUME RpcInv, NEW n \in 1..Len(tasks), NEW u,
           intents' \in Seq(Intents), Grown(intents, intents'),
           events' \in Seq(Events), Len(events) <= Len(events'),
           TaskOK(u, intents', Len(events')), u.req = tasks[n].req,
           tasks' = [tasks EXCEPT ![n] = u],
           calls' = calls, origin' = origin
    PROVE  TasksOK' /\ OriginOK' /\ Len(tasks') = Len(tasks)
  <1>1. tasks \in Seq(Tasks) /\ u \in Tasks /\ calls \in Seq(Calls) /\ calls' \in Seq(Calls)
    BY DEF RpcInv, TasksOK, TaskOK, CallsOK
  <1>2. /\ tasks' \in Seq(Tasks) /\ Len(tasks') = Len(tasks)
        /\ \A m \in 1..Len(tasks) : tasks'[m] = IF m = n THEN u ELSE tasks[m]
    BY <1>1, TaskReplaced
  <1>3. \A t : TaskOK(t, intents, Len(events)) => TaskOK(t, intents', Len(events'))
    BY <1>1, SameCalls, UntouchedStays
  <1>4. TasksOK'
    <2> SUFFICES ASSUME NEW m \in 1..Len(tasks) PROVE TaskOK(tasks'[m], intents', Len(events'))
      BY <1>2 DEF TasksOK
    <2>1. TaskOK(tasks[m], intents, Len(events))
      BY DEF RpcInv, TasksOK
    <2> QED
      BY <1>2, <1>3, <2>1
  <1>5. OriginOK'
    BY <1>2 DEF RpcInv, OriginOK
  <1> QED
    BY <1>2, <1>4, <1>5

LEMMA HandlerStepKeeps ==
    ASSUME RpcInv, NEW n \in 1..Len(tasks), HandlerStep(n), UNCHANGED <<clientVars, wireVars>>
    PROVE  RpcInv'
  <1>1. PICK u : /\ TaskOK(u, intents', Len(events')) /\ u.req = tasks[n].req
                 /\ tasks' = [tasks EXCEPT ![n] = u]
    BY DEF HandlerStep
  <1>2. /\ intents' \in Seq(Intents) /\ Grown(intents, intents')
        /\ events' \in Seq(Events) /\ Len(events) <= Len(events')
        /\ StoreOK'
    BY DEF HandlerStep, StoreOK
  <1>3. UNCHANGED <<script, calls, sock, conn, queue, sub, got, budget, toServer, toClient, origin, fwd>>
    BY DEF clientVars, wireVars
  <1>4. TasksOK' /\ OriginOK'
    BY <1>1, <1>2, <1>3, OneTaskKeeps
  <1>5. calls' \in Seq(Calls) /\ Made(calls, calls')
    BY <1>3, SameCalls DEF RpcInv, CallsOK
  <1>6. FramesOK' /\ ForwardersOK' /\ IdsOK' /\ SubOK' /\ CallsOK'
    BY <1>2, <1>3, <1>5, UntouchedStays
  <1>7. ClientOK'
    BY <1>3 DEF RpcInv, ClientOK
  <1> QED
    BY <1>2, <1>4, <1>6, <1>7 DEF RpcInv

\* A handler that writes nothing.
LEMMA ReadingStep ==
    ASSUME RpcInv, NEW n \in 1..Len(tasks), UNCHANGED <<policy, intents, events>>, NEW u,
           TaskOK(u, intents, Len(events)), u.req = tasks[n].req,
           tasks' = [tasks EXCEPT ![n] = u]
    PROVE  HandlerStep(n)
  <1>1. /\ intents \in Seq(Intents) /\ events \in Seq(Events) /\ policy \in Policies
        /\ OneIntentPerKey /\ Len(events) \in Nat
    BY DEF RpcInv, StoreOK
  <1>2. Grown(intents, intents') /\ OneIntentPerKey'
    BY <1>1, SameRows DEF OneIntentPerKey
  <1>3. TaskOK(u, intents', Len(events')) /\ Len(events) <= Len(events')
    BY <1>1
  <1>4. intents' \in Seq(Intents) /\ events' \in Seq(Events) /\ policy' \in Policies
    BY <1>1
  <1> QED
    BY <1>2, <1>3, <1>4 DEF HandlerStep

\* The three ways a handler ends a step without a transaction.
LEMMA AnswerStep ==
    ASSUME RpcInv, NEW n \in 1..Len(tasks), UNCHANGED <<policy, intents, events>>,
           NEW ans \in Answers, TrueTo(tasks[n].req, ans, intents), Answer(n, ans)
    PROVE  HandlerStep(n)
  <1> DEFINE t == tasks[n]
             u == Answered(t, ans)
  <1>1. /\ tasks \in Seq(Tasks) /\ t \in Tasks /\ TaskOK(t, intents, Len(events))
        /\ intents \in Seq(Intents) /\ Len(events) \in Nat
    BY DEF RpcInv, TasksOK, StoreOK
  <1>2. tasks' = [tasks EXCEPT ![n] = u]
    BY <1>1 DEF Answer, Tasks, Answered
  <1>3. TaskOK(u, intents, Len(events)) /\ u.req = t.req
    BY <1>1, AnsweredTask
  <1> HIDE DEF u
  <1> QED
    BY <1>2, <1>3, ReadingStep

LEMMA ReadStep ==
    ASSUME RpcInv, NEW n \in 1..Len(tasks), UNCHANGED <<policy, intents, events>>,
           NEW pc \in Pcs, pc \notin {"publish", "answer"},
           tasks[n].req.method = "reject" /\ pc = "write" => tasks[n].req.target \in 1..Len(intents),
           Step(n, pc) \/ ReadPolicy(n, pc)
    PROVE  HandlerStep(n)
  <1> DEFINE t == tasks[n]
  <1>1. /\ tasks \in Seq(Tasks) /\ t \in Tasks /\ TaskOK(t, intents, Len(events))
        /\ intents \in Seq(Intents) /\ Len(events) \in Nat /\ policy \in Policies /\ t.read \in Policies
    <2>1. tasks \in Seq(Tasks) /\ t \in Tasks /\ TaskOK(t, intents, Len(events))
      BY DEF RpcInv, TasksOK
    <2> QED
      BY <2>1 DEF RpcInv, StoreOK, Tasks
  <1>2. PICK p \in Policies : tasks' = [tasks EXCEPT ![n] = Stepped(t, pc, p)]
    <2>1. CASE Step(n, pc)
      <3>1. tasks' = [tasks EXCEPT ![n] = Stepped(t, pc, t.read)]
        BY <1>1, <2>1 DEF Step, Tasks, Stepped
      <3> QED
        BY <1>1, <3>1
    <2>2. CASE ReadPolicy(n, pc)
      BY <1>1, <2>2 DEF ReadPolicy, Tasks, Stepped
    <2> QED
      BY <2>1, <2>2
  <1> DEFINE u == Stepped(t, pc, p)
  <1>3. TaskOK(u, intents, Len(events)) /\ u.req = t.req
    BY <1>1, SteppedTask
  <1>4. tasks' = [tasks EXCEPT ![n] = u]
    BY <1>2
  <1> HIDE DEF u
  <1> QED
    BY <1>3, <1>4, ReadingStep

LEMMA CommitStep ==
    ASSUME RpcInv, NEW n \in 1..Len(tasks),
           intents' \in Seq(Intents), Grown(intents, intents'), OneIntentPerKey',
           policy' \in Policies,
           NEW es \in Seq(Events), es # <<>>,
           NEW ans \in Answers, TrueTo(tasks[n].req, ans, intents'), Committed(n, es, ans)
    PROVE  HandlerStep(n)
  <1> DEFINE t == tasks[n]
             u == Publishing(t, events, es, ans)
  <1>1. /\ tasks \in Seq(Tasks) /\ t \in Tasks /\ TaskOK(t, intents, Len(events))
        /\ intents \in Seq(Intents) /\ events \in Seq(Events)
    BY DEF RpcInv, TasksOK, StoreOK
  <1>2. tasks' = [tasks EXCEPT ![n] = u]
    BY <1>1 DEF Committed, Tasks, Publishing, Seqs
  <1>3. events' = events \o es
    BY DEF Committed, tx_insert_events
  <1>4. TaskOK(u, intents', Len(events')) /\ u.req = t.req
    BY <1>1, <1>3, CommittedTask
  <1>5. events' \in Seq(Events) /\ Len(events) <= Len(events')
    BY <1>1, <1>3, SeqsInLog
  <1> HIDE DEF u
  <1> QED
    BY <1>2, <1>4, <1>5 DEF HandlerStep

LEMMA ReqKinds ==
    ASSUME NEW r \in Reqs
    PROVE  /\ r.method = "propose" => r \in ProposeReqs
           /\ r.method \in {"reject", "get"} => r \in TargetReqs
           /\ r.method = "set" => r \in SetReqs
           /\ r.method = "stop" => r \in StopReqs
           /\ r.method \in {"propose", "reject", "get", "set", "stop", "authorize"}
  BY DEF Reqs, ProposeReqs, TargetReqs, SetReqs, StopReqs, OtherReqs

LEMMA TaskReq ==
    ASSUME RpcInv, NEW n \in 1..Len(tasks)
    PROVE  /\ tasks[n] \in Tasks /\ tasks[n].req \in Reqs /\ tasks[n].read \in Policies
           /\ TaskOK(tasks[n], intents, Len(events))
  <1>1. tasks[n] \in Tasks /\ TaskOK(tasks[n], intents, Len(events))
    BY DEF RpcInv, TasksOK
  <1> QED
    BY <1>1 DEF Tasks

ErrorKinds == {"invalid", "forbidden", "conflict", "not_found", "invalid_transition",
               "internal", "unavailable"}

LEMMA BadAnswers ==
    ASSUME NEW k \in ErrorKinds
    PROVE  /\ Bad(k) \in Answers
           /\ \A f, I : TrueTo(f, Bad(k), I)
  <1>1. Bad(k) \in Answers
    BY DEF Bad, Answers, ErrorKinds
  <1>2. ~Bad(k).ok
    BY DEF Bad
  <1> QED
    BY <1>1, <1>2 DEF TrueTo

LEMMA GoodAnswers ==
    ASSUME NEW k \in {"intent", "policy"}, NEW i \in Nat
    PROVE  Good(k, i) \in Answers /\ Good(k, i).intent = i
  BY DEF Good, Answers

LEMMA ReadersStep ==
    ASSUME RpcInv, NEW n \in 1..Len(tasks),
           Propose(n) \/ Reject(n) \/ Get(n) \/ Authorize(n) \/ PolicySet(n) \/ EmergencyStop(n)
    PROVE  HandlerStep(n)
  <1>0. UNCHANGED <<policy, intents, events>>
    BY DEF Propose, Reject, Get, Authorize, PolicySet, EmergencyStop
  <1>00. tasks[n].req \in Reqs
    BY TaskReq
  <1>1. ASSUME NEW k \in ErrorKinds, Answer(n, Bad(k)) PROVE HandlerStep(n)
    BY <1>0, <1>1, BadAnswers, AnswerStep
  <1>2. CASE Propose(n)
    <2>1. validate_propose(tasks[n].req) # "none" => validate_propose(tasks[n].req) \in ErrorKinds
      BY DEF validate_propose, ErrorKinds
    <2>2. CASE validate_propose(tasks[n].req) # "none" /\ Answer(n, Bad(validate_propose(tasks[n].req)))
      BY <1>1, <2>1, <2>2
    <2>3. CASE ReadPolicy(n, "lookup")
      BY <1>0, <2>3, ReadStep DEF Pcs
    <2> QED
      BY <1>2, <2>2, <2>3 DEF Propose
  <1>3. CASE Reject(n)
    <2> DEFINE i == tasks[n].req.target
    <2>1. CASE Answer(n, Bad("not_found")) \/ Answer(n, Bad("invalid_transition"))
      BY <1>1, <2>1 DEF ErrorKinds
    <2>2. CASE i \in DOMAIN intents /\ Step(n, "write")
      <3>1. i \in 1..Len(intents)
        BY <2>2 DEF RpcInv, StoreOK
      <3> QED
        BY <1>0, <2>2, <3>1, ReadStep DEF Pcs
    <2> QED
      BY <1>3, <2>1, <2>2 DEF Reject
  <1>4. CASE Get(n)
    <2> DEFINE i == tasks[n].req.target
    <2>0. tasks[n].req \in TargetReqs /\ tasks[n].req.method = "get"
      BY <1>00, <1>4, ReqKinds DEF Get, At
    <2>1. CASE Answer(n, Bad("not_found"))
      BY <1>1, <2>1 DEF ErrorKinds
    <2>2. CASE Answer(n, Good("intent", i))
      <3>1. i \in Nat
        BY <2>0 DEF TargetReqs
      <3>2. Good("intent", i) \in Answers
        BY <3>1, GoodAnswers
      <3>3. TrueTo(tasks[n].req, Good("intent", i), intents)
        BY <2>0 DEF TrueTo
      <3> QED
        BY <1>0, <2>2, <3>2, <3>3, AnswerStep
    <2>3. Answer(n, Good("intent", i)) \/ Answer(n, Bad("not_found"))
      BY <1>4 DEF Get
    <2> QED
      BY <2>1, <2>2, <2>3
  <1>5. CASE Authorize(n)
    BY <1>1, <1>5 DEF Authorize, ErrorKinds
  <1>6. CASE PolicySet(n)
    <2> DEFINE bad == validate_set(policy, tasks[n].req.policy, tasks[n].req.confirmed)
    <2>1. bad # "none" => bad \in ErrorKinds
      BY DEF validate_set, ErrorKinds
    <2>2. CASE bad # "none" /\ Answer(n, Bad(bad))
      BY <1>1, <2>1, <2>2
    <2>3. CASE ReadPolicy(n, "write") /\ tasks[n].req.method = "set"
      BY <1>0, <2>3, ReadStep DEF Pcs
    <2> QED
      BY <1>6, <2>2, <2>3 DEF PolicySet, At
  <1>7. CASE EmergencyStop(n)
    <2>1. CASE Answer(n, Bad("forbidden"))
      BY <1>1, <2>1 DEF ErrorKinds
    <2>2. CASE ReadPolicy(n, "write") /\ tasks[n].req.method = "stop"
      BY <1>0, <2>2, ReadStep DEF Pcs
    <2> QED
      BY <1>7, <2>1, <2>2 DEF EmergencyStop, At
  <1> QED
    BY <1>2, <1>3, <1>4, <1>5, <1>6, <1>7

LEMMA LookupStep ==
    ASSUME RpcInv, NEW n \in 1..Len(tasks), ProposeLookup(n)
    PROVE  HandlerStep(n)
  <1> DEFINE r == tasks[n].req
             t == tasks[n]
  <1>0. /\ UNCHANGED <<policy, intents, events>> /\ r.method = "propose"
        /\ t \in Tasks /\ TaskOK(t, intents, Len(events)) /\ tasks \in Seq(Tasks)
        /\ intents \in Seq(Intents) /\ Len(events) \in Nat
    BY TaskReq DEF ProposeLookup, At, RpcInv, TasksOK, StoreOK
  <1>1. CASE Step(n, "insert")
    BY <1>0, <1>1, ReadStep DEF Pcs
  <1>2. ASSUME NEW i \in Keyed(r.who, r.key), SameContent(i, r), Answer(n, Good("intent", i))
        PROVE  HandlerStep(n)
    <2>1. i \in 1..Len(intents) /\ intents[i].key = r.key /\ intents[i].who = r.who
      BY <1>0, <1>2 DEF Keyed
    <2>2. Names(r, i, intents)
      BY <1>2, <2>1 DEF Names, SameContent
    <2>3. Good("intent", i) \in Answers /\ Good("intent", i).intent = i
      BY <2>1, GoodAnswers
    <2>4. TrueTo(r, Good("intent", i), intents)
      BY <2>2, <2>3 DEF TrueTo
    <2> QED
      BY <1>0, <1>2, <2>3, <2>4, AnswerStep
  <1>3. ASSUME NEW i \in Keyed(r.who, r.key),
               tasks' = [tasks EXCEPT ![n].pc = "corrupt",
                           ![n].ans = [Bad("conflict") EXCEPT !.intent = i]]
        PROVE  HandlerStep(n)
    <2> DEFINE a == [Bad("conflict") EXCEPT !.intent = i]
    <2>1. i \in Nat
      BY <1>0, <1>3 DEF Keyed
    <2>2. a \in Answers
      BY <2>1 DEF Bad, Answers
    <2>3. tasks' = [tasks EXCEPT ![n] = [t EXCEPT !.pc = "corrupt", !.ans = a]]
      BY <1>0, <1>3 DEF Tasks
    <2> HIDE DEF a
    <2> DEFINE u == [t EXCEPT !.pc = "corrupt", !.ans = a]
    <2>4. u \in Tasks /\ u.req = t.req /\ u.pc = "corrupt" /\ u.out = t.out
      BY <1>0, <2>2 DEF Tasks, Pcs
    <2>5. tasks' = [tasks EXCEPT ![n] = u]
      BY <2>3
    <2> HIDE DEF u
    <2>6. TaskOK(u, intents, Len(events))
      BY <1>0, <2>4 DEF TaskOK
    <2> QED
      BY <1>0, <2>4, <2>5, <2>6, ReadingStep
  <1> QED
    BY <1>1, <1>2, <1>3 DEF ProposeLookup

LEMMA OneEvent ==
    ASSUME NEW e \in Events
    PROVE  <<e>> \in Seq(Events) /\ <<e>> # <<>> /\ Len(<<e>>) = 1 /\ <<e>>[1] = e
  OBVIOUS

LEMMA TwoEvents ==
    ASSUME NEW e \in Events, NEW d \in Events
    PROVE  /\ <<e, d>> \in Seq(Events) /\ <<e, d>> # <<>> /\ Len(<<e, d>>) = 2
           /\ <<e, d>>[1] = e /\ <<e, d>>[2] = d
  OBVIOUS

LEMMA CorruptStep ==
    ASSUME RpcInv, NEW n \in 1..Len(tasks), ProposeCorrupt(n)
    PROVE  HandlerStep(n)
  <1> DEFINE e == [name |-> "corruption", intent |-> tasks[n].ans.intent]
  <1>1. /\ intents' = intents /\ policy' = policy /\ Committed(n, <<e>>, Bad("conflict"))
        /\ intents \in Seq(Intents) /\ policy \in Policies /\ OneIntentPerKey /\ tasks[n] \in Tasks
    BY TaskReq DEF ProposeCorrupt, RpcInv, StoreOK
  <1>2. e \in Events
    <2>1. tasks[n].ans.intent \in Nat
      BY <1>1 DEF Tasks, Answers
    <2> QED
      BY <2>1 DEF Events
  <1> HIDE DEF e
  <1>3. <<e>> \in Seq(Events) /\ <<e>> # <<>>
    BY <1>2, OneEvent
  <1>4. Grown(intents, intents') /\ OneIntentPerKey'
    BY <1>1, SameRows DEF OneIntentPerKey
  <1>5. Bad("conflict") \in Answers /\ TrueTo(tasks[n].req, Bad("conflict"), intents')
    BY BadAnswers DEF ErrorKinds
  <1> QED
    BY <1>1, <1>3, <1>4, <1>5, CommitStep

\* The row of a proposal is typed, and it is the first one with its key.
LEMMA InsertedRow ==
    ASSUME NEW I \in Seq(Intents), NEW r \in ProposeReqs, NEW st \in Statuses
    PROVE  /\ Append(I, NewIntent(r, st)) \in Seq(Intents)
           /\ Len(Append(I, NewIntent(r, st))) = Len(I) + 1
           /\ \A i \in 1..Len(I) : Append(I, NewIntent(r, st))[i] = I[i]
           /\ Append(I, NewIntent(r, st))[Len(I) + 1] = NewIntent(r, st)
           /\ Grown(I, Append(I, NewIntent(r, st)))
           /\ Names(r, Len(I) + 1, Append(I, NewIntent(r, st)))
  <1> DEFINE w == NewIntent(r, st)
  <1>1. /\ w \in Intents /\ w.who = r.who /\ w.key = r.key /\ w.account = r.account
        /\ w.surface = r.surface /\ w.body = r.body
    BY DEF NewIntent, Intents, ProposeReqs
  <1> HIDE DEF w
  <1>2. Append(I, w) \in Seq(Intents) /\ Len(Append(I, w)) = Len(I) + 1 /\ Len(I) \in Nat
        /\ (\A i \in 1..Len(I) : Append(I, w)[i] = I[i]) /\ Append(I, w)[Len(I) + 1] = w
    BY <1>1
  <1>3. Grown(I, Append(I, w))
    BY <1>2 DEF Grown
  <1>4. Names(r, Len(I) + 1, Append(I, w))
    BY <1>1, <1>2 DEF Names
  <1> QED
    BY <1>2, <1>3, <1>4 DEF w

LEMMA GatedStatus ==
    ASSUME NEW who, NEW p
    PROVE  Gated(who, p) \in {"rejected", "recorded", "proposed"} /\ Gated(who, p) \in Statuses
  BY DEF Gated, Statuses

\* What an insert does to the tables.
LEMMA InsertDoes ==
    ASSUME RpcInv, NEW n \in 1..Len(tasks), ProposeInsert(n)
    PROVE  LET r == tasks[n].req
               to == Gated(r.who, tasks[n].read)
               i == Len(intents) + 1
               created == [name |-> "intent", intent |-> i, status |-> "proposed"]
               moved == [name |-> "intent", intent |-> i, status |-> to] IN
           /\ r \in ProposeReqs
           /\ policy' = policy
           /\ \/ Answer(n, Bad("internal")) /\ UNCHANGED <<intents, events>>
              \/ /\ Keyed(r.who, r.key) = {}
                 /\ intents' = Append(intents, NewIntent(r, to))
                 /\ \/ to = "proposed" /\ Committed(n, <<created>>, Good("intent", i))
                    \/ to # "proposed" /\ Committed(n, <<created, moved>>, Good("intent", i))
  <1>1. tasks[n].req \in ProposeReqs
    BY TaskReq, ReqKinds DEF ProposeInsert, At
  <1>2. policy' = policy
    BY DEF ProposeInsert
  <1> QED
    BY <1>1, <1>2 DEF ProposeInsert, IndexRefuses, tx_insert_intent

LEMMA InsertStep ==
    ASSUME RpcInv, NEW n \in 1..Len(tasks), ProposeInsert(n)
    PROVE  HandlerStep(n)
  <1> DEFINE r == tasks[n].req
             to == Gated(r.who, tasks[n].read)
             i == Len(intents) + 1
             created == [name |-> "intent", intent |-> i, status |-> "proposed"]
             moved == [name |-> "intent", intent |-> i, status |-> to]
  <1>0. /\ intents \in Seq(Intents) /\ Len(intents) \in Nat /\ policy \in Policies /\ OneIntentPerKey
        /\ DOMAIN intents = 1..Len(intents)
    BY DEF RpcInv, StoreOK
  <1>1. /\ r \in ProposeReqs
        /\ policy' = policy
        /\ \/ Answer(n, Bad("internal")) /\ UNCHANGED <<intents, events>>
           \/ /\ Keyed(r.who, r.key) = {}
              /\ intents' = Append(intents, NewIntent(r, to))
              /\ \/ to = "proposed" /\ Committed(n, <<created>>, Good("intent", i))
                 \/ to # "proposed" /\ Committed(n, <<created, moved>>, Good("intent", i))
    BY InsertDoes
  <1>2. to \in Statuses /\ i \in Nat
    BY <1>0, GatedStatus
  <1>3. created \in Events /\ moved \in Events
    <2>1. "proposed" \in Statuses
      BY DEF Statuses
    <2> QED
      BY <1>2, <2>1 DEF Events
  <1> HIDE DEF r, to, created, moved
  <1>4. CASE Answer(n, Bad("internal")) /\ UNCHANGED <<intents, events>>
    <2>1. Bad("internal") \in Answers /\ TrueTo(tasks[n].req, Bad("internal"), intents)
      BY BadAnswers DEF ErrorKinds
    <2> QED
      BY <1>1, <1>4, <2>1, AnswerStep
  <1>5. CASE /\ Keyed(r.who, r.key) = {}
             /\ intents' = Append(intents, NewIntent(r, to))
             /\ \/ Committed(n, <<created>>, Good("intent", i))
                \/ Committed(n, <<created, moved>>, Good("intent", i))
    <2>1. /\ intents' \in Seq(Intents) /\ Len(intents') = Len(intents) + 1
          /\ \A k \in 1..Len(intents) : intents'[k] = intents[k]
          /\ intents'[i] = NewIntent(r, to)
          /\ Grown(intents, intents') /\ Names(r, i, intents')
      BY <1>0, <1>1, <1>2, <1>5, InsertedRow
    <2>2. OneIntentPerKey'
      <3> SUFFICES ASSUME NEW j \in 1..Len(intents'), NEW k \in 1..Len(intents'),
                          intents'[j].key # NoKey, intents'[j].key = intents'[k].key,
                          intents'[j].who = intents'[k].who
                   PROVE  j = k
        BY <2>1 DEF OneIntentPerKey
      <3>1. intents'[i].key = r.key /\ intents'[i].who = r.who
        BY <2>1 DEF Names
      <3>2. \A m \in 1..Len(intents) : r.key # NoKey /\ intents[m].key = r.key => intents[m].who # r.who
        BY <1>0, <1>5 DEF Keyed
      <3>3. \A m \in 1..Len(intents') : m = i \/ m \in 1..Len(intents)
        BY <1>0, <2>1
      <3>4. CASE j = i /\ k # i
        BY <2>1, <3>1, <3>2, <3>3, <3>4
      <3>5. CASE k = i /\ j # i
        BY <2>1, <3>1, <3>2, <3>3, <3>5
      <3>6. CASE j # i /\ k # i
        BY <1>0, <2>1, <3>3, <3>6 DEF OneIntentPerKey
      <3> QED
        BY <3>4, <3>5, <3>6
    <2>3. Good("intent", i) \in Answers /\ TrueTo(tasks[n].req, Good("intent", i), intents')
      <3>1. Good("intent", i) \in Answers /\ Good("intent", i).intent = i
        BY <1>2, GoodAnswers
      <3> QED
        BY <2>1, <3>1 DEF TrueTo, r
    <2>4. policy' \in Policies
      BY <1>0, <1>1
    <2>5. CASE Committed(n, <<created>>, Good("intent", i))
      <3>1. <<created>> \in Seq(Events) /\ <<created>> # <<>>
        BY <1>3, OneEvent
      <3> QED
        BY <2>1, <2>2, <2>3, <2>4, <2>5, <3>1, CommitStep
    <2>6. CASE Committed(n, <<created, moved>>, Good("intent", i))
      <3>1. <<created, moved>> \in Seq(Events) /\ <<created, moved>> # <<>>
        BY <1>3, TwoEvents
      <3> QED
        BY <2>1, <2>2, <2>3, <2>4, <2>6, <3>1, CommitStep
    <2> QED
      BY <1>5, <2>5, <2>6
  <1> QED
    BY <1>1, <1>4, <1>5

\* A row changes its status and nothing else.
WithStatus(I, i, st) == [I EXCEPT ![i].status = st]

LEMMA UpdatedRow ==
    ASSUME NEW I \in Seq(Intents), NEW i \in 1..Len(I), NEW st \in Statuses
    PROVE  /\ WithStatus(I, i, st) \in Seq(Intents)
           /\ Len(WithStatus(I, i, st)) = Len(I)
           /\ WithStatus(I, i, st)[i].status = st
           /\ \A k \in 1..Len(I) : k # i => WithStatus(I, i, st)[k] = I[k]
           /\ Grown(I, WithStatus(I, i, st))
           /\ \A k \in 1..Len(I) : /\ WithStatus(I, i, st)[k].key = I[k].key
                                   /\ WithStatus(I, i, st)[k].who = I[k].who
  <1> DEFINE w == [I[i] EXCEPT !.status = st]
             J == [I EXCEPT ![i] = w]
  <1>1. /\ I[i] \in Intents /\ w \in Intents /\ w.status = st /\ w.who = I[i].who /\ w.key = I[i].key
        /\ w.account = I[i].account /\ w.surface = I[i].surface /\ w.body = I[i].body
    <2>1. I[i] \in Intents
      OBVIOUS
    <2> QED
      BY <2>1 DEF Intents
  <1>2. WithStatus(I, i, st) = J
    BY DEF WithStatus
  <1> HIDE DEF w
  <1>3. J \in Seq(Intents) /\ Len(J) = Len(I) /\ Len(I) \in Nat
        /\ \A k \in 1..Len(I) : J[k] = IF k = i THEN w ELSE I[k]
    BY <1>1
  <1> HIDE DEF J
  <1>4. Grown(I, J)
    BY <1>1, <1>3 DEF Grown
  <1>5. \A k \in 1..Len(I) : J[k].key = I[k].key /\ J[k].who = I[k].who
    BY <1>1, <1>3
  <1> QED
    BY <1>1, <1>2, <1>3, <1>4, <1>5

LEMMA RejectWriteStep ==
    ASSUME RpcInv, NEW n \in 1..Len(tasks), RejectWrite(n)
    PROVE  HandlerStep(n)
  <1> DEFINE i == tasks[n].req.target
             e == [name |-> "intent", intent |-> i, status |-> "rejected"]
  <1>0. /\ intents \in Seq(Intents) /\ policy \in Policies /\ OneIntentPerKey
        /\ DOMAIN intents = 1..Len(intents) /\ Len(intents) \in Nat
    BY DEF RpcInv, StoreOK
  <1>1. /\ policy' = policy /\ intents' = WithStatus(intents, i, "rejected")
        /\ Committed(n, <<e>>, Good("intent", i)) /\ tasks[n].req.method = "reject"
    BY DEF RejectWrite, At, tx_update_intent, WithStatus
  <1>2. i \in 1..Len(intents) /\ "rejected" \in Statuses
    BY TaskReq DEF RejectWrite, At, TaskOK, Statuses
  <1>3. e \in Events /\ i \in Nat
    BY <1>0, <1>2 DEF Events
  <1> HIDE DEF i, e
  <1>4. /\ intents' \in Seq(Intents) /\ Len(intents') = Len(intents) /\ Grown(intents, intents')
        /\ \A k \in 1..Len(intents) : /\ intents'[k].key = intents[k].key
                                      /\ intents'[k].who = intents[k].who
    BY <1>0, <1>1, <1>2, UpdatedRow
  <1>5. OneIntentPerKey'
    <2>1. DOMAIN intents' = 1..Len(intents)
      BY <1>4
    <2> QED
      BY <1>0, <1>4, <2>1 DEF OneIntentPerKey
  <1>6. Good("intent", i) \in Answers
    BY <1>3, GoodAnswers
  <1>7. TrueTo(tasks[n].req, Good("intent", i), intents')
    BY <1>1 DEF TrueTo
  <1>8. <<e>> \in Seq(Events) /\ <<e>> # <<>>
    BY <1>3, OneEvent
  <1> QED
    BY <1>0, <1>1, <1>4, <1>5, <1>6, <1>7, <1>8, CommitStep

PolicyEvent(p) == [name |-> "policy", version |-> p.version]
HaltEvent(halted) == [name |-> "halt", halted |-> halted]

LEMMA PolicyEvents ==
    ASSUME NEW p \in Policies
    PROVE  /\ PolicyEvent(p) \in Events /\ HaltEvent(is_halted(p)) \in Events
           /\ HaltEvent(TRUE) \in Events /\ is_halted(p) \in BOOLEAN
  <1>1. is_halted(p) \in BOOLEAN
    BY Zenon DEF is_halted, Policies
  <1>2. p.version \in Nat
    BY DEF Policies
  <1> QED
    BY <1>1, <1>2 DEF PolicyEvent, HaltEvent, Events

LEMMA EmergencyPolicy ==
    ASSUME NEW p \in Policies, NEW mode \in Modes
    PROVE  /\ apply_emergency(p, mode) \in Policies /\ is_halted(apply_emergency(p, mode))
           /\ apply_emergency(p, mode).version = p.version + 1
  <1>1. apply_emergency(p, mode) = [p EXCEPT !.mode = mode, !.stop = TRUE, !.version = p.version + 1]
    BY DEF apply_emergency
  <1>2. p.version + 1 \in Nat /\ TRUE \in BOOLEAN
    BY DEF Policies
  <1> QED
    BY <1>1, <1>2 DEF Policies, is_halted

\* What a write of the policy does.
LEMMA PolicyWriteDoes ==
    ASSUME RpcInv, NEW n \in 1..Len(tasks), PolicySetWrite(n) \/ EmergencyStopWrite(n)
    PROVE  /\ IsPolicy(tasks[n].req) /\ tasks[n].pc = "write"
           /\ intents' = intents /\ policy' \in Policies
           /\ \/ /\ Committed(n, <<PolicyEvent(policy')>>, Good("policy", 0))
                 /\ is_halted(tasks[n].read) = is_halted(policy')
              \/ Committed(n, <<PolicyEvent(policy'), HaltEvent(is_halted(policy'))>>, Good("policy", 0))
              \/ /\ Committed(n, <<HaltEvent(TRUE), PolicyEvent(policy')>>, Good("policy", 0))
                 /\ is_halted(policy')
  <1>0. tasks[n].req \in Reqs /\ tasks[n].read \in Policies
    BY TaskReq
  <1>1. CASE PolicySetWrite(n)
    <2>1. tasks[n].req.method = "set" /\ tasks[n].pc = "write" /\ intents' = intents
          /\ policy' = tasks[n].req.policy
      BY <1>1 DEF PolicySetWrite, At
    <2>2. policy' \in Policies
      BY <1>0, <2>1, ReqKinds DEF SetReqs
    <2>3. CASE is_halted(tasks[n].read) # is_halted(policy')
      BY <1>1, <2>1, <2>2, <2>3 DEF PolicySetWrite, PolicyEvent, HaltEvent, IsPolicy
    <2>4. CASE is_halted(tasks[n].read) = is_halted(policy')
      BY <1>1, <2>1, <2>2, <2>4 DEF PolicySetWrite, PolicyEvent, HaltEvent, IsPolicy
    <2> QED
      BY <2>3, <2>4
  <1>2. CASE EmergencyStopWrite(n)
    <2>1. /\ tasks[n].req.method = "stop" /\ tasks[n].pc = "write" /\ intents' = intents
          /\ policy' = apply_emergency(tasks[n].read, tasks[n].req.mode)
          /\ Committed(n, <<HaltEvent(TRUE), PolicyEvent(policy')>>, Good("policy", 0))
      BY <1>2 DEF EmergencyStopWrite, At, HaltEvent, PolicyEvent
    <2>2. tasks[n].req.mode \in Modes
      BY <1>0, <2>1, ReqKinds DEF StopReqs
    <2>3. policy' \in Policies /\ is_halted(policy')
      BY <1>0, <2>1, <2>2, EmergencyPolicy
    <2> QED
      BY <2>1, <2>3 DEF IsPolicy
  <1> QED
    BY <1>1, <1>2

LEMMA PolicyWriteStep ==
    ASSUME RpcInv, NEW n \in 1..Len(tasks), PolicySetWrite(n) \/ EmergencyStopWrite(n)
    PROVE  HandlerStep(n)
  <1> DEFINE e == PolicyEvent(policy')
             h == HaltEvent(is_halted(policy'))
             g == HaltEvent(TRUE)
             a == Good("policy", 0)
  <1>0. intents \in Seq(Intents) /\ OneIntentPerKey
    BY DEF RpcInv, StoreOK
  <1>1. /\ IsPolicy(tasks[n].req) /\ intents' = intents /\ policy' \in Policies
        /\ Committed(n, <<e>>, a) \/ Committed(n, <<e, h>>, a) \/ Committed(n, <<g, e>>, a)
    BY PolicyWriteDoes
  <1>2. e \in Events /\ h \in Events /\ g \in Events
    BY <1>1, PolicyEvents
  <1>3. Grown(intents, intents') /\ OneIntentPerKey' /\ intents' \in Seq(Intents)
    BY <1>0, <1>1, SameRows DEF OneIntentPerKey
  <1>4. a \in Answers
    BY GoodAnswers
  <1>5. TrueTo(tasks[n].req, a, intents')
    BY <1>1 DEF TrueTo, IsPolicy
  <1> HIDE DEF e, h, g, a
  <1>6. /\ <<e>> \in Seq(Events) /\ <<e>> # <<>>
        /\ <<e, h>> \in Seq(Events) /\ <<e, h>> # <<>>
        /\ <<g, e>> \in Seq(Events) /\ <<g, e>> # <<>>
    BY <1>2, OneEvent, TwoEvents
  <1>7. CASE Committed(n, <<e>>, a)
    BY <1>1, <1>3, <1>4, <1>5, <1>6, <1>7, CommitStep
  <1>8. CASE Committed(n, <<e, h>>, a)
    BY <1>1, <1>3, <1>4, <1>5, <1>6, <1>8, CommitStep
  <1>9. CASE Committed(n, <<g, e>>, a)
    BY <1>1, <1>3, <1>4, <1>5, <1>6, <1>9, CommitStep
  <1> QED
    BY <1>1, <1>7, <1>8, <1>9

LEMMA HandleKeeps ==
    ASSUME RpcInv, NEW n \in 1..Len(tasks), handle(n)
    PROVE  RpcInv'
  <1>1. HandlerStep(n)
    BY ReadersStep, LookupStep, CorruptStep, InsertStep, RejectWriteStep, PolicyWriteStep
       DEF handle, Handle
  <1> QED
    BY <1>1, HandlerStepKeeps DEF handle

(***************************************************************************)
(* Steps that leave the database alone                                     *)
(***************************************************************************)

LEMMA StoreStays ==
    ASSUME RpcInv, UNCHANGED <<policy, intents, events>>
    PROVE  /\ StoreOK' /\ intents' \in Seq(Intents) /\ Grown(intents, intents')
           /\ events' \in Seq(Events) /\ Len(events) <= Len(events') /\ Len(events) \in Nat
           /\ intents \in Seq(Intents)
  <1>1. intents \in Seq(Intents) /\ events \in Seq(Events) /\ Len(events) \in Nat
    BY DEF RpcInv, StoreOK
  <1>2. StoreOK'
    BY DEF RpcInv, StoreOK, OneIntentPerKey
  <1> QED
    BY <1>1, <1>2, SameRows

\* And the calls: everything that is not touched stays as it should be.
LEMMA QuietStays ==
    ASSUME RpcInv, UNCHANGED <<policy, intents, events, calls>>
    PROVE  /\ StoreOK' /\ CallsOK'
           /\ toClient' = toClient => FramesOK'
           /\ fwd' = fwd => ForwardersOK'
           /\ tasks' = tasks => TasksOK'
           /\ queue' = queue /\ toServer' = toServer => IdsOK'
           /\ tasks' = tasks /\ origin' = origin => OriginOK'
           /\ sub' = sub /\ got' = got => SubOK'
           /\ script' = script /\ sock' = sock /\ conn' = conn /\ budget' = budget => ClientOK'
  <1>1. calls' \in Seq(Calls) /\ Made(calls, calls')
    BY SameCalls DEF RpcInv, CallsOK
  <1>2. /\ StoreOK' /\ intents' \in Seq(Intents) /\ Grown(intents, intents')
        /\ events' \in Seq(Events) /\ Len(events) <= Len(events')
    BY StoreStays
  <1>3. script' = script /\ sock' = sock /\ conn' = conn /\ budget' = budget => ClientOK'
    BY DEF RpcInv, ClientOK
  <1> QED
    BY <1>1, <1>2, <1>3, UntouchedStays

LEMMA PublishKeeps ==
    ASSUME RpcInv, NEW n \in 1..Len(tasks), publish(n)
    PROVE  RpcInv'
  <1> DEFINE t == tasks[n]
             seq == Head(t.out)
             rest == Tail(t.out)
             pc == IF rest = <<>> THEN "answer" ELSE "publish"
             u == [t EXCEPT !.out = rest, !.pc = pc]
             v == [k \in DOMAIN fwd |-> [fwd[k] EXCEPT !.live = Push(fwd[k].live, seq)]]
  <1>0. /\ t \in Tasks /\ TaskOK(t, intents, Len(events)) /\ tasks \in Seq(Tasks)
        /\ t.out \in Seq(Nat) /\ t.out # <<>> /\ t.pc = "publish"
    <2>1. t \in Tasks /\ TaskOK(t, intents, Len(events)) /\ t.pc = "publish"
      BY TaskReq DEF publish
    <2> QED
      BY <2>1 DEF RpcInv, TasksOK, TaskOK, Tasks
  <1>1. /\ UNCHANGED <<policy, intents, events, calls>> /\ origin' = origin /\ toClient' = toClient
        /\ queue' = queue /\ toServer' = toServer /\ sub' = sub /\ got' = got
        /\ script' = script /\ sock' = sock /\ conn' = conn /\ budget' = budget
    BY DEF publish, clientVars
  <1>2. tasks' = [tasks EXCEPT ![n] = u] /\ fwd' = v
    BY <1>0 DEF publish, Tasks
  <1>3. /\ rest \in Seq(Nat) /\ seq = t.out[1] /\ Len(t.out) \in Nat \ {0} /\ Len(rest) = Len(t.out) - 1
        /\ \A k \in 1..Len(rest) : rest[k] = t.out[k + 1]
    BY <1>0
  <1>4. seq \in 1..Len(events) /\ seq \in Nat /\ \A k \in 1..Len(rest) : rest[k] \in 1..Len(events)
    <2>1. \A k \in 1..Len(t.out) : t.out[k] \in 1..Len(events)
      BY <1>0 DEF TaskOK
    <2>2. Len(events) \in Nat
      BY DEF RpcInv, StoreOK
    <2> HIDE DEF t, seq, rest
    <2>3. 1 \in 1..Len(t.out) /\ \A k \in 1..Len(rest) : k + 1 \in 1..Len(t.out)
      BY <1>3
    <2>4. seq \in 1..Len(events) /\ seq \in Nat
      <3>1. seq \in 1..Len(events)
        BY <1>3, <2>1, <2>3
      <3> QED
        BY <2>2, <3>1
    <2>5. ASSUME NEW k \in 1..Len(rest) PROVE rest[k] \in 1..Len(events)
      <3>1. k + 1 \in 1..Len(t.out)
        BY <2>3
      <3> QED
        BY <1>3, <2>1, <3>1
    <2> QED
      BY <2>4, <2>5
  <1>5. pc \in {"answer", "publish"} /\ (pc = "publish" => rest # <<>>)
    OBVIOUS
  <1> HIDE DEF rest, pc, seq
  <1>6. u \in Tasks /\ u.req = t.req /\ u.out = rest /\ u.pc = pc /\ u.ans = t.ans
    BY <1>0, <1>3, <1>5 DEF Tasks, Pcs
  <1> HIDE DEF u
  <1>7. TaskOK(u, intents, Len(events))
    BY <1>0, <1>4, <1>5, <1>6 DEF TaskOK
  <1>8. TasksOK' /\ OriginOK'
    <2>1. TaskOK(u, intents', Len(events'))
      BY <1>1, <1>7
    <2> QED
      BY <1>1, <1>2, <1>6, <2>1, StoreStays, OneTaskKeeps
  <1>9. ForwardersOK'
    <2>1. fwd \in Seq(Forwarders) /\ DOMAIN fwd = 1..Len(fwd) /\ Len(fwd) \in Nat
      BY DEF RpcInv, ForwardersOK
    <2>2. ASSUME NEW k \in 1..Len(fwd)
          PROVE  v[k] \in Forwarders /\ ForwarderOK(v[k], Len(events))
      <3> DEFINE w == fwd[k]
                 l == Push(w.live, seq)
      <3>1. w \in Forwarders /\ ForwarderOK(w, Len(events))
        BY DEF RpcInv, ForwardersOK
      <3>2. w.live \in Seq(Nat) /\ Len(w.live) \in Nat
            /\ \A j \in 1..Len(w.live) : w.live[j] \in 1..Len(events)
        BY <3>1 DEF Forwarders, ForwarderOK
      <3>3. l \in Seq(Nat) /\ \A j \in 1..Len(l) : l[j] \in 1..Len(events)
        <4>1. CASE Len(w.live) < BusCap
          <5>1. l = Append(w.live, seq)
            BY <4>1 DEF Push
          <5> QED
            BY <1>4, <3>2, <5>1
        <4>2. CASE ~(Len(w.live) < BusCap)
          <5>1. l = Append(Tail(w.live), seq)
            BY <4>2 DEF Push
          <5>2. w.live # <<>>
            BY <3>2, <4>2, LimitsAssumption
          <5>3. /\ Tail(w.live) \in Seq(Nat) /\ Len(Tail(w.live)) = Len(w.live) - 1
                /\ \A j \in 1..Len(Tail(w.live)) : Tail(w.live)[j] = w.live[j + 1]
            BY <3>2, <5>2
          <5>4. \A j \in 1..Len(Tail(w.live)) : Tail(w.live)[j] \in 1..Len(events)
            BY <3>2, <5>3
          <5> QED
            BY <1>4, <5>1, <5>3, <5>4
        <4> QED
          BY <4>1, <4>2
      <3>4. v[k] = [w EXCEPT !.live = l]
        BY <2>1
      <3> HIDE DEF w, l, v
      <3>5. v[k] \in Forwarders /\ v[k].live = l
        BY <3>1, <3>3, <3>4 DEF Forwarders
      <3> QED
        BY <3>3, <3>5 DEF ForwarderOK
    <2>3. v \in Seq(Forwarders) /\ Len(v) = Len(fwd)
      <3>1. v \in [1..Len(fwd) -> Forwarders]
        BY <2>1, <2>2
      <3> HIDE DEF v
      <3> QED
        BY <2>1, <3>1
    <2> HIDE DEF v
    <2> QED
      BY <1>1, <1>2, <2>2, <2>3 DEF ForwardersOK
  <1>10. StoreOK' /\ CallsOK' /\ FramesOK' /\ IdsOK' /\ SubOK' /\ ClientOK'
    BY <1>1, QuietStays
  <1> QED
    BY <1>8, <1>9, <1>10 DEF RpcInv

LEMMA AnswerKeeps ==
    ASSUME RpcInv, NEW n \in 1..Len(tasks), answer(n)
    PROVE  RpcInv'
  <1> DEFINE t == tasks[n]
             u == [t EXCEPT !.pc = "done"]
             f == Reply(origin[n].id, t.ans)
  <1>0. /\ t \in Tasks /\ TaskOK(t, intents, Len(events)) /\ tasks \in Seq(Tasks) /\ t.pc = "answer"
    BY TaskReq DEF answer, RpcInv, TasksOK
  <1>1. /\ UNCHANGED <<policy, intents, events, calls>> /\ origin' = origin /\ fwd' = fwd
        /\ queue' = queue /\ toServer' = toServer /\ sub' = sub /\ got' = got
        /\ script' = script /\ sock' = sock /\ conn' = conn /\ budget' = budget
    BY DEF answer, clientVars
  <1>2. /\ tasks' = [tasks EXCEPT ![n] = u]
        /\ toClient' = toClient \/ toClient' = Append(toClient, f)
    BY <1>0 DEF answer, Tasks
  <1>3. TaskOK(u, intents, Len(events)) /\ u.req = t.req
    <2>1. u \in Tasks /\ u.req = t.req /\ u.out = t.out /\ u.pc = "done"
      BY <1>0 DEF Tasks, Pcs
    <2> HIDE DEF u
    <2>2. TaskOK(u, intents, Len(events))
      BY <1>0, <2>1 DEF TaskOK
    <2> QED
      BY <2>1, <2>2
  <1> HIDE DEF u
  <1>4. TasksOK' /\ OriginOK'
    <2>1. TaskOK(u, intents', Len(events'))
      BY <1>1, <1>3
    <2> QED
      BY <1>1, <1>2, <1>3, <2>1, StoreStays, OneTaskKeeps
  <1>5. FrameOK(f, calls, intents, Len(events))
    <2>1. origin[n].id \in 1..Len(calls) /\ t.req = calls[origin[n].id].frame
      BY DEF RpcInv, OriginOK
    <2>2. t.ans \in Answers /\ TrueTo(t.req, t.ans, intents)
      BY <1>0 DEF TaskOK, Tasks
    <2>3. origin[n].id \in Nat
      <3>1. Len(calls) \in Nat
        BY DEF RpcInv, CallsOK
      <3> QED
        BY <2>1, <3>1
    <2>4. f \in Frames /\ f.reply /\ f.id = origin[n].id /\ f.ans = t.ans
      BY <2>2, <2>3 DEF Frames, Reply
    <2> HIDE DEF f
    <2> QED
      BY <2>1, <2>2, <2>4 DEF FrameOK
  <1> HIDE DEF f
  <1>6. FramesOK'
    <2>1. CASE toClient' = toClient
      BY <1>1, <2>1, QuietStays
    <2>2. CASE toClient' = Append(toClient, f)
      <3>1. toClient \in Seq(Frames) /\ f \in Frames
        BY <1>5 DEF RpcInv, FramesOK, FrameOK
      <3>2. /\ toClient' \in Seq(Frames) /\ Len(toClient') = Len(toClient) + 1 /\ Len(toClient) \in Nat
            /\ \A k \in 1..Len(toClient) : toClient'[k] = toClient[k]
            /\ toClient'[Len(toClient) + 1] = f
        BY <2>2, <3>1
      <3>3. \A k \in 1..Len(toClient') : FrameOK(toClient'[k], calls, intents, Len(events))
        BY <1>5, <3>2 DEF RpcInv, FramesOK
      <3> QED
        BY <1>1, <3>2, <3>3 DEF FramesOK
    <2> QED
      BY <1>2, <2>1, <2>2
  <1>7. StoreOK' /\ CallsOK' /\ ForwardersOK' /\ IdsOK' /\ SubOK' /\ ClientOK'
    BY <1>1, QuietStays
  <1> QED
    BY <1>4, <1>6, <1>7 DEF RpcInv

LEMMA FunctionIsSeq ==
    ASSUME NEW S, NEW n \in Nat, NEW f \in [1..n -> S]
    PROVE  f \in Seq(S) /\ Len(f) = n
  OBVIOUS

LEMMA Concatenated ==
    ASSUME NEW S, NEW s \in Seq(S), NEW t \in Seq(S)
    PROVE  /\ s \o t \in Seq(S) /\ Len(s \o t) = Len(s) + Len(t) /\ Len(s) \in Nat /\ Len(t) \in Nat
           /\ \A j \in 1..(Len(s) + Len(t)) : (s \o t)[j] = IF j <= Len(s) THEN s[j] ELSE t[j - Len(s)]
  OBVIOUS

LEMMA AppendConcat ==
    ASSUME NEW S, NEW s \in Seq(S), NEW e \in S
    PROVE  Append(s, e) = s \o <<e>>
  OBVIOUS

LEMMA NotifyOK ==
    ASSUME NEW C, NEW I, NEW e \in Nat, NEW s \in 1..e
    PROVE  FrameOK(Notify(s), C, I, e) /\ Notify(s) \in Frames
  <1>1. NoAnswer \in Answers
    BY DEF NoAnswer, Answers
  <1>2. Notify(s) \in Frames /\ Notify(s).reply = FALSE /\ Notify(s).id = s
    BY <1>1 DEF Notify, Frames
  <1> QED
    BY <1>2 DEF FrameOK

\* Forwarder k sends the events numbered send and goes on as w.
LEMMA ForwardKeeps ==
    ASSUME RpcInv, NEW k \in 1..Len(fwd), NEW w, ForwarderOK(w, Len(events)),
           NEW send \in Seq(Nat), \A j \in 1..Len(send) : send[j] \in 1..Len(events),
           fwd' = [fwd EXCEPT ![k] = w],
           toClient' = toClient \o [j \in 1..Len(send) |-> Notify(send[j])],
           UNCHANGED <<execdVars, clientVars, toServer, origin>>
    PROVE  RpcInv'
  <1> DEFINE fs == [j \in 1..Len(send) |-> Notify(send[j])]
  <1>1. /\ UNCHANGED <<policy, intents, events, calls>> /\ origin' = origin /\ tasks' = tasks
        /\ queue' = queue /\ toServer' = toServer /\ sub' = sub /\ got' = got
        /\ script' = script /\ sock' = sock /\ conn' = conn /\ budget' = budget
    BY DEF execdVars, clientVars
  <1>2. Len(events) \in Nat /\ Len(send) \in Nat
    BY DEF RpcInv, StoreOK
  <1>3. \A j \in 1..Len(send) : fs[j] = Notify(send[j]) /\ fs[j] \in Frames
                                /\ FrameOK(fs[j], calls, intents, Len(events))
    BY <1>2, NotifyOK
  <1>4. fs \in Seq(Frames) /\ Len(fs) = Len(send)
    <2>1. fs \in [1..Len(send) -> Frames]
      BY <1>3
    <2> HIDE DEF fs
    <2> QED
      BY <1>2, <2>1, FunctionIsSeq
  <1>5. toClient' = toClient \o fs
    OBVIOUS
  <1> HIDE DEF fs
  <1>6. FramesOK'
    <2>1. toClient \in Seq(Frames)
          /\ \A j \in 1..Len(toClient) : FrameOK(toClient[j], calls, intents, Len(events))
      BY DEF RpcInv, FramesOK
    <2>2. /\ toClient' \in Seq(Frames) /\ Len(toClient') = Len(toClient) + Len(fs) /\ Len(toClient) \in Nat
          /\ \A j \in 1..Len(toClient') : toClient'[j] = IF j <= Len(toClient) THEN toClient[j]
                                                        ELSE fs[j - Len(toClient)]
      <3>1. /\ toClient \o fs \in Seq(Frames) /\ Len(toClient \o fs) = Len(toClient) + Len(fs)
            /\ Len(toClient) \in Nat /\ Len(fs) \in Nat
            /\ \A j \in 1..(Len(toClient) + Len(fs)) :
                 (toClient \o fs)[j] = IF j <= Len(toClient) THEN toClient[j] ELSE fs[j - Len(toClient)]
        BY <1>4, <2>1, Concatenated
      <3> QED
        BY <1>5, <3>1
    <2>3. ASSUME NEW j \in 1..Len(toClient')
          PROVE  FrameOK(toClient'[j], calls, intents, Len(events))
      <3>1. CASE j <= Len(toClient)
        BY <2>1, <2>2, <3>1
      <3>2. CASE ~(j <= Len(toClient))
        <4>1. j - Len(toClient) \in 1..Len(send)
          BY <1>2, <1>4, <2>2, <3>2
        <4> QED
          BY <1>3, <2>2, <3>2, <4>1
      <3> QED
        BY <3>1, <3>2
    <2> QED
      BY <1>1, <2>2, <2>3 DEF FramesOK
  <1>7. ForwardersOK'
    <2>1. fwd \in Seq(Forwarders) /\ w \in Forwarders
      BY DEF RpcInv, ForwardersOK, ForwarderOK
    <2>2. fwd' \in Seq(Forwarders) /\ Len(fwd') = Len(fwd)
          /\ \A j \in 1..Len(fwd) : fwd'[j] = IF j = k THEN w ELSE fwd[j]
      BY <2>1
    <2> QED
      BY <1>1, <2>2 DEF RpcInv, ForwardersOK
  <1>8. StoreOK' /\ CallsOK' /\ TasksOK' /\ OriginOK' /\ IdsOK' /\ SubOK' /\ ClientOK'
    BY <1>1, QuietStays
  <1> QED
    BY <1>6, <1>7, <1>8 DEF RpcInv

LEMMA ReplayKeeps ==
    ASSUME RpcInv, NEW k \in 1..Len(fwd), replay(k)
    PROVE  RpcInv'
  <1> DEFINE w == fwd[k]
  <1>0. /\ fwd \in Seq(Forwarders) /\ w \in Forwarders /\ ForwarderOK(w, Len(events))
        /\ Len(events) \in Nat /\ toClient \in Seq(Frames)
        /\ UNCHANGED <<execdVars, clientVars, toServer, origin>>
    BY DEF RpcInv, ForwardersOK, FramesOK, StoreOK, replay
  <1>1. CASE /\ w.last < Len(events)
             /\ toClient' = Append(toClient, Notify(w.last + 1))
             /\ fwd' = [fwd EXCEPT ![k].last = @ + 1]
    <2> DEFINE s == w.last + 1
               x == [w EXCEPT !.last = s]
    <2>1. s \in 1..Len(events) /\ s \in Nat
      BY <1>0, <1>1 DEF Forwarders
    <2>2. fwd' = [fwd EXCEPT ![k] = x]
      BY <1>0, <1>1 DEF Forwarders
    <2>3. x \in Forwarders /\ x.live = w.live
      BY <1>0, <2>1 DEF Forwarders
    <2>4. toClient' = Append(toClient, Notify(s))
      BY <1>1
    <2> HIDE DEF s, x
    <2>5. ForwarderOK(x, Len(events))
      BY <1>0, <2>3 DEF ForwarderOK
    <2>6. <<s>> \in Seq(Nat) /\ Len(<<s>>) = 1 /\ \A j \in 1..Len(<<s>>) : <<s>>[j] \in 1..Len(events)
      BY <2>1
    <2>7. toClient' = toClient \o [j \in 1..Len(<<s>>) |-> Notify(<<s>>[j])]
      <3>1. Notify(s) \in Frames
        BY <1>0, <2>1, NotifyOK
      <3>2. [j \in 1..Len(<<s>>) |-> Notify(<<s>>[j])] = <<Notify(s)>>
        OBVIOUS
      <3> QED
        BY <1>0, <2>4, <3>1, <3>2, AppendConcat
    <2> QED
      BY <1>0, <2>2, <2>5, <2>6, <2>7, ForwardKeeps
  <1>2. CASE toClient' = toClient /\ fwd' = [fwd EXCEPT ![k].phase = "live"]
    <2> DEFINE x == [w EXCEPT !.phase = "live"]
    <2>1. x \in Forwarders /\ x.live = w.live
      BY <1>0 DEF Forwarders
    <2>2. fwd' = [fwd EXCEPT ![k] = x]
      BY <1>0, <1>2 DEF Forwarders
    <2> HIDE DEF x
    <2>3. ForwarderOK(x, Len(events))
      BY <1>0, <2>1 DEF ForwarderOK
    <2>4. <<>> \in Seq(Nat) /\ \A j \in 1..Len(<<>>) : <<>>[j] \in 1..Len(events)
      OBVIOUS
    <2>5. toClient' = toClient \o [j \in 1..Len(<<>>) |-> Notify(<<>>[j])]
      <3>1. [j \in 1..Len(<<>>) |-> Notify(<<>>[j])] = <<>>
        OBVIOUS
      <3> QED
        BY <1>0, <1>2, <3>1
    <2> QED
      BY <1>0, <2>2, <2>3, <2>4, <2>5, ForwardKeeps
  <1> QED
    BY <1>1, <1>2 DEF replay

\* A page of the hole and the event itself are in the log.
LEMMA ToSendInLog ==
    ASSUME events \in Seq(Events), NEW last \in Nat, NEW s \in 1..Len(events)
    PROVE  /\ ToSend(last, s) \in Seq(Nat)
           /\ \A j \in 1..Len(ToSend(last, s)) : ToSend(last, s)[j] \in 1..Len(events)
  <1> DEFINE len == IF Len(events) - last < Page THEN Len(events) - last ELSE Page
             fill == IF s > last + 1 THEN [j \in 1..len |-> last + j] ELSE <<>>
  <1>0. Len(events) \in Nat /\ Page \in Nat
    BY LimitsAssumption
  <1>1. ASSUME s > last
        PROVE  fill \in Seq(Nat) /\ \A j \in 1..Len(fill) : fill[j] \in 1..Len(events)
    <2>1. len \in Nat /\ last + len <= Len(events)
      BY <1>0, <1>1
    <2> HIDE DEF len
    <2>2. CASE s > last + 1
      <3>1. fill = [j \in 1..len |-> last + j]
        BY <2>2
      <3>2. fill \in Seq(Nat) /\ Len(fill) = len /\ \A j \in 1..len : fill[j] = last + j
        BY <2>1, <3>1
      <3> QED
        BY <1>0, <2>1, <3>2
    <2>3. CASE ~(s > last + 1)
      BY <2>3
    <2> QED
      BY <2>2, <2>3
  <1>2. CASE s <= last
    BY <1>2 DEF ToSend
  <1>3. CASE ~(s <= last)
    <2>1. s > last
      BY <1>0, <1>3
    <2>2. ToSend(last, s) = fill \/ ToSend(last, s) = Append(fill, s)
      BY <1>3 DEF ToSend
    <2> HIDE DEF fill
    <2>3. fill \in Seq(Nat) /\ \A j \in 1..Len(fill) : fill[j] \in 1..Len(events)
      BY <1>1, <2>1
    <2>4. /\ Append(fill, s) \in Seq(Nat) /\ Len(Append(fill, s)) = Len(fill) + 1 /\ Len(fill) \in Nat
          /\ \A j \in 1..Len(fill) : Append(fill, s)[j] = fill[j]
          /\ Append(fill, s)[Len(fill) + 1] = s
      BY <1>0, <2>3
    <2>5. \A j \in 1..Len(Append(fill, s)) : Append(fill, s)[j] \in 1..Len(events)
      <3>1. \A j \in 1..Len(Append(fill, s)) : j \in 1..Len(fill) \/ j = Len(fill) + 1
        BY <2>4
      <3> QED
        BY <2>3, <2>4, <3>1
    <2>6. CASE ToSend(last, s) = fill
      BY <2>3, <2>6
    <2>7. CASE ToSend(last, s) = Append(fill, s)
      BY <2>4, <2>5, <2>7
    <2> QED
      BY <2>2, <2>6, <2>7
  <1> QED
    BY <1>2, <1>3

LEMMA FollowKeeps ==
    ASSUME RpcInv, NEW k \in 1..Len(fwd), follow(k)
    PROVE  RpcInv'
  <1> DEFINE w == fwd[k]
             s == Head(w.live)
             send == ToSend(w.last, s)
             last == IF send = <<>> THEN w.last ELSE send[Len(send)]
             x == [w EXCEPT !.live = Tail(w.live), !.last = last]
  <1>0. /\ fwd \in Seq(Forwarders) /\ w \in Forwarders /\ ForwarderOK(w, Len(events))
        /\ events \in Seq(Events) /\ Len(events) \in Nat /\ toClient \in Seq(Frames)
        /\ UNCHANGED <<execdVars, clientVars, toServer, origin>>
        /\ w.live # <<>>
    BY DEF RpcInv, ForwardersOK, FramesOK, StoreOK, follow
  <1>1. w.live \in Seq(Nat) /\ w.last \in Nat /\ \A j \in 1..Len(w.live) : w.live[j] \in 1..Len(events)
    BY <1>0 DEF Forwarders, ForwarderOK
  <1>2. /\ s = w.live[1] /\ s \in 1..Len(events) /\ Tail(w.live) \in Seq(Nat)
        /\ Len(Tail(w.live)) = Len(w.live) - 1
        /\ \A j \in 1..Len(Tail(w.live)) : Tail(w.live)[j] = w.live[j + 1]
    BY <1>0, <1>1
  <1>3. \A j \in 1..Len(Tail(w.live)) : Tail(w.live)[j] \in 1..Len(events)
    BY <1>1, <1>2
  <1>4. send \in Seq(Nat) /\ \A j \in 1..Len(send) : send[j] \in 1..Len(events)
    BY <1>0, <1>1, <1>2, ToSendInLog
  <1>5. /\ toClient' = toClient \o [j \in 1..Len(send) |-> Notify(send[j])]
        /\ fwd' = [fwd EXCEPT ![k] = x]
    BY <1>0 DEF follow, Forwarders
  <1> HIDE DEF send
  <1>6. last \in Nat
    BY <1>1, <1>4
  <1> HIDE DEF last, s
  <1>7. x \in Forwarders /\ x.live = Tail(w.live)
    BY <1>0, <1>2, <1>6 DEF Forwarders
  <1> HIDE DEF x
  <1>8. ForwarderOK(x, Len(events))
    BY <1>3, <1>7 DEF ForwarderOK
  <1> QED
    BY <1>0, <1>4, <1>5, <1>8, ForwardKeeps

LEMMA ReceivedOK ==
    ASSUME NEW r \in Reqs, NEW I, NEW e \in Nat
    PROVE  /\ Received(r) \in Tasks /\ TaskOK(Received(r), I, e)
           /\ Received(r).req = r /\ Received(r).pc = "start"
  <1>1. default_policy \in Policies
    BY DEF default_policy, Policies, Modes, Authorities
  <1>2. NoAnswer \in Answers /\ <<>> \in Seq(Nat) /\ "start" \in Pcs
    BY DEF NoAnswer, Answers, Pcs
  <1>3. Received(r) \in Tasks /\ Received(r).req = r /\ Received(r).pc = "start" /\ Received(r).out = <<>>
    BY <1>1, <1>2 DEF Received, Tasks
  <1> HIDE DEF Received
  <1> QED
    BY <1>3 DEF TaskOK

LEMMA RequestKinds ==
    ASSUME NEW f \in Requests
    PROVE  /\ f.method = "subscribe" => f.since \in Nat
           /\ f.method # "subscribe" => f \in Reqs
  <1>1. CASE f \in Reqs
    BY <1>1, ReqKinds
  <1>2. CASE f \in [method : {"subscribe"}, since : Nat]
    BY <1>2
  <1> QED
    BY <1>1, <1>2 DEF Requests

LEMMA ServerReadsKeeps ==
    ASSUME RpcInv, serverReads
    PROVE  RpcInv'
  <1> DEFINE id == Head(toServer)
             f == calls[id].frame
  <1>0. /\ toServer \in Seq(Nat) /\ toServer # <<>> /\ toServer' = Tail(toServer)
        /\ \A k \in 1..Len(toServer) : toServer[k] \in 1..Len(calls)
        /\ calls \in Seq(Calls) /\ Len(calls) \in Nat
        /\ queue \in Seq(Nat) /\ \A k \in 1..Len(queue) : queue[k] \in 1..Len(calls)
    BY DEF RpcInv, IdsOK, CallsOK, serverReads
  <1>1. /\ UNCHANGED <<policy, intents, events, calls>> /\ toClient' = toClient
        /\ queue' = queue /\ sub' = sub /\ got' = got
        /\ script' = script /\ sock' = sock /\ conn' = conn /\ budget' = budget
    BY DEF serverReads, clientVars
  <1>2. /\ id = toServer[1] /\ Tail(toServer) \in Seq(Nat) /\ Len(Tail(toServer)) = Len(toServer) - 1
        /\ \A k \in 1..Len(Tail(toServer)) : Tail(toServer)[k] = toServer[k + 1]
        /\ Len(toServer) \in Nat \ {0}
    BY <1>0
  <1>3. id \in 1..Len(calls)
    BY <1>0, <1>2
  <1>4. f \in Requests
    <2>1. calls[id] \in Calls
      BY <1>0, <1>3
    <2> QED
      BY <2>1 DEF Calls
  <1>5. IdsOK'
    <2>1. \A k \in 1..Len(Tail(toServer)) : Tail(toServer)[k] \in 1..Len(calls)
      BY <1>0, <1>2
    <2> QED
      BY <1>0, <1>1, <1>2, <2>1 DEF IdsOK
  <1>6. StoreOK' /\ CallsOK' /\ FramesOK' /\ SubOK' /\ ClientOK'
    BY <1>1, QuietStays
  <1>7. Len(events) \in Nat
    BY DEF RpcInv, StoreOK
  <1>8. CASE /\ f.method = "subscribe"
             /\ fwd' = Append(fwd, [last |-> f.since, phase |-> "replay", live |-> <<>>])
             /\ UNCHANGED <<tasks, origin>>
    <2> DEFINE w == [last |-> f.since, phase |-> "replay", live |-> <<>>]
    <2>1. w \in Forwarders /\ w.live = <<>>
      <3>1. f.since \in Nat /\ <<>> \in Seq(Nat)
        BY <1>4, <1>8, RequestKinds
      <3> QED
        BY <3>1 DEF Forwarders
    <2>2. fwd' = Append(fwd, w)
      BY <1>8
    <2> HIDE DEF w
    <2>3. ForwarderOK(w, Len(events))
      BY <2>1 DEF ForwarderOK
    <2>4. fwd \in Seq(Forwarders) /\ \A k \in 1..Len(fwd) : ForwarderOK(fwd[k], Len(events))
      BY DEF RpcInv, ForwardersOK
    <2>5. /\ fwd' \in Seq(Forwarders) /\ Len(fwd') = Len(fwd) + 1 /\ Len(fwd) \in Nat
          /\ \A k \in 1..Len(fwd) : fwd'[k] = fwd[k]
          /\ fwd'[Len(fwd) + 1] = w
      BY <2>1, <2>2, <2>4
    <2>6. ForwardersOK'
      BY <1>1, <2>3, <2>4, <2>5 DEF ForwardersOK
    <2>7. TasksOK' /\ OriginOK'
      BY <1>1, <1>8, QuietStays
    <2> QED
      BY <1>5, <1>6, <2>6, <2>7 DEF RpcInv
  <1>9. CASE /\ f.method # "subscribe"
             /\ tasks' = Append(tasks, Received(f))
             /\ origin' = Append(origin, [id |-> id, conn |-> conn])
             /\ UNCHANGED fwd
    <2> DEFINE u == Received(f)
               o == [id |-> id, conn |-> conn]
    <2>1. u \in Tasks /\ TaskOK(u, intents, Len(events)) /\ u.req = f
      BY <1>4, <1>7, <1>9, RequestKinds, ReceivedOK
    <2>2. o \in [id : Nat, conn : Nat] /\ o.id = id
      <3>1. id \in Nat /\ conn \in Nat
        BY <1>0, <1>3 DEF RpcInv, ClientOK
      <3> QED
        BY <3>1
    <2> HIDE DEF u, o
    <2>3. /\ tasks \in Seq(Tasks) /\ origin \in Seq([id : Nat, conn : Nat]) /\ Len(origin) = Len(tasks)
      BY DEF RpcInv, TasksOK, OriginOK
    <2>4. /\ tasks' \in Seq(Tasks) /\ Len(tasks') = Len(tasks) + 1 /\ Len(tasks) \in Nat
          /\ \A k \in 1..Len(tasks) : tasks'[k] = tasks[k]
          /\ tasks'[Len(tasks) + 1] = u
      BY <1>9, <2>1, <2>3 DEF u
    <2>5. /\ origin' \in Seq([id : Nat, conn : Nat]) /\ Len(origin') = Len(tasks) + 1
          /\ \A k \in 1..Len(tasks) : origin'[k] = origin[k]
          /\ origin'[Len(tasks) + 1] = o
      <3>1. origin' = Append(origin, o)
        BY <1>9 DEF o
      <3> QED
        BY <2>2, <2>3, <3>1
    <2>6. \A k \in 1..Len(tasks') : k \in 1..Len(tasks) \/ k = Len(tasks) + 1
      BY <2>4
    <2>7. TasksOK'
      BY <1>1, <2>1, <2>4, <2>6 DEF RpcInv, TasksOK
    <2>8. OriginOK'
      <3>1. \A k \in 1..Len(tasks) : origin[k].id \in 1..Len(calls) /\ tasks[k].req = calls[origin[k].id].frame
        BY DEF RpcInv, OriginOK
      <3>2. u.req = calls[o.id].frame /\ o.id \in 1..Len(calls)
        BY <1>3, <2>1, <2>2
      <3> QED
        BY <1>1, <2>4, <2>5, <2>6, <3>1, <3>2 DEF OriginOK
    <2>9. ForwardersOK'
      BY <1>1, <1>9, QuietStays
    <2> QED
      BY <1>5, <1>6, <2>7, <2>8, <2>9 DEF RpcInv
  <1> QED
    BY <1>8, <1>9 DEF serverReads

(***************************************************************************)
(* Steps of the client                                                     *)
(***************************************************************************)

\* One more call.
LEMMA CallAdded ==
    ASSUME RpcInv, NEW f \in Requests, calls' = Append(calls, NewCall(f)),
           UNCHANGED <<policy, intents, events>>
    PROVE  /\ calls' \in Seq(Calls) /\ Made(calls, calls') /\ CallsOK'
           /\ Len(calls') = Len(calls) + 1 /\ Len(calls) \in Nat
           /\ calls'[Len(calls) + 1].frame = f
  <1> DEFINE c == NewCall(f)
  <1>1. c \in Calls /\ c.frame = f /\ c.ans.ok = FALSE
    <2>1. NoAnswer \in Answers /\ NoAnswer.ok = FALSE /\ "pending" \in Outcomes
      BY DEF NoAnswer, Answers, Outcomes
    <2> QED
      BY <2>1 DEF NewCall, Calls
  <1> HIDE DEF c
  <1>2. CallOK(c, intents)
    BY <1>1 DEF CallOK, TrueTo
  <1>3. calls \in Seq(Calls) /\ calls' = Append(calls, c)
    BY DEF RpcInv, CallsOK, c
  <1>4. /\ calls' \in Seq(Calls) /\ Len(calls') = Len(calls) + 1 /\ Len(calls) \in Nat
        /\ \A n \in 1..Len(calls) : calls'[n] = calls[n]
        /\ calls'[Len(calls) + 1] = c
    BY <1>1, <1>3
  <1>5. \A n \in 1..Len(calls') : n \in 1..Len(calls) \/ n = Len(calls) + 1
    BY <1>4
  <1>6. Made(calls, calls')
    BY <1>4 DEF Made
  <1>7. CallsOK'
    BY <1>2, <1>4, <1>5 DEF RpcInv, CallsOK
  <1> QED
    BY <1>1, <1>4, <1>6, <1>7

LEMMA IdAdded ==
    ASSUME NEW s \in Seq(Nat), NEW n \in Nat, \A k \in 1..Len(s) : s[k] \in 1..n
    PROVE  /\ Append(s, n + 1) \in Seq(Nat)
           /\ \A k \in 1..Len(s) : s[k] \in 1..(n + 1)
           /\ \A k \in 1..Len(Append(s, n + 1)) : Append(s, n + 1)[k] \in 1..(n + 1)
           /\ Len(Append(s, n + 1)) = Len(s) + 1 /\ Len(s) \in Nat
           /\ \A k \in 1..Len(s) : Append(s, n + 1)[k] = s[k]
           /\ Append(s, n + 1)[Len(s) + 1] = n + 1
  <1>1. /\ Append(s, n + 1) \in Seq(Nat) /\ Len(Append(s, n + 1)) = Len(s) + 1 /\ Len(s) \in Nat
        /\ \A k \in 1..Len(s) : Append(s, n + 1)[k] = s[k]
        /\ Append(s, n + 1)[Len(s) + 1] = n + 1
    OBVIOUS
  <1>2. \A k \in 1..Len(s) : s[k] \in 1..(n + 1)
    OBVIOUS
  <1>3. \A k \in 1..Len(Append(s, n + 1)) : k \in 1..Len(s) \/ k = Len(s) + 1
    BY <1>1
  <1> QED
    BY <1>1, <1>2, <1>3

LEMMA IssueKeeps ==
    ASSUME RpcInv, NEW f \in Requests, Issue(f), UNCHANGED <<policy, intents, events>>
    PROVE  calls' \in Seq(Calls) /\ Made(calls, calls') /\ CallsOK' /\ IdsOK'
  <1>1. /\ calls' \in Seq(Calls) /\ Made(calls, calls') /\ CallsOK'
        /\ Len(calls') = Len(calls) + 1 /\ Len(calls) \in Nat
    BY CallAdded DEF Issue
  <1>2. /\ queue \in Seq(Nat) /\ \A k \in 1..Len(queue) : queue[k] \in 1..Len(calls)
        /\ toServer \in Seq(Nat) /\ \A k \in 1..Len(toServer) : toServer[k] \in 1..Len(calls)
    BY DEF RpcInv, IdsOK
  <1> DEFINE n == Len(calls) + 1
             q == Append(queue, n)
             p == Append(toServer, n)
  <1>3. /\ q \in Seq(Nat) /\ \A k \in 1..Len(q) : q[k] \in 1..n
        /\ \A k \in 1..Len(queue) : queue[k] \in 1..n
    BY <1>1, <1>2, IdAdded
  <1>4. /\ p \in Seq(Nat) /\ \A k \in 1..Len(p) : p[k] \in 1..n
        /\ \A k \in 1..Len(toServer) : toServer[k] \in 1..n
    BY <1>1, <1>2, IdAdded
  <1>5. \/ queue' = q /\ toServer' = toServer
        \/ toServer' = p /\ queue' = queue
    BY DEF Issue
  <1> HIDE DEF q, p
  <1>6. IdsOK'
    BY <1>1, <1>2, <1>3, <1>4, <1>5 DEF IdsOK
  <1> QED
    BY <1>1, <1>6

LEMMA BudgetStays ==
    ASSUME RpcInv
    PROVE  /\ Fault => budget' \in Budgets
           /\ budget.retries > 0 /\ budget' = [budget EXCEPT !.retries = @ - 1]
              => budget' \in Budgets
           /\ budget.subs > 0 /\ budget' = [budget EXCEPT !.subs = @ - 1]
              => budget' \in Budgets
  BY DEF RpcInv, ClientOK, Fault, Budgets

\* A call of the caller, first or repeated, and what of the rest it leaves alone.
LEMMA IssuingKeeps ==
    ASSUME RpcInv, NEW f \in Requests, Issue(f),
           UNCHANGED <<execdVars, sock, conn, toClient, origin, fwd>>,
           script' \subseteq script, SubOK',
           budget' \in Budgets
    PROVE  RpcInv'
  <1>1. /\ UNCHANGED <<policy, intents, events>> /\ tasks' = tasks /\ origin' = origin
        /\ toClient' = toClient /\ fwd' = fwd
    BY DEF execdVars
  <1>2. calls' \in Seq(Calls) /\ Made(calls, calls') /\ CallsOK' /\ IdsOK'
    BY <1>1, IssueKeeps
  <1>3. /\ StoreOK' /\ intents' \in Seq(Intents) /\ Grown(intents, intents')
        /\ events' \in Seq(Events) /\ Len(events) <= Len(events')
    BY <1>1, StoreStays
  <1>4. FramesOK' /\ ForwardersOK' /\ TasksOK' /\ OriginOK'
    BY <1>1, <1>2, <1>3, UntouchedStays
  <1>5. ClientOK'
    BY DEF RpcInv, ClientOK
  <1> QED
    BY <1>2, <1>3, <1>4, <1>5 DEF RpcInv

LEMMA CallKeeps ==
    ASSUME RpcInv, NEW req, Call(req)
    PROVE  RpcInv'
  <1>1. /\ req \in script /\ Issue(req) /\ script' = script \ {req} /\ budget' = budget
        /\ sub' = sub /\ got' = got
        /\ UNCHANGED <<execdVars, sock, conn, toClient, origin, fwd>>
    BY DEF Call
  <1>2. req \in Requests
    BY <1>1, ScriptsAssumption DEF RpcInv, ClientOK, Requests
  <1>3. SubOK'
    BY <1>1 DEF RpcInv, SubOK, execdVars
  <1>4. budget' \in Budgets /\ script' \subseteq script
    BY <1>1 DEF RpcInv, ClientOK
  <1> QED
    BY <1>1, <1>2, <1>3, <1>4, IssuingKeeps

LEMMA RetryKeeps ==
    ASSUME RpcInv, NEW n \in 1..Len(calls), Retry(n)
    PROVE  RpcInv'
  <1>1. /\ Issue(calls[n].frame) /\ script' = script
        /\ budget.retries > 0 /\ budget' = [budget EXCEPT !.retries = @ - 1]
        /\ sub' = sub /\ got' = got
        /\ UNCHANGED <<execdVars, sock, conn, toClient, origin, fwd>>
    BY DEF Retry
  <1>2. calls[n].frame \in Requests
    <2>1. calls[n] \in Calls
      BY DEF RpcInv, CallsOK
    <2> QED
      BY <2>1 DEF Calls
  <1>3. SubOK'
    BY <1>1 DEF RpcInv, SubOK, execdVars
  <1>4. budget' \in Budgets /\ script' \subseteq script
    BY <1>1, BudgetStays
  <1> QED
    BY <1>1, <1>2, <1>3, <1>4, IssuingKeeps

LEMMA SubscribeKeeps ==
    ASSUME RpcInv, NEW since \in 0..sub.last, subscribe(since)
    PROVE  RpcInv'
  <1>1. /\ Issue(Subscribe(since)) /\ script' = script
        /\ budget.subs > 0 /\ budget' = [budget EXCEPT !.subs = @ - 1]
        /\ sub' = [on |-> TRUE, since |-> since, last |-> since] /\ got' = <<>>
        /\ UNCHANGED <<execdVars, sock, conn, toClient, origin, fwd>>
    BY DEF subscribe
  <1>2. since \in Nat
    BY DEF RpcInv, SubOK
  <1>3. Subscribe(since) \in Requests
    BY <1>2 DEF Subscribe, Requests
  <1>4. SubOK'
    <2>1. sub' \in [on : BOOLEAN, since : Nat, last : Nat] /\ sub'.last = since /\ sub'.since = since
      <3>1. TRUE \in BOOLEAN
        OBVIOUS
      <3> QED
        BY <1>1, <1>2, <3>1
    <2>2. got' \in Seq(Nat) /\ Len(got') = 0
      BY <1>1
    <2> QED
      BY <1>2, <2>1, <2>2 DEF SubOK
  <1>5. budget' \in Budgets /\ script' \subseteq script
    BY <1>1, BudgetStays
  <1> QED
    BY <1>1, <1>3, <1>4, <1>5, IssuingKeeps

\* A call changes its outcome and keeps its frame and a true answer.
LEMMA OutcomeKeeps ==
    ASSUME RpcInv, UNCHANGED <<policy, intents, events>>,
           calls' \in Seq(Calls), Len(calls') = Len(calls),
           \A n \in 1..Len(calls) : calls'[n].frame = calls[n].frame /\ CallOK(calls'[n], intents)
    PROVE  /\ StoreOK' /\ CallsOK'
           /\ toClient' = toClient => FramesOK'
           /\ fwd' = fwd => ForwardersOK'
           /\ tasks' = tasks => TasksOK'
           /\ queue' = queue /\ toServer' = toServer => IdsOK'
           /\ tasks' = tasks /\ origin' = origin => OriginOK'
           /\ sub' = sub /\ got' = got => SubOK'
           /\ \A f : FrameOK(f, calls, intents, Len(events)) => FrameOK(f, calls', intents', Len(events'))
  <1>1. calls \in Seq(Calls) /\ Len(calls) \in Nat
    BY DEF RpcInv, CallsOK
  <1>2. Made(calls, calls')
    BY <1>1 DEF Made
  <1>3. CallsOK'
    BY DEF CallsOK
  <1>4. /\ StoreOK' /\ intents' \in Seq(Intents) /\ Grown(intents, intents')
        /\ events' \in Seq(Events) /\ Len(events) <= Len(events')
    BY StoreStays
  <1> QED
    BY <1>2, <1>3, <1>4, UntouchedStays

\* One call is set to the outcome res with the answer ans.
Settled(c, res, ans) == [c EXCEPT !.res = res, !.ans = ans]

LEMMA OneOutcome ==
    ASSUME RpcInv, NEW n \in 1..Len(calls), NEW res \in Outcomes, NEW ans \in Answers,
           TrueTo(calls[n].frame, ans, intents),
           calls' = [calls EXCEPT ![n] = Settled(calls[n], res, ans)]
    PROVE  /\ calls' \in Seq(Calls) /\ Len(calls') = Len(calls)
           /\ \A m \in 1..Len(calls) : calls'[m].frame = calls[m].frame /\ CallOK(calls'[m], intents)
  <1> DEFINE c == Settled(calls[n], res, ans)
  <1>1. calls \in Seq(Calls) /\ calls[n] \in Calls /\ \A m \in 1..Len(calls) : CallOK(calls[m], intents)
    BY DEF RpcInv, CallsOK
  <1>2. c \in Calls /\ c.frame = calls[n].frame /\ c.ans = ans
    BY <1>1 DEF Calls, Settled
  <1> HIDE DEF c
  <1>3. CallOK(c, intents)
    BY <1>2 DEF CallOK
  <1>4. calls' \in Seq(Calls) /\ Len(calls') = Len(calls)
        /\ \A m \in 1..Len(calls) : calls'[m] = IF m = n THEN c ELSE calls[m]
    BY <1>1, <1>2 DEF c
  <1> QED
    BY <1>1, <1>2, <1>3, <1>4

LEMMA TimerFiresKeeps ==
    ASSUME RpcInv, NEW n \in 1..Len(calls), TimerFires(n)
    PROVE  RpcInv'
  <1>1. /\ UNCHANGED <<policy, intents, events, tasks, script, sock, conn, queue, sub, got>>
        /\ UNCHANGED <<toServer, toClient, origin, fwd>>
        /\ Fault /\ calls' = [calls EXCEPT ![n].res = "timeout"]
    BY DEF TimerFires, execdVars, wireVars
  <1>2. calls[n] \in Calls /\ CallOK(calls[n], intents) /\ calls \in Seq(Calls)
    BY DEF RpcInv, CallsOK
  <1>3. "timeout" \in Outcomes /\ calls[n].ans \in Answers /\ TrueTo(calls[n].frame, calls[n].ans, intents)
    BY <1>2 DEF Calls, Outcomes, CallOK
  <1>4. calls' = [calls EXCEPT ![n] = Settled(calls[n], "timeout", calls[n].ans)]
    BY <1>1, <1>2 DEF Calls, Settled
  <1>5. /\ calls' \in Seq(Calls) /\ Len(calls') = Len(calls)
        /\ \A m \in 1..Len(calls) : calls'[m].frame = calls[m].frame /\ CallOK(calls'[m], intents)
    BY <1>3, <1>4, OneOutcome
  <1>6. /\ StoreOK' /\ CallsOK' /\ FramesOK' /\ ForwardersOK' /\ TasksOK' /\ IdsOK'
        /\ OriginOK' /\ SubOK'
    BY <1>1, <1>5, OutcomeKeeps
  <1>7. ClientOK'
    BY <1>1, BudgetStays DEF RpcInv, ClientOK
  <1> QED
    BY <1>6, <1>7 DEF RpcInv

LEMMA UnsubscribedOK ==
    ASSUME RpcInv, sub' = [sub EXCEPT !.on = FALSE], got' = got, events' = events
    PROVE  SubOK'
  <1>1. sub \in [on : BOOLEAN, since : Nat, last : Nat] /\ FALSE \in BOOLEAN
    BY DEF RpcInv, SubOK
  <1>2. sub' \in [on : BOOLEAN, since : Nat, last : Nat] /\ sub'.last = sub.last /\ sub'.since = sub.since
    BY <1>1
  <1> QED
    BY <1>2 DEF RpcInv, SubOK

LEMMA NothingOnTheWay ==
    ASSUME toClient' = <<>>, fwd' = <<>>
    PROVE  FramesOK' /\ ForwardersOK'
  BY DEF FramesOK, ForwardersOK

LEMMA ConnectionKeeps ==
    ASSUME RpcInv, unsubscribe \/ connectFails \/ connectionLost \/ reconnect
    PROVE  RpcInv'
  <1>1. CASE unsubscribe
    <2>1. /\ UNCHANGED <<policy, intents, events, calls>> /\ UNCHANGED <<tasks, script, sock, conn, queue, got>>
          /\ UNCHANGED <<toServer, toClient, origin, fwd>> /\ Fault /\ sub' = [sub EXCEPT !.on = FALSE]
      BY <1>1 DEF unsubscribe, execdVars, wireVars
    <2>2. /\ StoreOK' /\ CallsOK' /\ FramesOK' /\ ForwardersOK' /\ TasksOK' /\ IdsOK' /\ OriginOK'
      BY <2>1, QuietStays
    <2>3. SubOK' /\ ClientOK'
      BY <2>1, BudgetStays, UnsubscribedOK DEF RpcInv, ClientOK
    <2> QED
      BY <2>2, <2>3 DEF RpcInv
  <1>2. CASE connectFails
    <2>1. /\ UNCHANGED <<policy, intents, events, calls>> /\ UNCHANGED <<tasks, script, conn, queue, sub, got, budget>>
          /\ UNCHANGED <<toClient, origin, fwd>> /\ sock' = "down" /\ toServer' = <<>>
      BY <1>2 DEF connectFails, execdVars
    <2>2. StoreOK' /\ CallsOK' /\ FramesOK' /\ ForwardersOK' /\ TasksOK' /\ SubOK' /\ OriginOK'
      BY <2>1, QuietStays
    <2>3. IdsOK' /\ ClientOK'
      BY <2>1 DEF RpcInv, IdsOK, ClientOK
    <2> QED
      BY <2>2, <2>3 DEF RpcInv
  <1>3. CASE connectionLost
    <2>1. /\ UNCHANGED <<policy, intents, events, calls>> /\ UNCHANGED <<tasks, script, conn, queue, sub, got, origin>>
          /\ toClient' = <<>> /\ fwd' = <<>> /\ sock' = "down" /\ toServer' = <<>> /\ Fault
      BY <1>3 DEF connectionLost, Hangup, execdVars
    <2>2. StoreOK' /\ CallsOK' /\ TasksOK' /\ SubOK' /\ OriginOK'
      BY <2>1, QuietStays
    <2>3. IdsOK' /\ ClientOK'
      BY <2>1, BudgetStays DEF RpcInv, IdsOK, ClientOK
    <2> QED
      BY <2>1, <2>2, <2>3, NothingOnTheWay DEF RpcInv
  <1>4. CASE reconnect
    <2>1. /\ UNCHANGED <<policy, intents, events, calls>> /\ UNCHANGED <<tasks, script, conn, queue, sub, got, budget>>
          /\ UNCHANGED <<toServer, toClient, origin, fwd>> /\ sock' = "connecting"
      BY <1>4 DEF reconnect, execdVars, wireVars
    <2>2. /\ StoreOK' /\ CallsOK' /\ FramesOK' /\ ForwardersOK' /\ TasksOK' /\ IdsOK' /\ OriginOK' /\ SubOK'
      BY <2>1, QuietStays
    <2>3. ClientOK'
      BY <2>1 DEF RpcInv, ClientOK
    <2> QED
      BY <2>2, <2>3 DEF RpcInv
  <1> QED
    BY <1>1, <1>2, <1>3, <1>4

LEMMA CloseKeeps ==
    ASSUME RpcInv, close
    PROVE  RpcInv'
  <1> DEFINE D == [n \in DOMAIN calls |-> IF calls[n].res = "pending"
                                          THEN [calls[n] EXCEPT !.res = "closed"] ELSE calls[n]]
  <1>1. /\ UNCHANGED <<policy, intents, events>> /\ UNCHANGED <<tasks, script, conn, got, origin>>
        /\ toClient' = <<>> /\ fwd' = <<>> /\ sock' = "closed" /\ toServer' = <<>> /\ queue' = <<>>
        /\ Fault /\ sub' = [sub EXCEPT !.on = FALSE] /\ calls' = D
    BY DEF close, Hangup, execdVars
  <1>2. calls \in Seq(Calls) /\ DOMAIN calls = 1..Len(calls) /\ Len(calls) \in Nat
    BY DEF RpcInv, CallsOK
  <1>3. ASSUME NEW n \in 1..Len(calls)
        PROVE  D[n] \in Calls /\ D[n].frame = calls[n].frame /\ CallOK(D[n], intents)
    <2> DEFINE c == [calls[n] EXCEPT !.res = "closed"]
    <2>1. calls[n] \in Calls /\ CallOK(calls[n], intents)
      BY DEF RpcInv, CallsOK
    <2>2. c \in Calls /\ c.frame = calls[n].frame /\ c.ans = calls[n].ans
      BY <2>1 DEF Calls, Outcomes
    <2>3. D[n] = c \/ D[n] = calls[n]
      BY <1>2
    <2> HIDE DEF D, c
    <2>4. CallOK(c, intents)
      BY <2>1, <2>2 DEF CallOK
    <2> QED
      BY <2>1, <2>2, <2>3, <2>4
  <1>4. D \in Seq(Calls) /\ Len(D) = Len(calls)
    <2>1. D \in [1..Len(calls) -> Calls]
      BY <1>2, <1>3
    <2> HIDE DEF D
    <2> QED
      BY <1>2, <2>1, FunctionIsSeq
  <1> HIDE DEF D
  <1>5. StoreOK' /\ CallsOK' /\ TasksOK' /\ OriginOK'
    BY <1>1, <1>3, <1>4, OutcomeKeeps
  <1>6. IdsOK' /\ ClientOK' /\ SubOK'
    BY <1>1, BudgetStays, UnsubscribedOK DEF RpcInv, IdsOK, ClientOK
  <1> QED
    BY <1>1, <1>5, <1>6, NothingOnTheWay DEF RpcInv

LEMMA IdsTogether ==
    ASSUME NEW s \in Seq(Nat), NEW t \in Seq(Nat), NEW n \in Nat,
           \A k \in 1..Len(s) : s[k] \in 1..n, \A k \in 1..Len(t) : t[k] \in 1..n
    PROVE  s \o t \in Seq(Nat) /\ \A k \in 1..Len(s \o t) : (s \o t)[k] \in 1..n
  <1>1. /\ s \o t \in Seq(Nat) /\ Len(s \o t) = Len(s) + Len(t) /\ Len(s) \in Nat /\ Len(t) \in Nat
        /\ \A j \in 1..(Len(s) + Len(t)) : (s \o t)[j] = IF j <= Len(s) THEN s[j] ELSE t[j - Len(s)]
    BY Concatenated
  <1>2. ASSUME NEW k \in 1..Len(s \o t) PROVE (s \o t)[k] \in 1..n
    <2>1. CASE k <= Len(s)
      BY <1>1, <2>1
    <2>2. CASE ~(k <= Len(s))
      <3>1. k - Len(s) \in 1..Len(t)
        BY <1>1, <2>2
      <3> QED
        BY <1>1, <2>2, <3>1
    <2> QED
      BY <2>1, <2>2
  <1> QED
    BY <1>1, <1>2

LEMMA OnConnectKeeps ==
    ASSUME RpcInv, onConnect
    PROVE  RpcInv'
  <1>1. /\ UNCHANGED <<policy, intents, events>> /\ UNCHANGED <<tasks, script, sub, got, budget>>
        /\ UNCHANGED <<toClient, origin, fwd>> /\ sock' = "ready" /\ conn' = conn + 1 /\ queue' = <<>>
    BY DEF onConnect, execdVars
  <1>2. /\ queue \in Seq(Nat) /\ \A k \in 1..Len(queue) : queue[k] \in 1..Len(calls)
        /\ toServer \in Seq(Nat) /\ \A k \in 1..Len(toServer) : toServer[k] \in 1..Len(calls)
        /\ calls \in Seq(Calls) /\ Len(calls) \in Nat
    BY DEF RpcInv, IdsOK, CallsOK
  <1> DEFINE both == toServer \o queue
  <1>3. both \in Seq(Nat) /\ \A k \in 1..Len(both) : both[k] \in 1..Len(calls)
    BY <1>2, IdsTogether
  <1>4. ClientOK'
    BY <1>1 DEF RpcInv, ClientOK
  <1>5. CASE calls' = calls /\ toServer' = Flushed(<<>>)
    <2>1. toServer' = both \o <<>>
      BY <1>5 DEF Flushed
    <2> HIDE DEF both
    <2>2. toServer' = both
      BY <1>3, <2>1
    <2>3. IdsOK'
      BY <1>1, <1>3, <1>5, <2>2 DEF IdsOK
    <2>4. /\ StoreOK' /\ CallsOK' /\ FramesOK' /\ ForwardersOK' /\ TasksOK' /\ OriginOK' /\ SubOK'
      BY <1>1, <1>5, QuietStays
    <2> QED
      BY <1>4, <2>3, <2>4 DEF RpcInv
  <1>6. CASE calls' = Append(calls, NewCall(Subscribe(sub.last))) /\ toServer' = Flushed(<<Len(calls) + 1>>)
    <2> DEFINE n == Len(calls) + 1
    <2>1. toServer' = both \o <<n>>
      BY <1>6 DEF Flushed
    <2> HIDE DEF both
    <2>2. toServer' = Append(both, n)
      <3>1. n \in Nat
        BY <1>2
      <3> HIDE DEF n
      <3> QED
        BY <1>3, <2>1, <3>1, AppendConcat
    <2>3. Append(both, n) \in Seq(Nat) /\ \A k \in 1..Len(Append(both, n)) : Append(both, n)[k] \in 1..n
      BY <1>2, <1>3, IdAdded
    <2>4. Subscribe(sub.last) \in Requests
      <3>1. sub.last \in Nat
        BY DEF RpcInv, SubOK
      <3> QED
        BY <3>1 DEF Subscribe, Requests
    <2>5. calls' \in Seq(Calls) /\ Made(calls, calls') /\ CallsOK' /\ Len(calls') = n
      BY <1>1, <1>6, <2>4, CallAdded
    <2>6. IdsOK'
      BY <1>1, <2>2, <2>3, <2>5 DEF IdsOK
    <2>7. /\ StoreOK' /\ intents' \in Seq(Intents) /\ Grown(intents, intents')
          /\ events' \in Seq(Events) /\ Len(events) <= Len(events')
      BY <1>1, StoreStays
    <2>8. FramesOK' /\ ForwardersOK' /\ TasksOK' /\ OriginOK' /\ SubOK'
      BY <1>1, <2>5, <2>7, UntouchedStays
    <2> QED
      BY <1>4, <2>5, <2>6, <2>7, <2>8 DEF RpcInv
  <1> QED
    BY <1>5, <1>6 DEF onConnect

LEMMA HandleFrameKeeps ==
    ASSUME RpcInv, handleFrame
    PROVE  RpcInv'
  <1> DEFINE f == Head(toClient)
  <1>1. /\ UNCHANGED <<policy, intents, events>> /\ UNCHANGED <<tasks, script, sock, conn, queue, budget>>
        /\ UNCHANGED <<toServer, origin, fwd>> /\ toClient # <<>> /\ toClient' = Tail(toClient)
    BY DEF handleFrame, execdVars
  <1>2. /\ toClient \in Seq(Frames)
        /\ \A k \in 1..Len(toClient) : FrameOK(toClient[k], calls, intents, Len(events))
    BY DEF RpcInv, FramesOK
  <1>3. /\ f = toClient[1] /\ Len(toClient) \in Nat \ {0} /\ Tail(toClient) \in Seq(Frames)
        /\ Len(Tail(toClient)) = Len(toClient) - 1
        /\ \A k \in 1..Len(Tail(toClient)) : Tail(toClient)[k] = toClient[k + 1]
    BY <1>1, <1>2
  <1>4. FrameOK(f, calls, intents, Len(events))
    BY <1>2, <1>3
  <1>5. \A k \in 1..Len(toClient') : FrameOK(toClient'[k], calls, intents, Len(events))
    BY <1>1, <1>2, <1>3
  <1>6. ClientOK'
    BY <1>1 DEF RpcInv, ClientOK
  <1> HIDE DEF f
  <1>7. CASE calls' = calls /\ ~f.reply
             /\ sub' = (IF ~sub.on \/ Drops(f.id) THEN sub ELSE [sub EXCEPT !.last = f.id])
             /\ got' = (IF ~sub.on \/ Drops(f.id) THEN got ELSE Append(got, f.id))
    <2>1. StoreOK' /\ CallsOK' /\ ForwardersOK' /\ TasksOK' /\ IdsOK' /\ OriginOK'
      BY <1>1, <1>7, QuietStays
    <2>2. FramesOK'
      BY <1>1, <1>3, <1>5, <1>7 DEF FramesOK
    <2>3. f.id \in 1..Len(events) /\ Len(events) \in Nat
      BY <1>4, <1>7 DEF FrameOK, RpcInv, StoreOK
    <2>4. SubOK'
      <3>1. CASE ~sub.on \/ Drops(f.id)
        BY <1>1, <1>7, <3>1 DEF RpcInv, SubOK
      <3>2. CASE ~(~sub.on \/ Drops(f.id))
        <4>1. /\ sub \in [on : BOOLEAN, since : Nat, last : Nat] /\ got \in Seq(Nat)
              /\ sub.last = sub.since + Len(got) /\ Len(got) \in Nat /\ sub.since \in Nat
              /\ \A k \in 1..Len(got) : got[k] = sub.since + k /\ got[k] <= Len(events)
          BY DEF RpcInv, SubOK
        <4>2. f.id = sub.last + 1 /\ f.id \in Nat
          BY <2>3, <3>2 DEF Drops
        <4>3. /\ sub' \in [on : BOOLEAN, since : Nat, last : Nat] /\ sub'.last = f.id /\ sub'.since = sub.since
          BY <1>7, <3>2, <4>1, <4>2
        <4>4. /\ got' \in Seq(Nat) /\ Len(got') = Len(got) + 1
              /\ \A k \in 1..Len(got) : got'[k] = got[k]
              /\ got'[Len(got) + 1] = f.id
          BY <1>7, <3>2, <4>1, <4>2
        <4>5. \A k \in 1..Len(got') : k \in 1..Len(got) \/ k = Len(got) + 1
          BY <4>1, <4>4
        <4>6. ASSUME NEW k \in 1..Len(got') PROVE got'[k] = sub.since + k /\ got'[k] <= Len(events)
          <5>1. CASE k \in 1..Len(got)
            BY <4>1, <4>4, <5>1
          <5>2. CASE k = Len(got) + 1
            <6>1. f.id = sub.since + k /\ f.id <= Len(events)
              BY <2>3, <4>1, <4>2, <5>2
            <6> QED
              BY <4>4, <5>2, <6>1
          <5> QED
            BY <4>5, <5>1, <5>2
        <4> QED
          BY <1>1, <4>1, <4>2, <4>3, <4>4, <4>6 DEF SubOK
      <3> QED
        BY <3>1, <3>2
    <2> QED
      BY <1>6, <2>1, <2>2, <2>4 DEF RpcInv
  <1>8. CASE f.reply /\ sub' = sub /\ got' = got
             /\ calls' = (IF calls[f.id].res = "pending"
                          THEN [calls EXCEPT ![f.id].res = "answered", ![f.id].ans = f.ans]
                          ELSE calls)
    <2>1. f.id \in 1..Len(calls) /\ TrueTo(calls[f.id].frame, f.ans, intents) /\ f.ans \in Answers
      BY <1>4, <1>8 DEF FrameOK, Frames
    <2>2. CASE calls' = calls
      <3>1. StoreOK' /\ CallsOK' /\ ForwardersOK' /\ TasksOK' /\ IdsOK' /\ OriginOK' /\ SubOK'
        BY <1>1, <1>8, <2>2, QuietStays
      <3>2. FramesOK'
        BY <1>1, <1>3, <1>5, <2>2 DEF FramesOK
      <3> QED
        BY <1>6, <3>1, <3>2 DEF RpcInv
    <2>3. CASE calls' = [calls EXCEPT ![f.id].res = "answered", ![f.id].ans = f.ans]
      <3>1. calls \in Seq(Calls) /\ calls[f.id] \in Calls /\ "answered" \in Outcomes
        BY <2>1 DEF RpcInv, CallsOK, Outcomes
      <3>2. calls' = [calls EXCEPT ![f.id] = Settled(calls[f.id], "answered", f.ans)]
        BY <2>1, <2>3, <3>1 DEF Settled, Calls
      <3>3. /\ calls' \in Seq(Calls) /\ Len(calls') = Len(calls)
            /\ \A m \in 1..Len(calls) : calls'[m].frame = calls[m].frame /\ CallOK(calls'[m], intents)
        BY <2>1, <3>1, <3>2, OneOutcome
      <3>4. /\ StoreOK' /\ CallsOK' /\ ForwardersOK' /\ TasksOK' /\ IdsOK' /\ OriginOK' /\ SubOK'
            /\ \A g : FrameOK(g, calls, intents, Len(events)) => FrameOK(g, calls', intents', Len(events'))
        BY <1>1, <1>8, <3>3, OutcomeKeeps
      <3>5. FramesOK'
        BY <1>1, <1>3, <1>5, <3>4 DEF FramesOK
      <3> QED
        BY <1>6, <3>4, <3>5 DEF RpcInv
    <2> QED
      BY <1>8, <2>2, <2>3
  <1> QED
    BY <1>7, <1>8 DEF handleFrame, f

(***************************************************************************)
(* Starts and ends of execd                                                *)
(***************************************************************************)

LEMMA StartKeeps ==
    ASSUME RpcInv, start
    PROVE  RpcInv'
  <1>1. /\ UNCHANGED <<policy, intents, events, calls>> /\ UNCHANGED <<tasks, script, sock, conn, queue, sub, got, budget>>
        /\ UNCHANGED <<toServer, toClient, origin, fwd>>
    BY DEF start, bootstrap, clientVars, wireVars
  <1> QED
    BY <1>1, QuietStays DEF RpcInv

\* The tasks of a process that ended.
Ended(t) == [t EXCEPT !.pc = "done"]

LEMMA EndedTask ==
    ASSUME NEW I, NEW e, NEW t, TaskOK(t, I, e)
    PROVE  Ended(t) \in Tasks /\ TaskOK(Ended(t), I, e) /\ Ended(t).req = t.req /\ Ended(t).pc = "done"
  <1>1. t \in Tasks
    BY DEF TaskOK
  <1>2. Ended(t) \in Tasks /\ Ended(t).req = t.req /\ Ended(t).out = t.out /\ Ended(t).pc = "done"
    BY <1>1 DEF Ended, Tasks, Pcs
  <1> QED
    BY <1>2 DEF TaskOK

LEMMA EndedTasks ==
    ASSUME RpcInv, NEW i, exit(i)
    PROVE  /\ tasks' \in Seq(Tasks) /\ Len(tasks') = Len(tasks)
           /\ \A n \in 1..Len(tasks) : tasks'[n] = Ended(tasks[n])
  <1>1. tasks \in Seq(Tasks) /\ DOMAIN tasks = 1..Len(tasks) /\ Len(tasks) \in Nat
        /\ \A n \in 1..Len(tasks) : TaskOK(tasks[n], intents, Len(events))
    BY DEF RpcInv, TasksOK
  <1>2. tasks' = [n \in 1..Len(tasks) |-> Ended(tasks[n])]
    BY <1>1 DEF exit, Ended
  <1>3. \A n \in 1..Len(tasks) : Ended(tasks[n]) \in Tasks
    BY <1>1, EndedTask
  <1>4. tasks' \in [1..Len(tasks) -> Tasks]
    BY <1>2, <1>3
  <1> QED
    BY <1>1, <1>2, <1>4, FunctionIsSeq

LEMMA StopKeeps ==
    ASSUME RpcInv, NEW i, stop(i)
    PROVE  RpcInv'
  <1>1. /\ UNCHANGED <<policy, intents, events, calls>> /\ UNCHANGED <<script, conn, queue, sub, got, origin>>
        /\ toClient' = <<>> /\ fwd' = <<>> /\ Fault /\ exit(i)
        /\ sock' = sock \/ sock' = "down"
        /\ toServer' = toServer \/ toServer' = <<>>
    BY DEF stop, exit
  <1>2. /\ tasks' \in Seq(Tasks) /\ Len(tasks') = Len(tasks)
        /\ \A n \in 1..Len(tasks) : tasks'[n] = Ended(tasks[n])
    BY <1>1, EndedTasks
  <1>3. \A n \in 1..Len(tasks) : /\ TaskOK(tasks[n], intents, Len(events))
                                 /\ TaskOK(Ended(tasks[n]), intents, Len(events))
                                 /\ Ended(tasks[n]).req = tasks[n].req
    BY EndedTask DEF RpcInv, TasksOK
  <1>4. TasksOK'
    BY <1>1, <1>2, <1>3 DEF TasksOK
  <1>5. OriginOK'
    BY <1>1, <1>2, <1>3 DEF RpcInv, OriginOK
  <1>6. StoreOK' /\ CallsOK' /\ SubOK'
    BY <1>1, QuietStays
  <1>7. IdsOK'
    <2>1. CASE toServer' = toServer
      BY <1>1, <2>1, QuietStays
    <2>2. CASE toServer' = <<>>
      BY <1>1, <2>2 DEF RpcInv, IdsOK
    <2> QED
      BY <1>1, <2>1, <2>2
  <1>8. ClientOK'
    BY <1>1, BudgetStays DEF RpcInv, ClientOK
  <1> QED
    BY <1>1, <1>4, <1>5, <1>6, <1>7, <1>8, NothingOnTheWay DEF RpcInv

(***************************************************************************)
(* The invariant holds                                                     *)
(***************************************************************************)

LEMMA InitOK ==
    ASSUME Init
    PROVE  RpcInv
  <1>1. /\ policy = default_policy /\ intents = <<>> /\ events = <<>> /\ tasks = <<>> /\ calls = <<>>
        /\ sock = "connecting" /\ conn = 0 /\ queue = <<>> /\ got = <<>>
        /\ sub = [on |-> FALSE, since |-> 0, last |-> 0]
        /\ toServer = <<>> /\ toClient = <<>> /\ origin = <<>> /\ fwd = <<>>
    BY DEF Init, ExecdInit
  <1>2. StoreOK
    <2>1. default_policy \in Policies
      BY DEF default_policy, Policies, Modes, Authorities
    <2> QED
      BY <1>1, <2>1 DEF StoreOK, OneIntentPerKey
  <1>3. TasksOK /\ CallsOK /\ IdsOK /\ OriginOK /\ FramesOK /\ ForwardersOK
    BY <1>1 DEF TasksOK, CallsOK, IdsOK, OriginOK, FramesOK, ForwardersOK
  <1>4. ClientOK
    <2>1. PICK s \in Scripts : /\ script = s.calls
                               /\ budget = [retries |-> MaxRetries, faults |-> s.faults, subs |-> s.subs,
                                            waits |-> s.waits]
      BY DEF Init
    <2>2. s.subs \in Nat /\ s.faults \in Nat /\ s.waits \in BOOLEAN /\ MaxRetries \in Nat
      BY ScriptsAssumption, LimitsAssumption
    <2>3. script \in SUBSET UNION {x.calls : x \in Scripts}
      BY <2>1
    <2>4. budget \in Budgets
      BY <2>1, <2>2 DEF Budgets
    <2> QED
      BY <1>1, <2>3, <2>4 DEF ClientOK
  <1>5. SubOK
    <2>1. sub \in [on : BOOLEAN, since : Nat, last : Nat] /\ sub.last = 0 /\ sub.since = 0
      <3>1. FALSE \in BOOLEAN
        OBVIOUS
      <3> QED
        BY <1>1, <3>1
    <2>2. got \in Seq(Nat) /\ Len(got) = 0
      BY <1>1
    <2> QED
      BY <2>1, <2>2 DEF SubOK
  <1> QED
    BY <1>2, <1>3, <1>4, <1>5 DEF RpcInv

\* The quantifiers of Next range over the positions of three sequences.
LEMMA Positions ==
    ASSUME RpcInv
    PROVE  DOMAIN tasks = 1..Len(tasks) /\ DOMAIN calls = 1..Len(calls) /\ DOMAIN fwd = 1..Len(fwd)
           /\ DOMAIN intents = 1..Len(intents) /\ DOMAIN events = 1..Len(events) /\ DOMAIN got = 1..Len(got)
           /\ DOMAIN queue = 1..Len(queue) /\ DOMAIN toServer = 1..Len(toServer)
  BY DEF RpcInv, TasksOK, CallsOK, ForwardersOK, StoreOK, SubOK, IdsOK

LEMMA RpcInvStep ==
    ASSUME RpcInv, [Next]_vars
    PROVE  RpcInv'
  <1>1. CASE \E req \in script : Call(req)
    BY <1>1, CallKeeps
  <1>2. CASE \E n \in DOMAIN calls : Retry(n) \/ TimerFires(n)
    BY <1>2, Positions, RetryKeeps, TimerFiresKeeps
  <1>3. CASE \E since \in 0..sub.last : subscribe(since)
    BY <1>3, SubscribeKeeps
  <1>4. CASE unsubscribe \/ close \/ connectionLost \/ Client
    BY <1>4, ConnectionKeeps, CloseKeeps, OnConnectKeeps, HandleFrameKeeps DEF Client
  <1>5. CASE Server
    BY <1>5, Positions, ServerReadsKeeps, HandleKeeps, PublishKeeps, AnswerKeeps, ReplayKeeps, FollowKeeps
       DEF Server
  <1>6. CASE start
    BY <1>6, StartKeeps
  <1>7. CASE \E i \in Running : stop(i)
    BY <1>7, StopKeeps
  <1>8. CASE UNCHANGED vars
    <2>1. /\ UNCHANGED <<policy, intents, events, calls>> /\ UNCHANGED <<tasks, script, sock, conn, queue, sub, got, budget>>
          /\ UNCHANGED <<toServer, toClient, origin, fwd>>
      BY <1>8 DEF vars, execdVars, clientVars, wireVars
    <2> QED
      BY <2>1, QuietStays DEF RpcInv
  <1> QED
    BY <1>1, <1>2, <1>3, <1>4, <1>5, <1>6, <1>7, <1>8 DEF Next

LEMMA AlwaysRpcInv == Spec => []RpcInv
  BY InitOK, RpcInvStep, PTL DEF Spec

LEMMA RpcInvSound ==
    ASSUME RpcInv, LeaseInv
    PROVE  IntentsSound
  <1>1. TypeOK
    BY DEF RpcInv, LeaseInv, StoreOK, TasksOK, CallsOK, IdsOK, OriginOK, FramesOK, ForwardersOK, ClientOK,
       SubOK, Frames, TypeOK, ExecdTypeOK
  <1>2. OneIntentPerKey
    BY DEF RpcInv, StoreOK
  <1>3. AnswersAreTrue
    <2> SUFFICES ASSUME NEW n \in 1..Len(tasks), tasks[n].pc \in {"publish", "answer"},
                        tasks[n].req.method = "propose", tasks[n].ans.ok
                 PROVE  Names(tasks[n].req, tasks[n].ans.intent, intents)
      BY Positions DEF AnswersAreTrue, Names
    <2> QED
      BY TaskReq DEF TaskOK, TrueTo
  <1>4. RetriesAgree
    <2> SUFFICES ASSUME NEW m \in 1..Len(calls), NEW n \in 1..Len(calls),
                        calls[m].frame.method = "propose", calls[n].frame.method = "propose",
                        calls[m].frame.key # NoKey, calls[m].frame.key = calls[n].frame.key,
                        calls[m].frame.who = calls[n].frame.who, calls[m].ans.ok, calls[n].ans.ok
                 PROVE  calls[m].ans.intent = calls[n].ans.intent
      BY Positions DEF RetriesAgree
    <2>1. /\ Names(calls[m].frame, calls[m].ans.intent, intents)
          /\ Names(calls[n].frame, calls[n].ans.intent, intents)
      BY DEF RpcInv, CallsOK, CallOK, TrueTo
    <2> QED
      BY <1>2, <2>1, Positions DEF Names, OneIntentPerKey
  <1> QED
    BY <1>1, <1>2, <1>3, <1>4 DEF IntentsSound

\* intents.rs:113, exec-client.ts:41: however proposals race, time out, are
\* retried, lose their connection or their execd, a key names one intent, every
\* success names the row that was asked for, and all answers to one key agree.
THEOREM IntentsStaySound == Spec => []IntentsSound
  BY RpcInvSound, AlwaysRpcInv, AlwaysLeaseInv, PTL

(***************************************************************************)
(* The log                                                                 *)
(***************************************************************************)

\* The last event about intent i in the log E tells the status st.
About(e, i) == e.name = "intent" /\ e.intent = i
Told(E, i, st) ==
    \E s \in 1..Len(E) : /\ About(E[s], i) /\ E[s].status = st
                         /\ \A t \in 1..Len(E) : About(E[t], i) => t <= s

LEMMA LogGrows ==
    ASSUME NEW E \in Seq(Events), NEW es \in Seq(Events)
    PROVE  /\ E \o es \in Seq(Events) /\ Len(E \o es) = Len(E) + Len(es)
           /\ Len(E) \in Nat /\ Len(es) \in Nat
           /\ \A k \in 1..Len(E) : (E \o es)[k] = E[k] /\ k \in 1..Len(E \o es)
           /\ \A k \in 1..Len(es) : (E \o es)[Len(E) + k] = es[k] /\ Len(E) + k \in 1..Len(E \o es)
           /\ \A k \in 1..Len(E \o es) : \/ k \in 1..Len(E)
                                         \/ \E j \in 1..Len(es) : k = Len(E) + j
  <1>1. /\ E \o es \in Seq(Events) /\ Len(E \o es) = Len(E) + Len(es) /\ Len(E) \in Nat /\ Len(es) \in Nat
        /\ \A j \in 1..(Len(E) + Len(es)) : (E \o es)[j] = IF j <= Len(E) THEN E[j] ELSE es[j - Len(E)]
    BY Concatenated
  <1>2. \A k \in 1..Len(E) : (E \o es)[k] = E[k] /\ k \in 1..Len(E \o es)
    BY <1>1
  <1>3. ASSUME NEW k \in 1..Len(es)
        PROVE  (E \o es)[Len(E) + k] = es[k] /\ Len(E) + k \in 1..Len(E \o es)
    <2>1. Len(E) + k \in 1..(Len(E) + Len(es)) /\ ~(Len(E) + k <= Len(E)) /\ (Len(E) + k) - Len(E) = k
      BY <1>1
    <2> QED
      BY <1>1, <2>1
  <1>4. ASSUME NEW k \in 1..Len(E \o es), k \notin 1..Len(E)
        PROVE  \E j \in 1..Len(es) : k = Len(E) + j
    <2>1. k - Len(E) \in 1..Len(es) /\ k = Len(E) + (k - Len(E))
      BY <1>1, <1>4
    <2> QED
      BY <2>1
  <1> QED
    BY <1>1, <1>2, <1>3, <1>4

\* Events about other things leave what is told of i.
LEMMA ToldStays ==
    ASSUME NEW E \in Seq(Events), NEW es \in Seq(Events), NEW i, NEW st, Told(E, i, st),
           \A k \in 1..Len(es) : ~About(es[k], i)
    PROVE  Told(E \o es, i, st)
  <1>1. PICK s \in 1..Len(E) : /\ About(E[s], i) /\ E[s].status = st
                               /\ \A t \in 1..Len(E) : About(E[t], i) => t <= s
    BY DEF Told
  <1> DEFINE F == E \o es
  <1>2. /\ s \in 1..Len(F) /\ F[s] = E[s]
        /\ \A k \in 1..Len(E) : F[k] = E[k]
        /\ \A k \in 1..Len(es) : F[Len(E) + k] = es[k]
        /\ \A k \in 1..Len(F) : k \in 1..Len(E) \/ \E j \in 1..Len(es) : k = Len(E) + j
    BY LogGrows
  <1> HIDE DEF F
  <1>3. \A t \in 1..Len(F) : About(F[t], i) => t <= s
    BY <1>1, <1>2
  <1> QED
    BY <1>1, <1>2, <1>3 DEF Told, F

\* The last of the new events tells of i.
LEMMA ToldAnew ==
    ASSUME NEW E \in Seq(Events), NEW es \in Seq(Events), es # <<>>, NEW i,
           About(es[Len(es)], i)
    PROVE  Told(E \o es, i, es[Len(es)].status)
  <1> DEFINE F == E \o es
             s == Len(E) + Len(es)
  <1>1. Len(es) \in 1..Len(es) /\ Len(E) \in Nat /\ Len(es) \in Nat
    OBVIOUS
  <1>2. s \in 1..Len(F) /\ F[s] = es[Len(es)] /\ Len(F) = s
    BY <1>1, LogGrows
  <1>3. \A t \in 1..Len(F) : t <= s
    BY <1>1, <1>2
  <1> HIDE DEF F
  <1> QED
    BY <1>2, <1>3 DEF Told, F

LEMMA ToldAll ==
    ASSUME RpcInv
    PROVE  LogTellsIntents <=> \A i \in 1..Len(intents) : Told(events, i, intents[i].status)
  BY Positions DEF LogTellsIntents, Told, About

LEMMA ToldNext ==
    ASSUME RpcInv', \A i \in 1..Len(intents') : Told(events', i, intents'[i].status)
    PROVE  LogTellsIntents'
  <1>1. DOMAIN intents' = 1..Len(intents') /\ DOMAIN events' = 1..Len(events')
    BY DEF RpcInv, StoreOK
  <1> QED
    BY <1>1 DEF LogTellsIntents, Told, About

\* The two steps that write an intent tell of it in the same transaction.
LEMMA InsertTells ==
    ASSUME RpcInv, RpcInv', LogTellsIntents, NEW n \in 1..Len(tasks), ProposeInsert(n)
    PROVE  LogTellsIntents'
  <1> DEFINE r == tasks[n].req
             to == Gated(r.who, tasks[n].read)
             i == Len(intents) + 1
             created == [name |-> "intent", intent |-> i, status |-> "proposed"]
             moved == [name |-> "intent", intent |-> i, status |-> to]
  <1>0. /\ intents \in Seq(Intents) /\ Len(intents) \in Nat /\ events \in Seq(Events)
    BY DEF RpcInv, StoreOK
  <1>1. /\ r \in ProposeReqs
        /\ \/ UNCHANGED <<intents, events>>
           \/ /\ intents' = Append(intents, NewIntent(r, to))
              /\ \/ to = "proposed" /\ events' = events \o <<created>>
                 \/ to # "proposed" /\ events' = events \o <<created, moved>>
    BY InsertDoes DEF Committed, tx_insert_events
  <1>2. to \in Statuses /\ i \in Nat
    BY <1>0, GatedStatus
  <1>3. /\ created \in Events /\ moved \in Events
        /\ About(created, i) /\ About(moved, i) /\ created.status = "proposed" /\ moved.status = to
        /\ \A j \in 1..Len(intents) : ~About(created, j) /\ ~About(moved, j)
    <2>1. "proposed" \in Statuses
      BY DEF Statuses
    <2> QED
      BY <1>0, <1>2, <2>1 DEF Events, About
  <1> HIDE DEF to, created, moved
  <1>4. CASE UNCHANGED <<intents, events>>
    BY <1>4 DEF LogTellsIntents
  <1>5. ASSUME intents' = Append(intents, NewIntent(r, to)), NEW es \in Seq(Events), es # <<>>,
               events' = events \o es, About(es[Len(es)], i), es[Len(es)].status = to,
               \A j \in 1..Len(intents), k \in 1..Len(es) : ~About(es[k], j)
        PROVE  LogTellsIntents'
    <2>1. /\ Len(intents') = i /\ \A j \in 1..Len(intents) : intents'[j] = intents[j]
          /\ intents'[i].status = to
      <3>1. /\ Len(intents') = i /\ \A j \in 1..Len(intents) : intents'[j] = intents[j]
            /\ intents'[i] = NewIntent(r, to)
        BY <1>0, <1>1, <1>2, <1>5, InsertedRow
      <3> QED
        BY <3>1 DEF NewIntent
    <2>2. \A j \in 1..Len(intents) : Told(events', j, intents'[j].status)
      BY <1>0, <1>5, <2>1, ToldAll, ToldStays
    <2>3. Told(events', i, intents'[i].status)
      BY <1>0, <1>5, <2>1, ToldAnew
    <2>4. \A j \in 1..Len(intents') : j \in 1..Len(intents) \/ j = i
      BY <1>0, <2>1
    <2>5. \A j \in 1..Len(intents') : Told(events', j, intents'[j].status)
      BY <2>2, <2>3, <2>4
    <2> QED
      BY <2>5, ToldNext
  <1>6. CASE intents' = Append(intents, NewIntent(r, to)) /\ to = "proposed" /\ events' = events \o <<created>>
    <2> DEFINE es == <<created>>
    <2>1. es \in Seq(Events) /\ es # <<>> /\ Len(es) = 1 /\ es[1] = created
      BY <1>3, OneEvent
    <2>2. \A k \in 1..1 : k = 1
      OBVIOUS
    <2>3. events' = events \o es
      BY <1>6
    <2> HIDE DEF i, r, es
    <2> QED
      BY <1>3, <1>5, <1>6, <2>1, <2>2, <2>3
  <1>7. CASE intents' = Append(intents, NewIntent(r, to)) /\ events' = events \o <<created, moved>>
    <2> DEFINE es == <<created, moved>>
    <2>1. es \in Seq(Events) /\ es # <<>> /\ Len(es) = 2 /\ es[1] = created /\ es[2] = moved
      BY <1>3, TwoEvents
    <2>2. \A k \in 1..2 : k = 1 \/ k = 2
      OBVIOUS
    <2>3. events' = events \o es
      BY <1>7
    <2> HIDE DEF i, r, es
    <2> QED
      BY <1>3, <1>5, <1>7, <2>1, <2>2, <2>3
  <1> QED
    BY <1>1, <1>4, <1>6, <1>7

LEMMA RejectTells ==
    ASSUME RpcInv, RpcInv', LogTellsIntents, NEW n \in 1..Len(tasks), RejectWrite(n)
    PROVE  LogTellsIntents'
  <1> DEFINE i == tasks[n].req.target
             e == [name |-> "intent", intent |-> i, status |-> "rejected"]
             es == <<e>>
  <1>0. /\ intents \in Seq(Intents) /\ Len(intents) \in Nat /\ events \in Seq(Events)
    BY DEF RpcInv, StoreOK
  <1>1. intents' = WithStatus(intents, i, "rejected") /\ events' = events \o es
    BY DEF RejectWrite, tx_update_intent, WithStatus, Committed, tx_insert_events
  <1>2. i \in 1..Len(intents) /\ "rejected" \in Statuses
    BY TaskReq DEF RejectWrite, At, TaskOK, Statuses
  <1>3. e \in Events /\ About(e, i) /\ e.status = "rejected" /\ \A j : j # i => ~About(e, j)
    BY <1>0, <1>2 DEF Events, About
  <1> HIDE DEF i, e
  <1>4. es \in Seq(Events) /\ es # <<>> /\ Len(es) = 1 /\ es[1] = e
    BY <1>3, OneEvent
  <1>5. \A k \in 1..1 : k = 1
    OBVIOUS
  <1> HIDE DEF es
  <1>6. /\ Len(intents') = Len(intents) /\ intents'[i].status = "rejected"
        /\ \A k \in 1..Len(intents) : k # i => intents'[k] = intents[k]
    BY <1>0, <1>1, <1>2, UpdatedRow
  <1>7. ASSUME NEW j \in 1..Len(intents) PROVE Told(events', j, intents'[j].status)
    <2>1. CASE j = i
      BY <1>0, <1>1, <1>3, <1>4, <1>6, <2>1, ToldAnew
    <2>2. CASE j # i
      <3>1. Told(events, j, intents[j].status)
        BY ToldAll
      <3>2. \A k \in 1..Len(es) : ~About(es[k], j)
        BY <1>3, <1>4, <1>5, <2>2
      <3> QED
        BY <1>0, <1>1, <1>4, <1>6, <2>2, <3>1, <3>2, ToldStays
    <2> QED
      BY <2>1, <2>2
  <1> QED
    BY <1>6, <1>7, ToldNext

\* What the other steps append is not about an intent's status.
OtherEvents(es) ==
    es \in Seq(Events) /\ \A k \in 1..Len(es) : es[k].name \in {"corruption", "policy", "halt"}

LEMMA OtherStepTells ==
    ASSUME RpcInv, RpcInv', LogTellsIntents, intents' = intents, NEW es, OtherEvents(es), events' = events \o es
    PROVE  LogTellsIntents'
  <1>1. events \in Seq(Events) /\ es \in Seq(Events)
    BY DEF RpcInv, StoreOK, OtherEvents
  <1>2. \A i : \A k \in 1..Len(es) : ~About(es[k], i)
    BY DEF OtherEvents, About
  <1>3. \A i \in 1..Len(intents) : Told(events', i, intents[i].status)
    BY <1>1, <1>2, ToldAll, ToldStays
  <1> QED
    BY <1>3, ToldNext

LEMMA CorruptDoes ==
    ASSUME RpcInv, NEW n \in 1..Len(tasks), ProposeCorrupt(n)
    PROVE  /\ intents' = intents /\ policy' = policy
           /\ \E e \in Events : e.name = "corruption" /\ events' = events \o <<e>>
  <1> DEFINE e == [name |-> "corruption", intent |-> tasks[n].ans.intent]
  <1>1. intents' = intents /\ policy' = policy /\ events' = events \o <<e>>
    BY DEF ProposeCorrupt, Committed, tx_insert_events
  <1>2. e \in Events /\ e.name = "corruption"
    <2>1. tasks[n] \in Tasks
      BY TaskReq
    <2>2. tasks[n].ans.intent \in Nat
      BY <2>1 DEF Tasks, Answers
    <2> QED
      BY <2>2 DEF Events
  <1> HIDE DEF e
  <1> QED
    BY <1>1, <1>2

\* What a handler's step is to the tables.
LEMMA HandleDoes ==
    ASSUME RpcInv, NEW n \in 1..Len(tasks), Handle(n)
    PROVE  \/ UNCHANGED <<policy, intents, events>>
           \/ ProposeInsert(n) \/ RejectWrite(n) \/ ProposeCorrupt(n)
           \/ PolicySetWrite(n) \/ EmergencyStopWrite(n)
  BY DEF Handle, Propose, ProposeLookup, Reject, Get, Authorize, PolicySet, EmergencyStop

LEMMA PolicyStepEvents ==
    ASSUME RpcInv, NEW n \in 1..Len(tasks), PolicySetWrite(n) \/ EmergencyStopWrite(n)
    PROVE  /\ intents' = intents /\ policy' \in Policies
           /\ \/ /\ events' = events \o <<PolicyEvent(policy')>>
                 /\ is_halted(tasks[n].read) = is_halted(policy')
              \/ events' = events \o <<PolicyEvent(policy'), HaltEvent(is_halted(policy'))>>
              \/ /\ events' = events \o <<HaltEvent(TRUE), PolicyEvent(policy')>>
                 /\ is_halted(policy')
  BY PolicyWriteDoes DEF Committed, tx_insert_events

LEMMA PolicyWriteTells ==
    ASSUME RpcInv, RpcInv', LogTellsIntents, NEW n \in 1..Len(tasks), PolicySetWrite(n) \/ EmergencyStopWrite(n)
    PROVE  LogTellsIntents'
  <1> DEFINE e == PolicyEvent(policy')
             h == HaltEvent(is_halted(policy'))
             g == HaltEvent(TRUE)
  <1>1. /\ intents' = intents /\ policy' \in Policies
        /\ events' = events \o <<e>> \/ events' = events \o <<e, h>> \/ events' = events \o <<g, e>>
    BY PolicyStepEvents
  <1>2. e \in Events /\ h \in Events /\ g \in Events /\ e.name = "policy" /\ h.name = "halt" /\ g.name = "halt"
    BY <1>1, PolicyEvents DEF PolicyEvent, HaltEvent
  <1> HIDE DEF e, h, g
  <1>3. OtherEvents(<<e>>) /\ OtherEvents(<<e, h>>) /\ OtherEvents(<<g, e>>)
    BY <1>2 DEF OtherEvents
  <1> QED
    BY <1>1, <1>3, OtherStepTells

\* The steps outside the handlers leave the tables alone.
LEMMA TableSteps ==
    ASSUME RpcInv, [Next]_vars
    PROVE  \/ UNCHANGED <<policy, intents, events>>
           \/ \E n \in 1..Len(tasks) : handle(n)
  <1>1. CASE \E req \in script : Call(req)
    BY <1>1 DEF Call, execdVars
  <1>2. CASE \E n \in DOMAIN calls : Retry(n) \/ TimerFires(n)
    BY <1>2 DEF Retry, TimerFires, execdVars
  <1>3. CASE \E since \in 0..sub.last : subscribe(since)
    BY <1>3 DEF subscribe, execdVars
  <1>4. CASE unsubscribe \/ close \/ connectionLost \/ Client
    BY <1>4 DEF unsubscribe, close, connectionLost, Client, Hangup, onConnect, connectFails,
       reconnect, handleFrame, execdVars
  <1>5. CASE Server
    <2>1. CASE serverReads
      BY <2>1 DEF serverReads
    <2>2. CASE \E n \in DOMAIN tasks : handle(n) \/ publish(n) \/ answer(n)
      BY <2>2, Positions DEF publish, answer
    <2>3. CASE \E k \in DOMAIN fwd : replay(k) \/ follow(k)
      BY <2>3 DEF replay, follow, execdVars
    <2> QED
      BY <1>5, <2>1, <2>2, <2>3 DEF Server
  <1>6. CASE start
    BY <1>6 DEF start, bootstrap
  <1>7. CASE \E i \in Running : stop(i)
    BY <1>7 DEF stop, exit
  <1>8. CASE UNCHANGED vars
    BY <1>8 DEF vars, execdVars
  <1> QED
    BY <1>1, <1>2, <1>3, <1>4, <1>5, <1>6, <1>7, <1>8 DEF Next

LEMMA LogStep ==
    ASSUME RpcInv, RpcInv', LogTellsIntents, [Next]_vars
    PROVE  LogTellsIntents'
  <1>1. CASE UNCHANGED <<policy, intents, events>>
    BY <1>1 DEF LogTellsIntents
  <1>2. ASSUME NEW n \in 1..Len(tasks), handle(n) PROVE LogTellsIntents'
    <2>1. CASE ProposeCorrupt(n)
      <3>1. PICK e \in Events : e.name = "corruption" /\ events' = events \o <<e>>
        BY <2>1, CorruptDoes
      <3>2. OtherEvents(<<e>>)
        BY <3>1 DEF OtherEvents
      <3> QED
        BY <2>1, <3>1, <3>2, CorruptDoes, OtherStepTells
    <2> QED
      BY <1>1, <1>2, <2>1, HandleDoes, InsertTells, RejectTells, PolicyWriteTells DEF handle
  <1> QED
    BY <1>1, <1>2, TableSteps

\* store.rs:47 and exec-client.ts:308, whatever the overlap of policy writes:
\* the log tells the status of every intent, and the subscriber reads the log.
THEOREM LogTellsEveryIntent == Spec => [](LogTellsIntents /\ DeliveredInOrder)
  <1>1. Init => LogTellsIntents
    BY DEF Init, ExecdInit, LogTellsIntents
  <1>2. RpcInv => DeliveredInOrder
    BY Positions DEF RpcInv, SubOK, DeliveredInOrder
  <1> QED
    BY <1>1, <1>2, LogStep, AlwaysRpcInv, PTL DEF Spec

(***************************************************************************)
(* What the log tells of the policy                                        *)
(***************************************************************************)

LastOf(E, name, s) == E[s].name = name /\ \A t \in 1..Len(E) : E[t].name = name => t <= s
VersionTold(E, v) == \A s \in 1..Len(E) : LastOf(E, "policy", s) => E[s].version = v
HaltTold(E) == \E s \in 1..Len(E) : LastOf(E, "halt", s) /\ E[s].halted

LEMMA PolicyTold ==
    ASSUME RpcInv
    PROVE  LogTellsPolicy <=> /\ VersionTold(events, policy.version)
                              /\ Once(events) => (is_halted(policy) <=> HaltTold(events))
  <1>1. is_halted(policy) \in BOOLEAN
    BY PolicyEvents DEF RpcInv, StoreOK
  <1>2. DOMAIN events = 1..Len(events)
    BY Positions
  <1>3. HaltTold(events) <=> \E s \in DOMAIN events :
            /\ events[s].name = "halt" /\ events[s].halted
            /\ \A t \in DOMAIN events : events[t].name = "halt" => t <= s
    BY <1>2 DEF HaltTold, LastOf
  <1>4. VersionTold(events, policy.version) <=> \A s \in DOMAIN events :
            events[s].name = "policy" /\ (\A t \in DOMAIN events : events[t].name = "policy" => t <= s)
            => events[s].version = policy.version
    BY <1>2 DEF VersionTold, LastOf
  <1>5. Once(events) <=> VersionsDiffer
    BY <1>2 DEF Once, VersionsDiffer
  <1> QED
    BY <1>1, <1>3, <1>4, <1>5, Zenon DEF LogTellsPolicy

LEMMA PolicyToldNext ==
    ASSUME RpcInv', VersionTold(events', policy'.version),
           Once(events') => (is_halted(policy') <=> HaltTold(events'))
    PROVE  LogTellsPolicy'
  <1>1. is_halted(policy') \in BOOLEAN
    <2>1. policy' \in Policies
      BY DEF RpcInv, StoreOK
    <2> QED
      BY <2>1, PolicyEvents
  <1>2. DOMAIN events' = 1..Len(events')
    BY DEF RpcInv, StoreOK
  <1>3. HaltTold(events') <=> \E s \in DOMAIN events' :
            /\ events'[s].name = "halt" /\ events'[s].halted
            /\ \A t \in DOMAIN events' : events'[t].name = "halt" => t <= s
    BY <1>2 DEF HaltTold, LastOf
  <1>4. \A s \in DOMAIN events' :
            events'[s].name = "policy" /\ (\A t \in DOMAIN events' : events'[t].name = "policy" => t <= s)
            => events'[s].version = policy'.version
    BY <1>2 DEF VersionTold, LastOf
  <1>5. Once(events') <=> VersionsDiffer'
    BY <1>2 DEF Once, VersionsDiffer
  <1> QED
    BY <1>1, <1>3, <1>4, <1>5, Zenon DEF LogTellsPolicy, is_halted

\* Where the last event of a name is in a log that grew.
LEMMA LastOld ==
    ASSUME NEW E \in Seq(Events), NEW es \in Seq(Events), NEW name,
           \A k \in 1..Len(es) : es[k].name # name
    PROVE  /\ \A s \in 1..Len(E) : LastOf(E \o es, name, s) <=> LastOf(E, name, s)
           /\ \A s \in 1..Len(E \o es) : LastOf(E \o es, name, s) => s \in 1..Len(E)
  <1> DEFINE F == E \o es
  <1>1. /\ \A k \in 1..Len(E) : F[k] = E[k] /\ k \in 1..Len(F)
        /\ \A k \in 1..Len(es) : F[Len(E) + k] = es[k]
        /\ \A k \in 1..Len(F) : k \in 1..Len(E) \/ \E j \in 1..Len(es) : k = Len(E) + j
    BY LogGrows
  <1> HIDE DEF F
  <1>2. \A k \in 1..Len(F) : F[k].name = name => k \in 1..Len(E)
    BY <1>1
  <1> QED
    BY <1>1, <1>2 DEF LastOf, F

LEMMA LastNew ==
    ASSUME NEW E \in Seq(Events), NEW es \in Seq(Events), NEW name, NEW k \in 1..Len(es),
           LastOf(es, name, k)
    PROVE  /\ Len(E) + k \in 1..Len(E \o es) /\ (E \o es)[Len(E) + k] = es[k]
           /\ LastOf(E \o es, name, Len(E) + k)
           /\ \A s \in 1..Len(E \o es) : LastOf(E \o es, name, s) => s = Len(E) + k
  <1> DEFINE F == E \o es
             p == Len(E) + k
  <1>1. /\ Len(E) \in Nat /\ Len(es) \in Nat /\ Len(F) \in Nat
        /\ \A j \in 1..Len(E) : F[j] = E[j] /\ j \in 1..Len(F)
        /\ \A j \in 1..Len(es) : F[Len(E) + j] = es[j] /\ Len(E) + j \in 1..Len(F)
        /\ \A j \in 1..Len(F) : j \in 1..Len(E) \/ \E i \in 1..Len(es) : j = Len(E) + i
    BY LogGrows
  <1>2. p \in 1..Len(F) /\ F[p] = es[k] /\ F[p].name = name /\ p \in Nat
    BY <1>1 DEF LastOf
  <1> HIDE DEF F
  <1>3. ASSUME NEW t \in 1..Len(F), F[t].name = name PROVE t <= p
    <2>1. CASE t \in 1..Len(E)
      BY <1>1, <2>1
    <2>2. ASSUME NEW i \in 1..Len(es), t = Len(E) + i PROVE t <= p
      <3>1. F[t] = es[i]
        BY <1>1, <2>2
      <3>2. i <= k
        BY <1>3, <3>1 DEF LastOf
      <3> QED
        BY <1>1, <2>2, <3>2
    <2> QED
      BY <1>1, <2>1, <2>2
  <1> HIDE DEF p
  <1>4. LastOf(F, name, p)
    BY <1>2, <1>3 DEF LastOf
  <1>5. ASSUME NEW s \in 1..Len(F), LastOf(F, name, s) PROVE s = p
    <2>1. s <= p /\ p <= s
      BY <1>2, <1>3, <1>5 DEF LastOf
    <2> QED
      BY <1>1, <1>2, <2>1
  <1> QED
    BY <1>2, <1>4, <1>5 DEF F, p

LEMMA HaltStays ==
    ASSUME NEW E \in Seq(Events), NEW es \in Seq(Events), \A k \in 1..Len(es) : es[k].name # "halt"
    PROVE  HaltTold(E \o es) <=> HaltTold(E)
  <1>1. \A k \in 1..Len(E) : (E \o es)[k] = E[k] /\ k \in 1..Len(E \o es)
    BY LogGrows
  <1>2. /\ \A s \in 1..Len(E) : LastOf(E \o es, "halt", s) <=> LastOf(E, "halt", s)
        /\ \A s \in 1..Len(E \o es) : LastOf(E \o es, "halt", s) => s \in 1..Len(E)
    BY LastOld
  <1> QED
    BY <1>1, <1>2 DEF HaltTold

LEMMA HaltAnew ==
    ASSUME NEW E \in Seq(Events), NEW es \in Seq(Events), NEW k \in 1..Len(es), LastOf(es, "halt", k)
    PROVE  HaltTold(E \o es) <=> es[k].halted
  BY LastNew DEF HaltTold

LEMMA VersionStays ==
    ASSUME NEW E \in Seq(Events), NEW es \in Seq(Events), NEW v, VersionTold(E, v),
           \A k \in 1..Len(es) : es[k].name # "policy"
    PROVE  VersionTold(E \o es, v)
  <1>1. \A k \in 1..Len(E) : (E \o es)[k] = E[k]
    BY LogGrows
  <1>2. /\ \A s \in 1..Len(E) : LastOf(E \o es, "policy", s) <=> LastOf(E, "policy", s)
        /\ \A s \in 1..Len(E \o es) : LastOf(E \o es, "policy", s) => s \in 1..Len(E)
    BY LastOld
  <1> QED
    BY <1>1, <1>2 DEF VersionTold

LEMMA VersionAnew ==
    ASSUME NEW E \in Seq(Events), NEW es \in Seq(Events), NEW k \in 1..Len(es), LastOf(es, "policy", k)
    PROVE  VersionTold(E \o es, es[k].version)
  BY LastNew DEF VersionTold

LEMMA OncePrefix ==
    ASSUME NEW E \in Seq(Events), NEW es \in Seq(Events), Once(E \o es)
    PROVE  Once(E)
  <1>1. \A k \in 1..Len(E) : (E \o es)[k] = E[k] /\ k \in 1..Len(E \o es)
    BY LogGrows
  <1> QED
    BY <1>1 DEF Once

\* A step that writes no policy says nothing of it.
LEMMA OtherStepTellsPolicy ==
    ASSUME RpcInv, RpcInv', LogTellsPolicy, policy' = policy, NEW es \in Seq(Events),
           \A k \in 1..Len(es) : es[k].name \in {"intent", "corruption"}, events' = events \o es
    PROVE  LogTellsPolicy'
  <1>1. /\ events \in Seq(Events) /\ VersionTold(events, policy.version)
        /\ Once(events) => (is_halted(policy) <=> HaltTold(events))
    BY PolicyTold DEF RpcInv, StoreOK
  <1>2. VersionTold(events', policy'.version)
    BY <1>1, VersionStays
  <1>3. HaltTold(events') <=> HaltTold(events)
    BY <1>1, HaltStays
  <1>4. Once(events') => Once(events)
    BY <1>1, OncePrefix
  <1> QED
    BY <1>1, <1>2, <1>3, <1>4, PolicyToldNext

LEMMA PolicyWriteTellsPolicy ==
    ASSUME RpcInv, RpcInv', LogTellsPolicy, NEW n \in 1..Len(tasks),
           PolicySetWrite(n) \/ EmergencyStopWrite(n), Once(events') => tasks[n].read = policy
    PROVE  LogTellsPolicy'
  <1> DEFINE e == PolicyEvent(policy')
             h == HaltEvent(is_halted(policy'))
             g == HaltEvent(TRUE)
  <1>0. events \in Seq(Events) /\ (Once(events) => (is_halted(policy) <=> HaltTold(events)))
    BY PolicyTold DEF RpcInv, StoreOK
  <1>1. /\ policy' \in Policies
        /\ \/ events' = events \o <<e>> /\ is_halted(tasks[n].read) = is_halted(policy')
           \/ events' = events \o <<e, h>>
           \/ events' = events \o <<g, e>> /\ is_halted(policy')
    BY PolicyStepEvents
  <1>2. e \in Events /\ h \in Events /\ g \in Events
    BY <1>1, PolicyEvents
  <1>3. /\ e.name = "policy" /\ h.name = "halt" /\ g.name = "halt"
        /\ e.version = policy'.version
    BY DEF PolicyEvent, HaltEvent
  <1>4. (h.halted <=> is_halted(policy')) /\ g.halted
    BY DEF HaltEvent
  <1> HIDE DEF e, h, g
  <1>5. CASE events' = events \o <<e>> /\ is_halted(tasks[n].read) = is_halted(policy')
    <2> DEFINE es == <<e>>
    <2>1. es \in Seq(Events) /\ Len(es) = 1 /\ es[1] = e
      BY <1>2, OneEvent
    <2>2. events' = events \o es
      BY <1>5
    <2>3. 1 \in 1..1 /\ \A k \in 1..1 : k = 1
      OBVIOUS
    <2> HIDE DEF es
    <2>4. LastOf(es, "policy", 1) /\ \A k \in 1..Len(es) : es[k].name # "halt"
      BY <1>3, <2>1, <2>3 DEF LastOf
    <2>5. VersionTold(events', policy'.version)
      BY <1>0, <1>3, <2>1, <2>2, <2>3, <2>4, VersionAnew
    <2>6. HaltTold(events') <=> HaltTold(events)
      BY <1>0, <2>1, <2>2, <2>4, HaltStays
    <2>7. Once(events') => Once(events)
      BY <1>0, <2>1, <2>2, OncePrefix
    <2> QED
      BY <1>0, <1>5, <2>5, <2>6, <2>7, PolicyToldNext
  <1>6. CASE events' = events \o <<e, h>>
    <2> DEFINE es == <<e, h>>
    <2>1. es \in Seq(Events) /\ Len(es) = 2 /\ es[1] = e /\ es[2] = h
      BY <1>2, TwoEvents
    <2>2. events' = events \o es
      BY <1>6
    <2>3. 1 \in 1..2 /\ 2 \in 1..2 /\ \A k \in 1..2 : k = 1 \/ k = 2
      OBVIOUS
    <2> HIDE DEF es
    <2>4. LastOf(es, "policy", 1) /\ LastOf(es, "halt", 2)
      BY <1>3, <2>1, <2>3 DEF LastOf
    <2>5. VersionTold(events', policy'.version)
      BY <1>0, <1>3, <2>1, <2>2, <2>3, <2>4, VersionAnew
    <2>6. HaltTold(events') <=> h.halted
      BY <1>0, <2>1, <2>2, <2>3, <2>4, HaltAnew
    <2> QED
      BY <1>4, <2>5, <2>6, PolicyToldNext
  <1>7. CASE events' = events \o <<g, e>> /\ is_halted(policy')
    <2> DEFINE es == <<g, e>>
    <2>1. es \in Seq(Events) /\ Len(es) = 2 /\ es[1] = g /\ es[2] = e
      BY <1>2, TwoEvents
    <2>2. events' = events \o es
      BY <1>7
    <2>3. 1 \in 1..2 /\ 2 \in 1..2 /\ \A k \in 1..2 : k = 1 \/ k = 2
      OBVIOUS
    <2> HIDE DEF es
    <2>4. LastOf(es, "policy", 2) /\ LastOf(es, "halt", 1)
      BY <1>3, <2>1, <2>3 DEF LastOf
    <2>5. VersionTold(events', policy'.version)
      BY <1>0, <1>3, <2>1, <2>2, <2>3, <2>4, VersionAnew
    <2>6. HaltTold(events') <=> g.halted
      BY <1>0, <2>1, <2>2, <2>3, <2>4, HaltAnew
    <2> QED
      BY <1>4, <1>7, <2>5, <2>6, PolicyToldNext
  <1> QED
    BY <1>1, <1>5, <1>6, <1>7

\* What the other handlers write to the log.
LEMMA HandleAppends ==
    ASSUME RpcInv, RpcInv', NEW n \in 1..Len(tasks), Handle(n)
    PROVE  \/ PolicySetWrite(n) \/ EmergencyStopWrite(n)
           \/ UNCHANGED <<policy, events>>
           \/ /\ policy' = policy
              /\ \E es \in Seq(Events) : /\ \A k \in 1..Len(es) : es[k].name \in {"intent", "corruption"}
                                         /\ events' = events \o es
  <1>1. CASE ProposeCorrupt(n)
    <2>1. PICK e \in Events : e.name = "corruption" /\ events' = events \o <<e>>
      BY <1>1, CorruptDoes
    <2>2. <<e>> \in Seq(Events) /\ \A k \in 1..Len(<<e>>) : <<e>>[k].name = "corruption"
      BY <2>1
    <2> QED
      BY <1>1, <2>1, <2>2, CorruptDoes
  <1>2. CASE RejectWrite(n)
    <2> DEFINE i == tasks[n].req.target
               e == [name |-> "intent", intent |-> i, status |-> "rejected"]
    <2>1. policy' = policy /\ events' = events \o <<e>>
      BY <1>2 DEF RejectWrite, Committed, tx_insert_events
    <2>2. i \in 1..Len(intents) /\ Len(intents) \in Nat /\ "rejected" \in Statuses
      BY <1>2, TaskReq DEF RejectWrite, At, TaskOK, Statuses, RpcInv, StoreOK
    <2>3. e \in Events /\ e.name = "intent"
      BY <2>2 DEF Events
    <2> HIDE DEF e
    <2>4. <<e>> \in Seq(Events) /\ \A k \in 1..Len(<<e>>) : <<e>>[k].name = "intent"
      BY <2>3
    <2> QED
      BY <2>1, <2>4
  <1>3. CASE ProposeInsert(n)
    <2> DEFINE to == Gated(tasks[n].req.who, tasks[n].read)
               i == Len(intents) + 1
               created == [name |-> "intent", intent |-> i, status |-> "proposed"]
               moved == [name |-> "intent", intent |-> i, status |-> to]
    <2>1. /\ policy' = policy
          /\ events' = events \/ events' = events \o <<created>> \/ events' = events \o <<created, moved>>
      BY <1>3, InsertDoes DEF Committed, tx_insert_events
    <2>2. to \in Statuses /\ i \in Nat /\ "proposed" \in Statuses
      BY GatedStatus DEF RpcInv, StoreOK, Statuses
    <2>3. created \in Events /\ moved \in Events /\ created.name = "intent" /\ moved.name = "intent"
      BY <2>2 DEF Events
    <2> HIDE DEF created, moved
    <2>4. <<created>> \in Seq(Events) /\ \A k \in 1..Len(<<created>>) : <<created>>[k].name = "intent"
      BY <2>3
    <2>5. <<created, moved>> \in Seq(Events) /\ \A k \in 1..Len(<<created, moved>>) : <<created, moved>>[k].name = "intent"
      BY <2>3
    <2> QED
      BY <2>1, <2>4, <2>5
  <1> QED
    BY <1>1, <1>2, <1>3, HandleDoes

(***************************************************************************)
(* The policy a write replaces                                             *)
(***************************************************************************)

LEMMA LoggedStays ==
    ASSUME NEW E \in Seq(Events), NEW es \in Seq(Events), NEW v, Logged(E, v)
    PROVE  Logged(E \o es, v)
  <1>1. \A k \in 1..Len(E) : (E \o es)[k] = E[k] /\ k \in 1..Len(E \o es)
    BY LogGrows
  <1> QED
    BY <1>1 DEF Logged

\* A version told again is told twice.
LEMMA ToldTwice ==
    ASSUME NEW E \in Seq(Events), NEW es \in Seq(Events), NEW v, Logged(E, v), Logged(es, v)
    PROVE  ~Once(E \o es)
  <1>1. /\ Len(E) \in Nat
        /\ \A k \in 1..Len(E) : (E \o es)[k] = E[k] /\ k \in 1..Len(E \o es)
        /\ \A k \in 1..Len(es) : (E \o es)[Len(E) + k] = es[k] /\ Len(E) + k \in 1..Len(E \o es)
    BY LogGrows
  <1>2. PICK s \in 1..Len(E) : E[s].name = "policy" /\ E[s].version = v
    BY DEF Logged
  <1>3. PICK t \in 1..Len(es) : es[t].name = "policy" /\ es[t].version = v
    BY DEF Logged
  <1>4. s # Len(E) + t
    BY <1>1, <1>2, <1>3
  <1> QED
    BY <1>1, <1>2, <1>3, <1>4 DEF Once

LEMMA LoggedNew ==
    ASSUME NEW E \in Seq(Events), NEW es \in Seq(Events), NEW v, Logged(es, v)
    PROVE  Logged(E \o es, v)
  <1>1. \A k \in 1..Len(es) : (E \o es)[Len(E) + k] = es[k] /\ Len(E) + k \in 1..Len(E \o es)
    BY LogGrows
  <1>2. PICK t \in 1..Len(es) : es[t].name = "policy" /\ es[t].version = v
    BY DEF Logged
  <1> QED
    BY <1>1, <1>2 DEF Logged

\* A log that grows tells no less to a handler about to write.
LEMMA ReadStays ==
    ASSUME NEW E \in Seq(Events), NEW es \in Seq(Events), NEW p, NEW t, ReadOK(t, E, p)
    PROVE  ReadOK(t, E \o es, p)
  <1>1. Once(E \o es) => Once(E)
    BY OncePrefix
  <1>2. Logged(E, t.read.version + 1) => Logged(E \o es, t.read.version + 1)
    BY LoggedStays
  <1> QED
    BY <1>1, <1>2 DEF ReadOK, Replaces

\* A write of the policy tells the version after the one its handler read, and
\* if the log still tells each version once, that was the policy it replaced.
LEMMA PolicyWriteReplaces ==
    ASSUME RpcInv, PolicyInv, NEW n \in 1..Len(tasks), PolicySetWrite(n) \/ EmergencyStopWrite(n)
    PROVE  /\ policy'.version = tasks[n].read.version + 1
           /\ \E es \in Seq(Events) : events' = events \o es /\ Logged(es, policy'.version)
           /\ Once(events') => tasks[n].read = policy
  <1> DEFINE e == PolicyEvent(policy')
             h == HaltEvent(is_halted(policy'))
             g == HaltEvent(TRUE)
             v == policy'.version
  <1>0. events \in Seq(Events) /\ tasks[n].req \in Reqs /\ tasks[n].read \in Policies
    BY TaskReq DEF RpcInv, StoreOK
  <1>1. /\ policy' \in Policies
        /\ events' = events \o <<e>> \/ events' = events \o <<e, h>> \/ events' = events \o <<g, e>>
    BY PolicyStepEvents
  <1>2. e \in Events /\ h \in Events /\ g \in Events
    BY <1>1, PolicyEvents
  <1>3. e.name = "policy" /\ e.version = v
    BY DEF PolicyEvent
  <1>4. ReadOK(tasks[n], events, policy) /\ IsPolicy(tasks[n].req) /\ tasks[n].pc = "write"
    BY PolicyWriteDoes DEF PolicyInv
  <1>5. v = tasks[n].read.version + 1
    <2>1. CASE PolicySetWrite(n)
      BY <1>4, <2>1 DEF PolicySetWrite, At, ReadOK
    <2>2. CASE EmergencyStopWrite(n)
      <3>1. policy' = apply_emergency(tasks[n].read, tasks[n].req.mode) /\ tasks[n].req.method = "stop"
        BY <2>2 DEF EmergencyStopWrite, At
      <3>2. tasks[n].req.mode \in Modes
        BY <1>0, <3>1, ReqKinds DEF StopReqs
      <3> QED
        BY <1>0, <3>1, <3>2, EmergencyPolicy
    <2> QED
      BY <2>1, <2>2
  <1> HIDE DEF e, h, g, v
  <1>6. /\ <<e>> \in Seq(Events) /\ Logged(<<e>>, v)
        /\ <<e, h>> \in Seq(Events) /\ Logged(<<e, h>>, v)
        /\ <<g, e>> \in Seq(Events) /\ Logged(<<g, e>>, v)
    <2>1. /\ <<e>> \in Seq(Events) /\ Len(<<e>>) = 1 /\ <<e>>[1] = e
          /\ <<e, h>> \in Seq(Events) /\ Len(<<e, h>>) = 2 /\ <<e, h>>[1] = e
          /\ <<g, e>> \in Seq(Events) /\ Len(<<g, e>>) = 2 /\ <<g, e>>[2] = e
      BY <1>2, OneEvent, TwoEvents
    <2>2. 1 \in 1..1 /\ 1 \in 1..2 /\ 2 \in 1..2
      OBVIOUS
    <2> QED
      BY <1>3, <2>1, <2>2 DEF Logged
  <1>7. PICK es \in Seq(Events) : events' = events \o es /\ Logged(es, v)
    BY <1>1, <1>6
  <1>8. Once(events') => Once(events) /\ ~Logged(events, v)
    BY <1>0, <1>7, OncePrefix, ToldTwice
  <1>9. Once(events') => tasks[n].read = policy
    BY <1>4, <1>5, <1>8 DEF ReadOK, Replaces
  <1> QED
    BY <1>5, <1>7, <1>9 DEF v

\* What the write leaves to a handler that is about to write too.
LEMMA OthersBehind ==
    ASSUME RpcInv, PolicyInv, NEW n \in 1..Len(tasks), PolicySetWrite(n) \/ EmergencyStopWrite(n),
           NEW m \in 1..Len(tasks)
    PROVE  ReadOK(tasks[m], events', policy')
  <1> DEFINE t == tasks[m]
  <1>1. ReadOK(t, events, policy)
    BY DEF PolicyInv
  <1>2. PICK es \in Seq(Events) : events' = events \o es /\ Logged(es, policy'.version)
    BY PolicyWriteReplaces
  <1>3. events \in Seq(Events) /\ t.read.version \in Nat /\ policy.version \in Nat
    BY TaskReq DEF RpcInv, StoreOK, Policies
  <1> HIDE DEF t
  <1>4. ASSUME IsPolicy(t.req), t.pc = "write", Once(events') PROVE Replaces(t.read, events', policy')
    <2>1. policy'.version = policy.version + 1
      BY <1>4, PolicyWriteReplaces
    <2>2. Logged(events', policy'.version)
      BY <1>2, <1>3, LoggedNew
    <2>3. Replaces(t.read, events, policy)
      BY <1>1, <1>2, <1>3, <1>4, OncePrefix DEF ReadOK
    <2>4. CASE t.read = policy
      BY <1>3, <2>1, <2>2, <2>4 DEF Replaces
    <2>5. CASE t.read.version < policy.version /\ Logged(events, t.read.version + 1)
      <3>1. Logged(events', t.read.version + 1)
        BY <1>2, <1>3, <2>5, LoggedStays
      <3>2. t.read.version < policy'.version
        BY <1>3, <2>1, <2>5
      <3> QED
        BY <3>1, <3>2 DEF Replaces
    <2> QED
      BY <2>3, <2>4, <2>5 DEF Replaces
  <1> QED
    BY <1>1, <1>4 DEF ReadOK, t

\* A handler's step as the policy sees it.
LEMMA HandlePolicy ==
    ASSUME RpcInv, NEW n \in 1..Len(tasks), Handle(n)
    PROVE  /\ Len(tasks') = Len(tasks)
           /\ \A m \in 1..Len(tasks) : m # n => tasks'[m] = tasks[m]
           /\ ReadOK(tasks'[n], events', policy')
           /\ PolicySetWrite(n) \/ EmergencyStopWrite(n) => tasks'[n].pc # "write"
  <1>1. tasks \in Seq(Tasks) /\ tasks[n] \in Tasks
    BY DEF RpcInv, TasksOK
  <1>2. PICK u : u \in Tasks /\ u.req = tasks[n].req /\ tasks' = [tasks EXCEPT ![n] = u]
    BY ReadersStep, LookupStep, CorruptStep, InsertStep, RejectWriteStep, PolicyWriteStep
       DEF Handle, HandlerStep, TaskOK
  <1>3. /\ Len(tasks') = Len(tasks) /\ tasks'[n].req = tasks[n].req
        /\ \A m \in 1..Len(tasks) : m # n => tasks'[m] = tasks[m]
    BY <1>1, <1>2
  <1>4. ASSUME NEW ans, Answer(n, ans) PROVE tasks'[n].pc = "answer"
    BY <1>1, <1>4 DEF Answer, Tasks
  <1>5. ASSUME NEW es, NEW ans, Committed(n, es, ans) PROVE tasks'[n].pc = "publish"
    BY <1>1, <1>5 DEF Committed, Tasks
  <1>6. ASSUME NEW pc, ReadPolicy(n, pc) PROVE tasks'[n].read = policy
    BY <1>1, <1>6 DEF ReadPolicy, Tasks
  <1>7. CASE Propose(n) \/ ProposeLookup(n) \/ ProposeCorrupt(n) \/ ProposeInsert(n)
             \/ Reject(n) \/ RejectWrite(n) \/ Get(n) \/ Authorize(n)
    <2>1. ~IsPolicy(tasks[n].req) /\ tasks[n].req.method # "set" /\ tasks[n].req.method # "stop"
      BY <1>7 DEF Propose, ProposeLookup, ProposeCorrupt, ProposeInsert, Reject, RejectWrite, Get, Authorize,
         At, IsPolicy
    <2>2. ~(PolicySetWrite(n) \/ EmergencyStopWrite(n))
      BY <2>1 DEF PolicySetWrite, EmergencyStopWrite, At
    <2> QED
      BY <1>3, <2>1, <2>2 DEF ReadOK
  <1>8. CASE PolicySet(n)
    <2>1. tasks[n].pc = "start" /\ policy' = policy
      BY <1>8 DEF PolicySet, At
    <2>2. ~(PolicySetWrite(n) \/ EmergencyStopWrite(n))
      BY <2>1 DEF PolicySetWrite, EmergencyStopWrite, At
    <2>3. CASE tasks'[n].pc # "write"
      BY <1>3, <2>2, <2>3 DEF ReadOK
    <2>4. CASE tasks'[n].pc = "write"
      <3>1. /\ validate_set(policy, tasks[n].req.policy, tasks[n].req.confirmed) = "none"
            /\ ReadPolicy(n, "write")
        BY <1>4, <1>8, <2>4 DEF PolicySet
      <3>2. tasks[n].req.policy.version = policy.version + 1
        BY <3>1 DEF validate_set
      <3>3. tasks'[n].read = policy
        BY <1>6, <3>1
      <3> QED
        BY <1>3, <2>1, <2>2, <3>2, <3>3 DEF ReadOK, Replaces
    <2> QED
      BY <2>3, <2>4
  <1>9. CASE EmergencyStop(n)
    <2>1. tasks[n].pc = "start" /\ tasks[n].req.method = "stop" /\ policy' = policy
      BY <1>9 DEF EmergencyStop, At
    <2>2. ~(PolicySetWrite(n) \/ EmergencyStopWrite(n))
      BY <2>1 DEF PolicySetWrite, EmergencyStopWrite, At
    <2>3. CASE tasks'[n].pc # "write"
      BY <1>3, <2>2, <2>3 DEF ReadOK
    <2>4. CASE tasks'[n].pc = "write"
      <3>1. tasks'[n].read = policy
        BY <1>4, <1>6, <1>9, <2>4 DEF EmergencyStop
      <3> QED
        BY <1>3, <2>1, <2>2, <3>1 DEF ReadOK, Replaces
    <2> QED
      BY <2>3, <2>4
  <1>10. CASE PolicySetWrite(n) \/ EmergencyStopWrite(n)
    <2>1. tasks'[n].pc = "publish"
      BY <1>5, <1>10, PolicyWriteDoes
    <2> QED
      BY <1>3, <2>1 DEF ReadOK
  <1> QED
    BY <1>7, <1>8, <1>9, <1>10 DEF Handle

LEMMA HandlerPolicy ==
    ASSUME RpcInv, RpcInv', PolicyInv, NEW n \in 1..Len(tasks), handle(n)
    PROVE  PolicyInv'
  <1>0. Handle(n) /\ events \in Seq(Events) /\ LogTellsPolicy
        /\ \A m \in 1..Len(tasks) : ReadOK(tasks[m], events, policy)
    BY DEF handle, RpcInv, StoreOK, PolicyInv
  <1>1. /\ Len(tasks') = Len(tasks)
        /\ \A m \in 1..Len(tasks) : m # n => tasks'[m] = tasks[m]
        /\ ReadOK(tasks'[n], events', policy')
    BY <1>0, HandlePolicy
  <1>2. CASE PolicySetWrite(n) \/ EmergencyStopWrite(n)
    <2>1. LogTellsPolicy'
      BY <1>2, PolicyWriteReplaces, PolicyWriteTellsPolicy DEF PolicyInv
    <2>2. \A m \in 1..Len(tasks) : ReadOK(tasks[m], events', policy')
      BY <1>2, OthersBehind
    <2>3. \A m \in 1..Len(tasks') : ReadOK(tasks'[m], events', policy')
      BY <1>1, <2>2
    <2> QED
      BY <2>1, <2>3 DEF PolicyInv
  <1>3. ASSUME policy' = policy, NEW es \in Seq(Events), events' = events \o es,
               \A k \in 1..Len(es) : es[k].name \in {"intent", "corruption"}
        PROVE  PolicyInv'
    <2>1. LogTellsPolicy'
      BY <1>0, <1>3, OtherStepTellsPolicy
    <2>2. \A m \in 1..Len(tasks) : ReadOK(tasks[m], events', policy')
      BY <1>0, <1>3, ReadStays
    <2>3. \A m \in 1..Len(tasks') : ReadOK(tasks'[m], events', policy')
      BY <1>1, <2>2
    <2> QED
      BY <2>1, <2>3 DEF PolicyInv
  <1>4. CASE UNCHANGED <<policy, events>>
    <2>1. LogTellsPolicy'
      BY <1>0, <1>4 DEF LogTellsPolicy, VersionsDiffer
    <2>2. \A m \in 1..Len(tasks') : ReadOK(tasks'[m], events', policy')
      BY <1>0, <1>1, <1>4
    <2> QED
      BY <2>1, <2>2 DEF PolicyInv
  <1> QED
    BY <1>0, <1>2, <1>3, <1>4, HandleAppends

\* A step that writes no policy and no event and moves no handler to its write.
LEMMA PolicyQuiet ==
    ASSUME PolicyInv, UNCHANGED <<policy, events>>,
           \A m \in 1..Len(tasks') : \/ m \in 1..Len(tasks) /\ tasks'[m] = tasks[m]
                                     \/ tasks'[m].pc # "write"
    PROVE  PolicyInv'
  <1>1. LogTellsPolicy'
    BY DEF PolicyInv, LogTellsPolicy, VersionsDiffer
  <1>2. \A m \in 1..Len(tasks') : ReadOK(tasks'[m], events', policy')
    BY DEF PolicyInv, ReadOK
  <1> QED
    BY <1>1, <1>2 DEF PolicyInv

LEMMA ClientPolicy ==
    ASSUME PolicyInv,
           \/ \E req \in script : Call(req)
           \/ \E n \in 1..Len(calls) : Retry(n) \/ TimerFires(n)
           \/ \E since \in 0..sub.last : subscribe(since)
           \/ unsubscribe \/ close \/ connectionLost \/ Client
    PROVE  PolicyInv'
  <1>1. UNCHANGED <<policy, events, tasks>>
    BY DEF Call, Retry, TimerFires, subscribe, unsubscribe, close, connectionLost, Client,
       onConnect, connectFails, reconnect, handleFrame, Hangup, execdVars
  <1> QED
    BY <1>1, PolicyQuiet

LEMMA ServerPolicy ==
    ASSUME RpcInv, PolicyInv,
           \/ serverReads
           \/ \E n \in 1..Len(tasks) : publish(n) \/ answer(n)
           \/ \E k \in 1..Len(fwd) : replay(k) \/ follow(k)
           \/ start \/ \E i \in Running : stop(i)
           \/ UNCHANGED vars
    PROVE  PolicyInv'
  <1>0. tasks \in Seq(Tasks)
    BY DEF RpcInv, TasksOK
  <1>1. CASE serverReads
    <2>1. UNCHANGED <<policy, events>>
      BY <1>1 DEF serverReads
    <2>2. CASE UNCHANGED tasks
      BY <2>1, <2>2, PolicyQuiet
    <2>3. ASSUME NEW f, tasks' = Append(tasks, Received(f)) PROVE PolicyInv'
      <3>1. Received(f).pc = "start"
        BY DEF Received
      <3>2. /\ Len(tasks') = Len(tasks) + 1 /\ Len(tasks) \in Nat /\ tasks'[Len(tasks) + 1] = Received(f)
            /\ \A m \in 1..Len(tasks) : tasks'[m] = tasks[m]
        BY <1>0, <2>3
      <3>3. \A m \in 1..Len(tasks') : m \in 1..Len(tasks) \/ m = Len(tasks) + 1
        BY <3>2
      <3> QED
        BY <2>1, <3>1, <3>2, <3>3, PolicyQuiet
    <2> QED
      BY <1>1, <2>2, <2>3 DEF serverReads
  <1>2. ASSUME NEW n \in 1..Len(tasks), publish(n) \/ answer(n) PROVE PolicyInv'
    <2>1. UNCHANGED <<policy, events>>
      BY <1>2 DEF publish, answer
    <2>2. tasks[n] \in Tasks
      BY <1>0
    <2>3. /\ Len(tasks') = Len(tasks) /\ \A m \in 1..Len(tasks) : m # n => tasks'[m] = tasks[m]
          /\ tasks'[n].pc # "write"
      <3>1. CASE publish(n)
        <4> DEFINE rest == Tail(tasks[n].out)
                   pc == IF rest = <<>> THEN "answer" ELSE "publish"
        <4>1. tasks' = [tasks EXCEPT ![n].out = rest, ![n].pc = pc]
          BY <3>1 DEF publish
        <4>2. pc # "write"
          OBVIOUS
        <4> HIDE DEF rest, pc
        <4> QED
          BY <1>0, <2>2, <4>1, <4>2 DEF Tasks
      <3>2. CASE answer(n)
        <4>1. tasks' = [tasks EXCEPT ![n].pc = "done"]
          BY <3>2 DEF answer
        <4> QED
          BY <1>0, <2>2, <4>1 DEF Tasks
      <3> QED
        BY <1>2, <3>1, <3>2
    <2>4. \A m \in 1..Len(tasks') : \/ m \in 1..Len(tasks) /\ tasks'[m] = tasks[m]
                                    \/ tasks'[m].pc # "write"
      BY <2>3
    <2> QED
      BY <2>1, <2>4, PolicyQuiet
  <1>3. ASSUME NEW i, stop(i) PROVE PolicyInv'
    <2>1. UNCHANGED <<policy, events>> /\ exit(i)
      BY <1>3 DEF stop, exit
    <2>2. Len(tasks') = Len(tasks) /\ \A n \in 1..Len(tasks) : tasks'[n].pc = "done"
      <3>1. Len(tasks') = Len(tasks) /\ \A n \in 1..Len(tasks) : tasks'[n] = Ended(tasks[n])
        BY <2>1, EndedTasks
      <3>2. \A n \in 1..Len(tasks) : Ended(tasks[n]).pc = "done"
        BY EndedTask DEF RpcInv, TasksOK
      <3> QED
        BY <3>1, <3>2
    <2>3. \A m \in 1..Len(tasks') : tasks'[m].pc # "write"
      BY <2>2
    <2> QED
      BY <2>1, <2>3, PolicyQuiet
  <1>4. CASE start \/ (\E k \in 1..Len(fwd) : replay(k) \/ follow(k)) \/ UNCHANGED vars
    <2>1. UNCHANGED <<policy, events, tasks>>
      BY <1>4 DEF start, bootstrap, replay, follow, vars, execdVars
    <2> QED
      BY <2>1, PolicyQuiet
  <1> QED
    BY <1>1, <1>2, <1>3, <1>4

LEMMA PolicyInvStep ==
    ASSUME RpcInv, RpcInv', PolicyInv, [Next]_vars
    PROVE  PolicyInv'
  <1>1. CASE Next
    BY <1>1, Positions, ClientPolicy, HandlerPolicy, ServerPolicy DEF Next, Server
  <1>2. CASE UNCHANGED vars
    BY <1>2, ServerPolicy
  <1> QED
    BY <1>1, <1>2

\* app.rs:72, :112: the last policy event carries the version of the policy
\* however its writes overlap, and the log is right about the halt unless it
\* carries one version twice, in spite of reads that are a step before the
\* write, time-outs, reconnects and crashes.
THEOREM LogTellsEveryChange == Spec => []LogTellsAll
  <1>1. Init => PolicyInv
    <2> SUFFICES ASSUME Init PROVE PolicyInv
      OBVIOUS
    <2>1. events = <<>> /\ tasks = <<>> /\ policy = default_policy
      BY DEF Init, ExecdInit
    <2>2. ~is_halted(policy)
      BY <2>1 DEF is_halted, default_policy
    <2>3. LogTellsPolicy
      <3>1. RpcInv
        BY InitOK
      <3>2. VersionTold(events, policy.version) /\ ~HaltTold(events)
        BY <2>1 DEF VersionTold, HaltTold
      <3> QED
        BY <2>2, <3>1, <3>2, PolicyTold
    <2> QED
      BY <2>1, <2>3 DEF PolicyInv
  <1>2. RpcInv /\ RpcInv' /\ PolicyInv /\ [Next]_vars => PolicyInv'
    BY PolicyInvStep
  <1>3. LogTellsIntents /\ DeliveredInOrder /\ PolicyInv => LogTellsAll
    BY DEF LogTellsAll, PolicyInv
  <1> QED
    BY <1>1, <1>2, <1>3, AlwaysRpcInv, LogTellsEveryIntent, PTL DEF Spec
=============================================================================
