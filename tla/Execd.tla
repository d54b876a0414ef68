------------------------------- MODULE Execd -------------------------------
(***************************************************************************)
(* execd, the single writer of the execution database (crates/execd): the  *)
(* instance lock and the writer lease, the store, the policy, the intents  *)
(* and the event log.                                                      *)
(*                                                                         *)
(* Every request runs in a task of its own on a multi-threaded runtime.    *)
(* The store's connection is behind a mutex, so one store call is one      *)
(* atomic step and everything between two store calls of a handler can be  *)
(* interleaved with other requests: a handler that reads, decides and then *)
(* writes is two or three steps here, as it is there.                      *)
(*                                                                         *)
(* An intent is named by its position in the table; a proposal's content   *)
(* (account, surface and canonical parameters) is one value; the numeric   *)
(* rules of a kind are the Boolean sound.                                  *)
(***************************************************************************)
EXTENDS Naturals, Sequences

CONSTANTS Keys,        \* idempotency keys a caller may send
          Bodies,      \* the terms of a proposal, told apart by the canonical JSON
          MaxStarts    \* bound: starts of an execd process on the data directory

ASSUME MaxStartsAssumption == MaxStarts \in Nat \ {0}

NoKey == "no key"

\* An execd process is named by the number of its start; 0 is nobody.
Instances == 1..MaxStarts
Nobody == 0

Statuses == {"proposed", "rejected", "awaiting_approval", "authorized",
             "recorded", "dispatching", "execution_unknown", "executing",
             "completed", "canceled", "expired"}

\* The edges of the table intent_status; a self loop is no transition.
Edges ==
    ({"proposed"} \X {"rejected", "awaiting_approval", "authorized",
                      "recorded", "expired"})
    \cup ({"awaiting_approval"} \X {"authorized", "expired", "rejected"})
    \cup ({"authorized"} \X {"dispatching", "rejected", "expired", "canceled"})
    \cup ({"dispatching"} \X {"executing", "rejected", "execution_unknown",
                              "canceled"})
    \cup ({"execution_unknown"} \X {"executing", "canceled"})
    \cup ({"executing"} \X {"completed", "canceled"})
canTransition(from, to) == <<from, to>> \in Edges

Modes == {"run", "stop_opening", "flatten_only", "halt_all"}
severity(mode) == CASE mode = "run" -> 0 [] mode = "stop_opening" -> 1
                    [] mode = "flatten_only" -> 2 [] mode = "halt_all" -> 3
Authorities == {"observe", "draft", "paper", "live_capped"}

\* valid stands for the rules of v1 on the remaining fields: the main
\* account's switches, live_capped_enabled off, max_naked_seconds at least 1.
Policies == [version : Nat, mode : Modes, authority : Authorities,
             stop : BOOLEAN, valid : BOOLEAN]
default_policy == [version |-> 0, mode |-> "run", authority |-> "observe",
                   stop |-> FALSE, valid |-> TRUE]
is_halted(p) == p.stop \/ p.mode = "halt_all"

Surfaces == {"rpc", "model", "mcp", "internal"}
ProposeReqs == [method : {"propose"}, who : {"user", "agent"},
                surface : Surfaces, account : {"main", "sub"},
                kind : {"transfer", "order"}, sound : BOOLEAN,
                key : Keys \cup {NoKey}, body : Bodies]
TargetReqs == [method : {"reject", "get"}, target : Nat]
SetReqs == [method : {"set"}, policy : Policies, confirmed : BOOLEAN]
StopReqs == [method : {"stop"}, mode : Modes \ {"run"}]
OtherReqs == [method : {"authorize"}]
Reqs == ProposeReqs \cup TargetReqs \cup SetReqs \cup StopReqs \cup OtherReqs

Intents == [who : {"user", "agent"}, account : {"main", "sub"},
            surface : Surfaces, key : Keys \cup {NoKey}, body : Bodies,
            status : Statuses]

\* What an event tells: the intent and its status, or the policy's version
\* and whether the desk is halted.
Events == [name : {"intent"}, intent : Nat, status : Statuses]
    \cup  [name : {"policy"}, version : Nat]
    \cup  [name : {"halt"}, halted : BOOLEAN]
    \cup  [name : {"corruption"}, intent : Nat]

VARIABLES
    lock,      \* holder of run/execd.lock
    lease,     \* writer_lease.epoch, durable
    epoch,     \* lease_epoch each started instance holds (0: not running)
    starts,    \* starts so far
    policy,    \* the policy row, durable
    intents,   \* the table intents, durable
    events,    \* the table events, durable: seq is the position
    tasks      \* requests received: what each one is about to do

execdVars == <<lock, lease, epoch, starts, policy, intents, events, tasks>>

Pcs == {"start", "lookup", "corrupt", "insert", "write", "publish", "answer",
        "done"}

\* read is what the handler read and decides on; out the committed events it
\* has yet to publish; ans what it will answer.
Answers == [ok : BOOLEAN, kind : {"none", "intent", "policy", "invalid",
              "forbidden", "conflict", "not_found", "invalid_transition",
              "internal", "unavailable"}, intent : Nat]
NoAnswer == [ok |-> FALSE, kind |-> "none", intent |-> 0]
Good(kind, i) == [ok |-> TRUE, kind |-> kind, intent |-> i]
Bad(kind) == [ok |-> FALSE, kind |-> kind, intent |-> 0]

Tasks == [req : Reqs, pc : Pcs, read : Policies, out : Seq(Nat), ans : Answers]

ExecdTypeOK ==
    /\ lock \in Instances \cup {Nobody}
    /\ lease \in Nat /\ starts \in Instances
    /\ epoch \in [Instances -> Nat]
    /\ policy \in Policies
    /\ intents \in Seq(Intents)
    /\ events \in Seq(Events)
    /\ tasks \in Seq(Tasks)

\* The state after a first start on an empty data directory.
ExecdInit ==
    /\ lock = 1
    /\ lease = 1 /\ starts = 1
    /\ epoch = [i \in Instances |-> IF i = 1 THEN 1 ELSE 0]
    /\ policy = default_policy
    /\ intents = <<>> /\ events = <<>> /\ tasks = <<>>

Running == {i \in Instances : epoch[i] > 0}

(***************************************************************************)
(* The process                                                             *)
(***************************************************************************)

\* flock(LOCK_EX | LOCK_NB): refused while another process holds it.
TakesLockAnyway == TRUE
TakesLock == lock = Nobody

\* bootstrap: lock, open and migrate, take the lease of every lane, bind the
\* socket. A start that finds the lock held fails with nothing written.
bootstrap ==
    /\ starts < MaxStarts
    /\ TakesLock
    /\ starts' = starts + 1
    /\ lock' = starts + 1
    /\ lease' = lease + 1
    /\ epoch' = [epoch EXCEPT ![starts + 1] = lease + 1]
    /\ UNCHANGED <<policy, intents, events, tasks>>

\* The process ends, by a signal or a crash: the kernel releases the lock and
\* every task of it is gone, whatever it had still to do.
exit(i) ==
    /\ i \in Running
    /\ epoch' = [epoch EXCEPT ![i] = 0]
    /\ lock' = IF lock = i THEN Nobody ELSE lock
    /\ tasks' = [n \in DOMAIN tasks |-> [tasks[n] EXCEPT !.pc = "done"]]
    /\ UNCHANGED <<lease, starts, policy, intents, events>>

(***************************************************************************)
(* Requests                                                                *)
(***************************************************************************)

\* dispatch spawns a task for the request; n is its number.
Received(req) == [req |-> req, pc |-> "start", read |-> default_policy,
                  out |-> <<>>, ans |-> NoAnswer]

Step(n, pc) == tasks' = [tasks EXCEPT ![n].pc = pc]
Answer(n, ans) == tasks' = [tasks EXCEPT ![n].pc = "answer", ![n].ans = ans]
ReadPolicy(n, pc) ==
    tasks' = [tasks EXCEPT ![n].pc = pc, ![n].read = policy]

\* The writes of a transaction; an event gets the next seq.
tx_insert_intent(row) == intents' = Append(intents, row)
tx_update_intent(i, status) == intents' = [intents EXCEPT ![i].status = status]
tx_insert_events(es) == events' = events \o es

\* A transaction appends the events es and ends the handler's writes.
Committed(n, es, ans) ==
    /\ tx_insert_events(es)
    /\ tasks' = [tasks EXCEPT ![n].pc = "publish", ![n].ans = ans,
                   ![n].out = [k \in 1..Len(es) |-> Len(events) + k]]

At(n, method, pc) == tasks[n].req.method = method /\ tasks[n].pc = pc

\* What validate_propose answers: nothing, or the kind of the error.
validate_propose(r) ==
    IF r.account = "main" /\ r.who # "user" THEN "forbidden"
    ELSE IF r.kind = "transfer" /\ ~(r.who = "user" /\ r.surface = "rpc")
    THEN "forbidden"
    ELSE IF ~r.sound THEN "invalid" ELSE "none"

Propose(n) ==
    /\ At(n, "propose", "start")
    /\ LET bad == validate_propose(tasks[n].req) IN
       \/ bad # "none" /\ Answer(n, Bad(bad))
       \/ bad = "none" /\ ReadPolicy(n, "lookup")
    /\ UNCHANGED <<lock, lease, epoch, starts, policy, intents, events>>

\* The rows find_intent_by_idempotency can return: the unique index keeps it
\* to one.
Keyed(who, key) == {i \in DOMAIN intents :
                      key # NoKey /\ intents[i].key = key /\ intents[i].who = who}
SameContent(i, r) == /\ intents[i].account = r.account
                     /\ intents[i].surface = r.surface
                     /\ intents[i].body = r.body

ProposeLookup(n) ==
    /\ At(n, "propose", "lookup")
    /\ LET r == tasks[n].req
           found == Keyed(r.who, r.key) IN
       \/ found = {} /\ Step(n, "insert")
       \/ \E i \in found :
            \/ SameContent(i, r) /\ Answer(n, Good("intent", i))
            \/ ~SameContent(i, r)
               /\ tasks' = [tasks EXCEPT ![n].pc = "corrupt",
                              ![n].ans = [Bad("conflict") EXCEPT !.intent = i]]
    /\ UNCHANGED <<lock, lease, epoch, starts, policy, intents, events>>

ProposeCorrupt(n) ==
    /\ At(n, "propose", "corrupt")
    /\ Committed(n, <<[name |-> "corruption", intent |-> tasks[n].ans.intent]>>,
                 Bad("conflict"))
    /\ UNCHANGED <<lock, lease, epoch, starts, policy, intents>>

\* The status a proposal gets at once under the policy the handler read.
Gated(who, p) ==
    IF is_halted(p) THEN "rejected"
    ELSE IF who # "user" /\ p.authority = "observe" THEN "recorded"
    ELSE "proposed"

\* idx_intents_idem: a second row with the same principal and key is refused
\* and the transaction rolls back.
IndexRefusesNothing(r) == FALSE
IndexRefuses(r) == Keyed(r.who, r.key) # {}

NewIntent(r, status) ==
    [who |-> r.who, account |-> r.account, surface |-> r.surface,
     key |-> r.key, body |-> r.body, status |-> status]

ProposeInsert(n) ==
    /\ At(n, "propose", "insert")
    /\ LET r == tasks[n].req
           to == Gated(r.who, tasks[n].read)
           i == Len(intents) + 1
           created == [name |-> "intent", intent |-> i, status |-> "proposed"]
           moved == [created EXCEPT !.status = to] IN
       \/ /\ IndexRefuses(r)
          /\ Answer(n, Bad("internal"))
          /\ UNCHANGED <<intents, events>>
       \/ /\ ~IndexRefuses(r)
          /\ tx_insert_intent(NewIntent(r, to))
          /\ Committed(n, IF to = "proposed" THEN <<created>>
                          ELSE <<created, moved>>, Good("intent", i))
    /\ UNCHANGED <<lock, lease, epoch, starts, policy>>

\* reject and get read the row; a reject is legal along an edge of the table.
Reject(n) ==
    /\ At(n, "reject", "start")
    /\ LET i == tasks[n].req.target IN
       \/ i \notin DOMAIN intents /\ Answer(n, Bad("not_found"))
       \/ /\ i \in DOMAIN intents
          /\ \/ /\ canTransition(intents[i].status, "rejected")
                /\ Step(n, "write")
             \/ /\ ~canTransition(intents[i].status, "rejected")
                /\ Answer(n, Bad("invalid_transition"))
    /\ UNCHANGED <<lock, lease, epoch, starts, policy, intents, events>>

RejectWriteSilent(n) ==
    /\ At(n, "reject", "write")
    /\ intents' = [intents EXCEPT ![tasks[n].req.target].status = "rejected"]
    /\ Answer(n, Good("intent", tasks[n].req.target))
    /\ UNCHANGED <<lock, lease, epoch, starts, policy, events>>
RejectWrite(n) ==
    /\ At(n, "reject", "write")
    /\ LET i == tasks[n].req.target IN
       /\ tx_update_intent(i, "rejected")
       /\ Committed(n, <<[name |-> "intent", intent |-> i,
                          status |-> "rejected"]>>, Good("intent", i))
    /\ UNCHANGED <<lock, lease, epoch, starts, policy>>

Get(n) ==
    /\ At(n, "get", "start")
    /\ LET i == tasks[n].req.target IN
       Answer(n, IF i \in DOMAIN intents THEN Good("intent", i)
                 ELSE Bad("not_found"))
    /\ UNCHANGED <<lock, lease, epoch, starts, policy, intents, events>>

Authorize(n) ==
    /\ At(n, "authorize", "start")
    /\ Answer(n, Bad("unavailable"))
    /\ UNCHANGED <<lock, lease, epoch, starts, policy, intents, events>>

validate_set(current, next, confirmed) ==
    IF ~confirmed \/ next.version # current.version + 1 THEN "conflict"
    ELSE IF ~next.valid THEN "invalid"
    ELSE IF next.authority = "live_capped" THEN "forbidden" ELSE "none"

PolicySet(n) ==
    /\ At(n, "set", "start")
    /\ LET r == tasks[n].req
           bad == validate_set(policy, r.policy, r.confirmed) IN
       \/ bad # "none" /\ Answer(n, Bad(bad))
       \/ bad = "none" /\ ReadPolicy(n, "write")
    /\ UNCHANGED <<lock, lease, epoch, starts, policy, intents, events>>

\* Whether the halt changed is judged against the policy read at the start.
PolicySetWrite(n) ==
    /\ At(n, "set", "write")
    /\ LET next == tasks[n].req.policy
           changed == [name |-> "policy", version |-> next.version]
           halt == [name |-> "halt", halted |-> is_halted(next)] IN
       /\ policy' = next
       /\ Committed(n, IF is_halted(tasks[n].read) # is_halted(next)
                       THEN <<changed, halt>> ELSE <<changed>>,
                    Good("policy", 0))
    /\ UNCHANGED <<lock, lease, epoch, starts, intents>>

\* An emergency stop only tightens.
Loosens(current, mode) == severity(mode) < severity(current.mode)

apply_emergency(current, mode) ==
    [current EXCEPT !.mode = mode, !.stop = TRUE, !.version = @ + 1]

EmergencyStop(n) ==
    /\ At(n, "stop", "start")
    /\ \/ Loosens(policy, tasks[n].req.mode) /\ Answer(n, Bad("forbidden"))
       \/ ~Loosens(policy, tasks[n].req.mode) /\ ReadPolicy(n, "write")
    /\ UNCHANGED <<lock, lease, epoch, starts, policy, intents, events>>

EmergencyStopWrite(n) ==
    /\ At(n, "stop", "write")
    /\ LET next == apply_emergency(tasks[n].read, tasks[n].req.mode) IN
       /\ policy' = next
       /\ Committed(n, <<[name |-> "halt", halted |-> TRUE],
                         [name |-> "policy", version |-> next.version]>>,
                    Good("policy", 0))
    /\ UNCHANGED <<lock, lease, epoch, starts, intents>>

\* One step of the handler of request n, the publishing and the answer apart:
\* those belong to the connection.
Handle(n) ==
    \/ Propose(n) \/ ProposeLookup(n) \/ ProposeCorrupt(n) \/ ProposeInsert(n)
    \/ Reject(n) \/ RejectWrite(n) \/ Get(n) \/ Authorize(n)
    \/ PolicySet(n) \/ PolicySetWrite(n)
    \/ EmergencyStop(n) \/ EmergencyStopWrite(n)

(***************************************************************************)
(* Properties                                                              *)
(***************************************************************************)

\* However two proposals with one idempotency key race between the lookup and
\* the insert (intents.rs:113, :181), the table holds one intent for it.
OneIntentPerKey ==
    \A i, j \in DOMAIN intents :
        intents[i].key # NoKey /\ intents[i].key = intents[j].key
        /\ intents[i].who = intents[j].who => i = j

\* The last event about an intent tells its status: the row and the event are
\* written in one transaction (store.rs:47), so a subscriber that replays the
\* log knows every intent, across a crash too.
LogTellsIntents ==
    \A i \in DOMAIN intents :
        \E s \in DOMAIN events :
            /\ events[s].name = "intent" /\ events[s].intent = i
            /\ events[s].status = intents[i].status
            /\ \A t \in DOMAIN events :
                 events[t].name = "intent" /\ events[t].intent = i => t <= s

\* Every answered success names a row of the table with the content that was
\* asked for (intents.rs:127): a caller that retries a proposal after a
\* time-out is told of the intent it made, never of another one.
AnswersAreTrue ==
    \A n \in DOMAIN tasks :
        LET t == tasks[n] IN
        t.pc \in {"publish", "answer"} /\ t.req.method = "propose" /\ t.ans.ok
        => /\ t.ans.intent \in DOMAIN intents
           /\ LET i == intents[t.ans.intent] IN
              /\ i.who = t.req.who /\ i.key = t.req.key
              /\ i.account = t.req.account /\ i.surface = t.req.surface
              /\ i.body = t.req.body

\* The instance that runs holds the newest lease (lib.rs:41, app.rs:36): a
\* second execd on the same data directory fails before it takes one.
LeaseIsMine == \A i \in Running : epoch[i] = lease

\* No two policy events of the log carry one version. Two writes that read one
\* policy both make its version plus one, and the log shows it for good.
VersionsDiffer ==
    \A s, t \in DOMAIN events :
        /\ events[s].name = "policy" /\ events[t].name = "policy"
        /\ events[s].version = events[t].version
        => s = t

\* The last policy event carries the version of the policy row, whatever
\* overlaps. policy_set and emergency_stop read the policy before the
\* transaction that writes it and judge there whether the halt changes
\* (app.rs:72, :112), so an overwritten stop can leave a last halt event that
\* is not so; then the log carries one version twice, and a log that does not
\* is right about the halt.
LogTellsPolicy ==
    /\ \A s \in DOMAIN events :
         events[s].name = "policy"
         /\ (\A t \in DOMAIN events : events[t].name = "policy" => t <= s)
         => events[s].version = policy.version
    /\ VersionsDiffer =>
         is_halted(policy) =
         \E s \in DOMAIN events :
            /\ events[s].name = "halt" /\ events[s].halted
            /\ \A t \in DOMAIN events : events[t].name = "halt" => t <= s

=============================================================================
