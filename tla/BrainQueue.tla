----------------------------- MODULE BrainQueue -----------------------------
(***************************************************************************)
(* BrainQueue of packages/gateway/src/demo/queue.ts: one brain call at a   *)
(* time, jobs deduplicated by key, FIFO except for chat turns, which are   *)
(* put at the head.  The queue is synchronous code around one await        *)
(* (next.run()), so an operation of the queue is one step and a running    *)
(* job is a state.                                                         *)
(***************************************************************************)
EXTENDS Naturals, Sequences, Functions

CONSTANTS
    Keys,        \* job keys: scan:<symbol>, review:<thread>, info, chat:<ms>
    ChatKeys,    \* the keys sendChat() enqueues with { priority: true }
    None,        \* this.running === null
    MaxChats     \* bound: chat turns a user sends in one behaviour

ASSUME KeysAssumption == ChatKeys \subseteq Keys /\ None \notin Keys
ASSUME MaxChatsAssumption == MaxChats \in Nat

VARIABLES
    pending,     \* this.pending: the keys of the waiting jobs, head first
    running,     \* this.running?.key, or None
    chats        \* chat turns accepted so far (bounds the behaviour only)

vars == <<pending, running, chats>>

Waiting == Range(pending)

isBusy(k) == running = k \/ k \in Waiting

Init == pending = <<>> /\ running = None /\ chats = 0

\* drain() on the list q: nothing while a job runs or nothing waits, else the
\* head starts.  run() is entered in the same synchronous stretch.
drain(q, r) ==
    IF r # None \/ q = <<>>
    THEN pending' = q /\ running' = r
    ELSE pending' = Tail(q) /\ running' = Head(q)

\* The list after job k has been put into it: unshift for a priority job, push otherwise.
Insert(k) == IF k \in ChatKeys THEN <<k>> \o pending ELSE Append(pending, k)

\* Mutant: the key is looked for among the waiting jobs only.
AcceptsPendingOnly(k) == k \notin Waiting

\* A job that is not deduplicated.  A deduplicated one changes nothing.
Accepts(k) == ~isBusy(k)

enqueue(k) ==
    /\ k \in ChatKeys => chats < MaxChats
    /\ Accepts(k)
    /\ drain(Insert(k), running)
    /\ chats' = IF k \in ChatKeys THEN chats + 1 ELSE chats

\* Mutant: finally { this.running = null; } without the second drain().
finishJobNoDrain == running # None /\ running' = None /\ UNCHANGED <<pending, chats>>

\* Mutant: a job that throws takes the waiting ones with it.
finishJobClears == running # None /\ running' = None /\ pending' = <<>> /\ UNCHANGED chats

\* run() returned or threw: the finally block clears running and drains again.
finishJob ==
    /\ running # None
    /\ drain(pending, None)
    /\ UNCHANGED chats

Next == finishJob \/ \E k \in Keys : enqueue(k)

\* A job ends: every brain, market and exchange call in run() has a time-out.
Fairness == WF_vars(finishJob)

Spec == Init /\ [][Next]_vars
FairSpec == Spec /\ Fairness

-----------------------------------------------------------------------------
\* Every variable has its type: drain() starts a job or leaves running at null.
TypeOK ==
    /\ pending \in Seq(Keys)
    /\ running \in Keys \cup {None}
    /\ chats \in 0..MaxChats

\* No key is queued twice, nor queued while it runs: two scans of one symbol or
\* two reviews of one thread are never in the queue together (enqueue's guard).
NoDuplicateKeys ==
    /\ \A i, j \in DOMAIN pending : pending[i] = pending[j] => i = j
    /\ running \notin Waiting

\* The queue never sits idle on a waiting job: drain() is called on every path
\* that adds a job or ends one, the throwing path included.
WorkConserving == running = None => pending = <<>>

\* The queue is sound on every path of enqueue, drain and the finally block: no
\* key is queued twice or behind itself, and nothing waits on an idle queue.
QueueSafe == TypeOK /\ NoDuplicateKeys /\ WorkConserving

\* A queued job starts eventually (the user sends finitely many chat turns).
EveryJobStarts == \A k \in Keys : k \in Waiting ~> running = k

Abstract == INSTANCE KeyedMutex WITH waiting <- Waiting

\* The queue implements the keyed mutual exclusion its callers rely on.
ImplementsKeyedMutex == Abstract!ASpec
=============================================================================
