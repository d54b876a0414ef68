----------------------------- MODULE DeskProofs -----------------------------
(***************************************************************************)
(* The desk for any watch list, any number of threads, chats and channels, *)
(* and whatever parts are active: the limits of what may be opened, the    *)
(* effects of reviews, the backend of the settings, and the timers.        *)
(*                                                                         *)
(* The limits are checked for the channel that runs, and a channel may be  *)
(* left with threads on it and be taken up again.  The inductive invariant *)
(* therefore speaks of every channel.  The overshoot of the daily cap is   *)
(* bounded by what waits and by the chat turns that may still propose.     *)
(***************************************************************************)
EXTENDS Desk, TLAPS, FiniteSetTheorems, WellFoundedInduction

------------------------------------------------------------------------------
(***************************************************************************)
(* The brain queue, for every set of job keys and any number of chat       *)
(* turns.  IInv is inductive: keys stay distinct only because a running    *)
(* key is also kept out of the list, and the runner takes the head only    *)
(* when nobody runs.                                                       *)
(***************************************************************************)
IInv == TypeOK /\ NoDuplicateKeys /\ WorkConserving

\* The initial queue is empty and idle.
LEMMA InitIInv == Init => IInv
  BY KeysAssumption, MaxChatsAssumption DEF Init, IInv, TypeOK, NoDuplicateKeys, WorkConserving, Waiting, Range

\* drain() of a duplicate-free list that does not hold the running key keeps the
\* list duplicate-free, takes only the head, and leaves no job behind an idle runner.
LEMMA DrainKeeps ==
  ASSUME NEW q \in Seq(Keys), NEW r \in Keys \cup {None},
         \A i, j \in DOMAIN q : q[i] = q[j] => i = j,
         \A i \in DOMAIN q : q[i] # r,
         drain(q, r)
  PROVE  /\ pending' \in Seq(Keys) /\ running' \in Keys \cup {None}
         /\ NoDuplicateKeys' /\ WorkConserving'
  <1>1. CASE r # None \/ q = <<>>
    BY <1>1 DEF drain, NoDuplicateKeys, WorkConserving, Waiting, Range
  <1>2. CASE r = None /\ q # <<>>
    <2>1. pending' = Tail(q) /\ running' = Head(q) /\ Head(q) = q[1] /\ q[1] \in Keys
      BY <1>2 DEF drain
    <2>2. pending' \in Seq(Keys) /\ Len(pending') = Len(q) - 1
      BY <1>2, <2>1
    <2>3. \A i \in DOMAIN pending' : pending'[i] = q[i + 1] /\ i + 1 \in DOMAIN q
      BY <1>2, <2>1, <2>2
    <2>4. NoDuplicateKeys'
      <3>1. \A i, j \in DOMAIN pending' : pending'[i] = pending'[j] => i = j
        BY <2>2, <2>3
      <3>2. \A i \in DOMAIN pending' : pending'[i] # running'
        BY <1>2, <2>1, <2>2, <2>3
      <3> QED
        BY <3>1, <3>2 DEF NoDuplicateKeys, Waiting, Range
    <2> QED
      BY KeysAssumption, <2>1, <2>2, <2>4 DEF WorkConserving
  <1> QED
    BY <1>1, <1>2

\* Both ways of putting a new key into the list keep it duplicate-free.
LEMMA InsertKeeps ==
  ASSUME TypeOK, NoDuplicateKeys, NEW k \in Keys, Accepts(k)
  PROVE  /\ Insert(k) \in Seq(Keys)
         /\ \A i, j \in DOMAIN Insert(k) : Insert(k)[i] = Insert(k)[j] => i = j
         /\ \A i \in DOMAIN Insert(k) : Insert(k)[i] # running
  <1>1. running # k /\ \A i \in DOMAIN pending : pending[i] # k /\ pending[i] # running
    BY DEF Accepts, isBusy, NoDuplicateKeys, Waiting, Range
  <1>2. pending \in Seq(Keys)
    BY DEF TypeOK
  <1>3. CASE k \in ChatKeys
    <2>1. Insert(k) = <<k>> \o pending
      BY <1>3 DEF Insert
    <2>2. Insert(k) \in Seq(Keys) /\ Len(Insert(k)) = Len(pending) + 1
      BY <1>2, <2>1
    <2>3. \A i \in DOMAIN Insert(k) :
             Insert(k)[i] = (IF i = 1 THEN k ELSE pending[i - 1]) /\ (i # 1 => i - 1 \in DOMAIN pending)
      BY <1>2, <2>1, <2>2
    <2> QED
      BY <1>1, <1>2, <2>2, <2>3 DEF NoDuplicateKeys
  <1>4. CASE k \notin ChatKeys
    <2>1. Insert(k) = Append(pending, k)
      BY <1>4 DEF Insert
    <2>2. Insert(k) \in Seq(Keys) /\ Len(Insert(k)) = Len(pending) + 1
      BY <1>2, <2>1
    <2>3. \A i \in DOMAIN Insert(k) :
             IF i = Len(pending) + 1 THEN Insert(k)[i] = k
             ELSE Insert(k)[i] = pending[i] /\ i \in DOMAIN pending
      BY <1>2, <2>1, <2>2
    <2> QED
      BY <1>1, <1>2, <2>2, <2>3 DEF NoDuplicateKeys
  <1> QED
    BY <1>3, <1>4

\* Every step of the queue keeps IInv: one case per operation.
LEMMA NextIInv == IInv /\ [Next]_vars => IInv'
  <1> SUFFICES ASSUME IInv, [Next]_vars PROVE IInv'
    OBVIOUS
  <1> USE DEF IInv
  <1>1. CASE finishJob
    <2>1. \A i, j \in DOMAIN pending : pending[i] = pending[j] => i = j
      BY DEF NoDuplicateKeys
    <2>2. pending \in Seq(Keys) /\ \A i \in DOMAIN pending : pending[i] # None
      BY KeysAssumption DEF TypeOK
    <2>3. drain(pending, None) /\ chats' = chats
      BY <1>1 DEF finishJob
    <2> QED
      BY <2>1, <2>2, <2>3, DrainKeeps DEF TypeOK
  <1>2. ASSUME NEW k \in Keys, enqueue(k) PROVE IInv'
    <2>1. Accepts(k) /\ drain(Insert(k), running)
      BY <1>2 DEF enqueue
    <2>2. chats' \in 0..MaxChats
      BY MaxChatsAssumption, <1>2 DEF enqueue, TypeOK
    <2>3. running \in Keys \cup {None}
      BY DEF TypeOK
    <2> QED
      BY <2>1, <2>2, <2>3, InsertKeeps, DrainKeeps DEF TypeOK
  <1>3. CASE UNCHANGED vars
    BY <1>3 DEF vars, TypeOK, NoDuplicateKeys, WorkConserving, Waiting, Range
  <1> QED
    BY <1>1, <1>2, <1>3 DEF Next

\* For every set of keys and every number of chat turns: no key is queued twice or
\* while it runs, and no job waits on an idle queue, a throwing job included.
THEOREM QueueIsSafe == Spec => []QueueSafe
  <1>1. IInv => QueueSafe
    BY DEF IInv, QueueSafe
  <1> QED
    BY <1>1, InitIInv, NextIInv, PTL DEF Spec

\* A key is in the range of a list iff it stands at one of its positions.
LEMMA RangeMember ==
  ASSUME NEW q \in Seq(Keys), NEW x
  PROVE  x \in Range(q) <=> \E i \in 1..Len(q) : q[i] = x
  BY DEF Range

\* Both ways of putting a key into the list add it to what waits, and nothing else.
LEMMA InsertAdds ==
  ASSUME pending \in Seq(Keys), NEW k \in Keys
  PROVE  Range(Insert(k)) = Waiting \cup {k} /\ Insert(k) # <<>>
  <1>1. CASE k \in ChatKeys
    <2>1. Insert(k) = <<k>> \o pending /\ Len(Insert(k)) = Len(pending) + 1 /\ Insert(k) \in Seq(Keys)
      BY <1>1 DEF Insert
    <2>2. /\ Insert(k)[1] = k
          /\ \A i \in 1..Len(pending) : Insert(k)[i + 1] = pending[i]
          /\ \A i \in 1..(Len(pending) + 1) : i # 1 => Insert(k)[i] = pending[i - 1] /\ i - 1 \in 1..Len(pending)
      BY <2>1
    <2>3. ASSUME NEW x PROVE x \in Range(Insert(k)) <=> x \in Waiting \cup {k}
      <3>1. x \in Range(Insert(k)) <=> \E i \in 1..(Len(pending) + 1) : Insert(k)[i] = x
        BY <2>1, RangeMember
      <3>2. x \in Waiting <=> \E i \in 1..Len(pending) : pending[i] = x
        BY RangeMember DEF Waiting
      <3> QED
        BY <2>2, <3>1, <3>2
    <2> QED
      BY <2>1, <2>3
  <1>2. CASE k \notin ChatKeys
    <2>1. Insert(k) = Append(pending, k) /\ Len(Insert(k)) = Len(pending) + 1 /\ Insert(k) \in Seq(Keys)
      BY <1>2 DEF Insert
    <2>2. /\ Insert(k)[Len(pending) + 1] = k
          /\ \A i \in 1..Len(pending) : Insert(k)[i] = pending[i]
      BY <2>1
    <2>3. ASSUME NEW x PROVE x \in Range(Insert(k)) <=> x \in Waiting \cup {k}
      <3>1. x \in Range(Insert(k)) <=> \E i \in 1..(Len(pending) + 1) : Insert(k)[i] = x
        BY <2>1, RangeMember
      <3>2. x \in Waiting <=> \E i \in 1..Len(pending) : pending[i] = x
        BY RangeMember DEF Waiting
      <3> QED
        BY <2>2, <3>1, <3>2
    <2> QED
      BY <2>1, <2>3
  <1> QED
    BY <1>1, <1>2

\* drain() seen by KeyedMutex: the list loses nothing but the job that starts.
LEMMA DrainMaps ==
  ASSUME NEW q \in Seq(Keys), NEW r \in Keys \cup {None},
         \A i, j \in DOMAIN q : q[i] = q[j] => i = j, drain(q, r)
  PROVE  \/ (r # None \/ q = <<>>) /\ Waiting' = Range(q) /\ running' = r
         \/ /\ r = None /\ running' \in Range(q)
            /\ Waiting' = Range(q) \ {running'}
  <1>1. CASE r # None \/ q = <<>>
    BY <1>1 DEF drain, Waiting
  <1>2. CASE r = None /\ q # <<>>
    <2>1. pending' = Tail(q) /\ running' = q[1]
      BY <1>2 DEF drain
    <2>2. Len(pending') = Len(q) - 1 /\ \A i \in 1..(Len(q) - 1) : pending'[i] = q[i + 1]
      BY <1>2, <2>1
    <2>3. \A i \in 1..Len(q) : i # 1 => i - 1 \in 1..Len(pending') /\ pending'[i - 1] = q[i]
      BY <2>2
    <2>4. pending' \in Seq(Keys) /\ Len(q) \in Nat /\ Len(q) # 0
      BY <1>2, <2>1
    <2>5. Waiting' = Range(q) \ {running'} /\ running' \in Range(q)
      <3>1. running' \in Range(q)
        BY <2>1, <2>4, RangeMember
      <3>2. ASSUME NEW x PROVE x \in Waiting' <=> x \in Range(q) /\ x # running'
        <4>1. x \in Waiting' <=> \E i \in 1..Len(pending') : pending'[i] = x
          BY <2>4, RangeMember DEF Waiting
        <4>2. x \in Range(q) <=> \E i \in 1..Len(q) : q[i] = x
          BY RangeMember
        <4> QED
          BY KeysAssumption, <2>1, <2>2, <2>3, <2>4, <4>1, <4>2
      <3> QED
        BY <3>1, <3>2
    <2> QED
      BY <1>2, <2>5
  <1> QED
    BY <1>1, <1>2

\* Every step of the queue is a step of KeyedMutex on the set of waiting keys.
LEMMA StepMaps == IInv /\ [Next]_vars => [Abstract!ANext]_<<Waiting, running>>
  <1> SUFFICES ASSUME IInv, Next PROVE Abstract!ANext
    BY DEF vars, Waiting, Range
  <1>1. /\ pending \in Seq(Keys) /\ running \in Keys \cup {None}
        /\ \A i, j \in DOMAIN pending : pending[i] = pending[j] => i = j
        /\ running = None => pending = <<>>
    BY DEF IInv, TypeOK, NoDuplicateKeys, WorkConserving
  <1>2. CASE finishJob
    <2>1. running # None /\ drain(pending, None)
      BY <1>2 DEF finishJob
    <2>2. \/ pending = <<>> /\ Waiting' = Waiting /\ running' = None
          \/ running' \in Waiting /\ Waiting' = Waiting \ {running'}
      BY <1>1, <2>1, DrainMaps DEF Waiting
    <2>3. pending = <<>> => Waiting = {}
      BY DEF Waiting, Range
    <2> QED
      BY <2>1, <2>2, <2>3 DEF Abstract!ANext, Abstract!Release
  <1>3. ASSUME NEW k \in Keys, enqueue(k) PROVE Abstract!ANext
    <2>1. Accepts(k) /\ drain(Insert(k), running) /\ k \notin Waiting \cup {running}
      BY <1>3 DEF enqueue, Accepts, isBusy
    <2>2. /\ Insert(k) \in Seq(Keys)
          /\ \A i, j \in DOMAIN Insert(k) : Insert(k)[i] = Insert(k)[j] => i = j
      BY <2>1, InsertKeeps DEF IInv
    <2>3. Range(Insert(k)) = Waiting \cup {k} /\ Insert(k) # <<>>
      BY <1>1, InsertAdds
    <2>4. running = None => Waiting = {}
      BY <1>1 DEF Waiting, Range
    <2>5. CASE running # None
      BY <1>1, <2>1, <2>2, <2>3, <2>5, DrainMaps DEF Abstract!ANext, Abstract!Ask
    <2>6. CASE running = None
      <3>1. running' = k /\ Waiting' = {}
        BY <1>1, <2>1, <2>2, <2>3, <2>4, <2>6, DrainMaps
      <3> QED
        BY <2>1, <2>4, <2>6, <3>1 DEF Abstract!ANext, Abstract!Ask
    <2> QED
      BY <2>5, <2>6
  <1> QED
    BY <1>2, <1>3 DEF Next

\* The ordered queue implements the keyed mutual exclusion of KeyedMutex.
THEOREM QueueImplementsKeyedMutex == Spec => ImplementsKeyedMutex
  <1>1. Init => Abstract!AInit
    BY DEF Init, Abstract!AInit, Waiting, Range
  <1> QED
    BY <1>1, InitIInv, NextIInv, StepMaps, PTL DEF Spec, ImplementsKeyedMutex, Abstract!ASpec, Abstract!avars

------------------------------------------------------------------------------
(***************************************************************************)
(* The rows, the jobs and the invariant of the desk.                       *)
(***************************************************************************)
Statuses == {"none", "pending_entry", "in_position", "closed", "canceled"}
Sources == {"none", "agent", "chat", "manual", "adopted"}
Steps == {"none", "waiting", "saved", "cleared", "sent"}
Rows == [status : Statuses, symbol : Watched \cup {"none"}, channel : Channels \cup {"none"}, source : Sources, step : Steps]
RowOK(r) ==
    /\ r \in Rows
    /\ r.status = "none" => r.step = "none"
    /\ r.status # "none" => r.symbol \in Watched /\ r.channel \in Channels
RowsOK == DOMAIN thr = ThreadIds /\ thr = [i \in ThreadIds |-> thr[i]] /\ \A i \in ThreadIds : RowOK(thr[i])

Phases == {"none", "read", "think", "again", "open", "opening", "info", "ending", "chat"}
Objects == Watched \cup {"none"} \cup {k.of : k \in Keys}
Jobs == [phase : Phases, seen : Statuses, thread : ThreadIds \cup {0}, symbol : Objects,
         source : {"agent", "chat"}, allowed : SUBSET Actions]
JobOK ==
    /\ job \in Jobs
    /\ (job.phase = "none") <=> (running = None)
    /\ job.phase \in {"read", "think", "again"} /\ job.thread = 0 => job.symbol \in Watched
    /\ job.phase = "open" => job.symbol \in Watched
    /\ running = infoKey <=> job.phase \in {"info", "ending"}

People == {"order", "adopt", "switch", "halt"}
TaskOK(t) == t \in [pc : {"idle", "reads", "starts", "stops", "closes"}, symbol : Watched \cup {"none"}, to : Channels \cup {"none"}]
TasksOK ==
    /\ tasks = [p \in People |-> tasks[p]]
    /\ \A p \in People : TaskOK(tasks[p])
    /\ \A p \in {"order", "adopt"} : tasks[p].pc # "idle" => tasks[p].symbol \in Watched
    /\ tasks["switch"].pc # "idle" => tasks["switch"].to \in Channels

MoneyFields == {"eq", "start", "moved", "lost", "day", "old", "ended"}
DayOK ==
    /\ money = [f \in MoneyFields |-> money[f]]
    /\ \A i \in ThreadIds : i \in money.old => thr[i].status # "none"

DeskShape ==
    /\ play \in Plays /\ channel \in Channels
    /\ settings \in [paused : BOOLEAN, execution : Channels, watch : SUBSET Watched]
    /\ acct.held \subseteq Watched
    /\ held = [c \in Channels |-> held[c]] /\ \A c \in Channels : held[c] \subseteq Watched
    /\ asks \in Seq(Keys \ ChatKeys) /\ used \in Nat
    /\ timers \subseteq {"info", "infoRetry", "radar", "kline"}
DeskTypes == IInv /\ DeskShape /\ RowsOK /\ JobOK /\ TasksOK /\ DayOK

\* The limits, on every channel.
Made(i) == isOpen(thr[i]) /\ thr[i].source # "adopted"
OpenedOn(c) == {i \in ThreadIds : Made(i) /\ thr[i].channel = c}
SymbolsApart ==
    \A i, j \in ThreadIds : Made(i) /\ Made(j) /\ thr[i].symbol = thr[j].symbol /\ thr[i].channel = thr[j].channel => i = j
Ordered(i) == /\ i \notin money.old /\ thr[i].source \in {"agent", "chat"} /\ thr[i].status # "canceled"
              /\ thr[i].step \in {"cleared", "sent"}
OrderedToday == {i \in ThreadIds : Ordered(i)}
Limits ==
    /\ SymbolsApart
    /\ \A c \in Channels : Cardinality(OpenedOn(c)) <= play.max_open_threads
    /\ Cardinality(OrderedToday) <= max_opens_per_day

\* The daily cap, with what may still be counted.
WaitingEpisodes == Cardinality(Waiting \cap EpisodeKeys)
ChatsAhead == Cardinality(Waiting \cap ChatKeys) + (IF job.phase = "chat" THEN 1 ELSE 0)
CapInv ==
    /\ used + WaitingEpisodes + ChatsAhead < play.daily_judgment_cap + Cardinality(EpisodeKeys) + chats
    /\ ChatsAhead <= chats

TimersInv == NoTimerLost /\ (job.phase = "ending" => {"info", "infoRetry"} \cap timers # {})

DeskInv == DeskTypes /\ Limits /\ CapInv /\ TimersInv

-----------------------------------------------------------------------------
(***************************************************************************)
(* Keys and requests.                                                      *)
(***************************************************************************)
\* The keys of a scan, a review, the officer and a chat are four kinds.
LEMMA KeyKinds ==
  /\ infoKey \in Keys \ ChatKeys /\ infoKey \notin EpisodeKeys /\ infoKey.kind = "info"
  /\ \A s \in Watched : scanKey(s) \in EpisodeKeys
  /\ \A i \in ThreadIds : reviewKey(i) \in EpisodeKeys
  /\ EpisodeKeys \subseteq Keys \ ChatKeys /\ IsFiniteSet(EpisodeKeys) /\ IsFiniteSet(ChatKeys)
  /\ \A k \in Keys : k \notin EpisodeKeys /\ k \notin ChatKeys => k = infoKey
  /\ \A k \in EpisodeKeys : \/ k.kind = "scan" /\ k.of \in Watched
                            \/ k.kind = "review" /\ \E i \in ThreadIds : reviewKey(i) = k
  /\ \A k \in ChatKeys : k.kind = "chat"
  <1>1. /\ infoKey \in Keys /\ infoKey.kind = "info"
        /\ \A s \in Watched : scanKey(s) \in Keys /\ scanKey(s).kind = "scan" /\ scanKey(s).of = s
        /\ \A i \in ThreadIds : reviewKey(i) \in Keys /\ reviewKey(i).kind = "review"
    BY DeskKeysAssumption DEF infoKey, scanKey, reviewKey, Key
  <1>2. \A k \in ChatKeys : k.kind = "chat"
    BY DeskKeysAssumption
  <1>3. \A k \in Keys : \/ \E s \in Watched : k = scanKey(s)
                        \/ \E i \in ThreadIds : k = reviewKey(i)
                        \/ k = infoKey \/ k \in ChatKeys
    BY DeskKeysAssumption
  <1>4. EpisodeKeys \subseteq Keys /\ ChatKeys \subseteq Keys /\ IsFiniteSet(Keys)
    BY KeysAssumption, DeskKeysAssumption DEF EpisodeKeys
  <1>5. IsFiniteSet(EpisodeKeys) /\ IsFiniteSet(ChatKeys)
    BY <1>4, FS_Subset
  <1>6. \A k \in Keys : k \in EpisodeKeys <=> k.kind \in {"scan", "review"}
    BY DEF EpisodeKeys
  <1>7. infoKey \notin EpisodeKeys /\ infoKey \notin ChatKeys
    BY <1>1, <1>2, <1>6
  <1>8. \A k \in EpisodeKeys : k \notin ChatKeys
    BY <1>2, <1>4, <1>6
  <1>9. \A k \in EpisodeKeys : \/ k.kind = "scan" /\ k.of \in Watched
                               \/ k.kind = "review" /\ \E i \in ThreadIds : reviewKey(i) = k
    BY <1>1, <1>3, <1>4, <1>7, <1>8
  <1>10. \A k \in Keys : k \notin EpisodeKeys /\ k \notin ChatKeys => k = infoKey
    BY <1>1, <1>3, <1>6
  <1> QED
    BY <1>1, <1>2, <1>4, <1>5, <1>6, <1>7, <1>8, <1>9, <1>10

\* Reviews of any threads are a list of keys.
LEMMA ReviewRequests ==
  ASSUME NEW ids \in SUBSET ThreadIds
  PROVE  ReviewsOf(ids) \in Seq(Keys \ ChatKeys)
  <1> DEFINE S == {reviewKey(i) : i \in ids}
  <1>1. S \subseteq Keys \ ChatKeys /\ IsFiniteSet(S)
    <2>1. S \subseteq EpisodeKeys
      BY KeyKinds
    <2> QED
      BY <2>1, KeyKinds, FS_Subset
  <1> HIDE DEF S
  <1>2. Cardinality(S) \in Nat /\ ExistsBijection(1..Cardinality(S), S)
    BY <1>1, FS_CardinalityType
  <1>3. \E f \in [1..Cardinality(S) -> S] : IsInjective(f)
    BY <1>2 DEF ExistsBijection, Bijection, Injection, IsInjective
  <1>4. SetToSeq(S) \in [1..Cardinality(S) -> S]
    BY <1>3 DEF SetToSeq
  <1>5. SetToSeq(S) \in Seq(Keys \ ChatKeys)
    BY <1>1, <1>2, <1>4
  <1> QED
    BY <1>5 DEF ReviewsOf, S

\* So are the scans of any symbols.
LEMMA ScanRequests ==
  ASSUME NEW ss, NEW q \in ScansOf(ss)
  PROVE  q \in Seq(Keys \ ChatKeys)
  <1> DEFINE places == {n \in DOMAIN Symbols : Symbols[n] \in ss}
  <1>1. PICK f \in [1..Cardinality(places) -> places] : q = [n \in DOMAIN f |-> scanKey(Symbols[f[n]])]
    BY DEF ScansOf
  <1>2. IsFiniteSet(places)
    <2>1. IsFiniteSet(DOMAIN Symbols)
      BY DeskAssumption, FS_Interval
    <2> QED
      BY <2>1, FS_Subset
  <1>3. Cardinality(places) \in Nat
    BY <1>2, FS_CardinalityType
  <1>4. \A n \in DOMAIN f : scanKey(Symbols[f[n]]) \in Keys \ ChatKeys
    BY KeyKinds, DeskAssumption DEF Watched, Range
  <1> QED
    BY <1>1, <1>3, <1>4

-----------------------------------------------------------------------------
(***************************************************************************)
(* The queue under the desk.                                               *)
(***************************************************************************)
\* A job that starts, with the thread table as it is then.
Starts(k) ==
    /\ job' \in Jobs /\ job'.phase # "none" /\ job'.phase # "ending" /\ job'.phase # "open"
    /\ job'.phase \in {"read", "think", "again"} /\ job'.thread = 0 => job'.symbol \in Watched
    /\ job'.phase = "chat" <=> k \in ChatKeys
    /\ k = infoKey <=> job'.phase = "info"

LEMMA JobStarts ==
  ASSUME NEW k \in Keys, job' = JobOf(k), RowsOK'
  PROVE  Starts(k)
  <1>1. k # None
    BY KeysAssumption
  <1>2. NoJob \in Jobs /\ NoJob.thread = 0
    BY DEF NoJob, Jobs, Phases, Statuses, Objects
  <1>3. \A i \in ThreadIds : thr'[i] \in Rows
    BY DEF RowsOK, RowOK
  <1>4. CASE k \in EpisodeKeys /\ k.kind = "review"
    <2> DEFINE i == CHOOSE j \in ThreadIds : reviewKey(j) = k
    <2>1. i \in ThreadIds
      BY <1>4, KeyKinds
    <2> HIDE DEF i
    <2>2. job' = [NoJob EXCEPT !.phase = "read", !.thread = i, !.seen = thr'[i].status, !.symbol = thr'[i].symbol]
      BY <1>1, <1>4 DEF JobOf, i
    <2>3. i # 0
      BY <2>1, DeskAssumption
    <2>4. thr'[i].status \in Statuses /\ thr'[i].symbol \in Objects
      BY <1>3, <2>1 DEF Rows, Objects
    <2>5. job' \in Jobs /\ job'.phase = "read" /\ job'.thread = i
      BY <1>2, <2>1, <2>2, <2>4 DEF Jobs, Phases
    <2> QED
      BY <1>4, <2>3, <2>5, KeyKinds DEF Starts
  <1>5. CASE k \in EpisodeKeys /\ k.kind = "scan"
    <2>1. job' = [NoJob EXCEPT !.phase = "read", !.symbol = k.of, !.source = "agent"]
      BY <1>1, <1>5 DEF JobOf
    <2>2. k.of \in Watched /\ k.of \in Objects
      BY <1>5, KeyKinds DEF Objects
    <2>3. job' \in Jobs /\ job'.phase = "read" /\ job'.symbol = k.of
      BY <1>2, <2>1, <2>2 DEF Jobs, Phases
    <2> QED
      BY <1>5, <2>2, <2>3, KeyKinds DEF Starts
  <1>6. ASSUME k \in ChatKeys \/ k = infoKey PROVE Starts(k)
    <2>1. k.kind \in {"chat", "info"} /\ (k.kind = "chat" <=> k \in ChatKeys)
      BY <1>6, KeyKinds
    <2>2. job' = [NoJob EXCEPT !.phase = k.kind, !.symbol = k.of, !.source = IF k.kind = "chat" THEN "chat" ELSE "agent"]
      BY <1>1, <2>1 DEF JobOf
    <2>3. k.of \in Objects
      BY DEF Objects
    <2>4. job' \in Jobs /\ job'.phase = k.kind
      BY <1>2, <2>1, <2>2, <2>3 DEF Jobs, Phases
    <2> QED
      BY <1>6, <2>1, <2>4, KeyKinds DEF Starts
  <1> QED
    BY <1>4, <1>5, <1>6, KeyKinds

Counted(k) == IF k \in EpisodeKeys THEN used + 1 ELSE used

\* The counter of the day goes with a scan or a review that starts.
LEMMA CountedWith ==
  ASSUME NEW k \in Keys
  PROVE  k \in EpisodeKeys <=> k.kind \in {"scan", "review"}
  BY DEF EpisodeKeys

\* enqueue: the job waits, or starts at once on an idle queue.
LEMMA EnqueueDoes ==
  ASSUME IInv, JobOK, RowsOK', NEW k \in Keys, enqueue(k), Queued
  PROVE  /\ IInv' /\ ~isBusy(k)
         /\ chats' = IF k \in ChatKeys THEN chats + 1 ELSE chats
         /\ \/ /\ running # None /\ running' = running /\ Waiting' = Waiting \cup {k}
               /\ job' = job /\ used' = used
            \/ /\ running = None /\ Waiting = {} /\ running' = k /\ Waiting' = {}
               /\ Starts(k) /\ used' = Counted(k)
  <1>1. IInv'
    BY NextIInv DEF Next
  <1>2. /\ ~isBusy(k) /\ drain(Insert(k), running)
        /\ chats' = IF k \in ChatKeys THEN chats + 1 ELSE chats
    BY DEF enqueue, Accepts
  <1>3. /\ pending \in Seq(Keys) /\ running \in Keys \cup {None}
        /\ running = None => pending = <<>>
    BY DEF IInv, TypeOK, WorkConserving
  <1>4. /\ Insert(k) \in Seq(Keys)
        /\ \A i, j \in DOMAIN Insert(k) : Insert(k)[i] = Insert(k)[j] => i = j
    BY <1>2, InsertKeeps DEF IInv, Accepts
  <1>5. Range(Insert(k)) = Waiting \cup {k} /\ Insert(k) # <<>>
    BY <1>3, InsertAdds
  <1>6. CASE running # None
    <2>1. running' = running /\ Waiting' = Waiting \cup {k}
      BY <1>2, <1>3, <1>4, <1>5, <1>6, DrainMaps
    <2> QED
      BY <1>1, <1>2, <1>6, <2>1 DEF Queued
  <1>7. CASE running = None
    <2>1. Waiting = {}
      BY <1>3, <1>7 DEF Waiting, Range
    <2>2. running' = k /\ Waiting' = {}
      BY <1>2, <1>3, <1>4, <1>5, <1>7, <2>1, DrainMaps
    <2>3. running' # running /\ running' # None
      BY <1>7, <2>2, KeysAssumption
    <2>4. job' = JobOf(k) /\ used' = Counted(k)
      BY <2>2, <2>3, CountedWith DEF Queued, Counted
    <2> QED
      BY <1>1, <1>2, <1>7, <2>1, <2>2, <2>4, JobStarts
  <1> QED
    BY <1>6, <1>7

\* finishJob: nothing is left, or the next job starts.
LEMMA FinishDoes ==
  ASSUME IInv, JobOK, RowsOK', EndJob
  PROVE  /\ IInv' /\ running # None /\ chats' = chats
         /\ \/ /\ running' = None /\ Waiting = {} /\ Waiting' = {}
               /\ job' = NoJob /\ used' = used
            \/ /\ running' \in Waiting /\ running' \in Keys /\ Waiting' = Waiting \ {running'} /\ running' # running
               /\ Starts(running') /\ used' = Counted(running')
  <1>1. IInv'
    BY NextIInv DEF Next, EndJob
  <1>2. running # None /\ drain(pending, None) /\ chats' = chats
    BY DEF EndJob, finishJob
  <1>3. /\ pending \in Seq(Keys)
        /\ \A i, j \in DOMAIN pending : pending[i] = pending[j] => i = j
        /\ running \notin Waiting
    BY DEF IInv, TypeOK, NoDuplicateKeys
  <1>4. \/ pending = <<>> /\ Waiting' = Waiting /\ running' = None
        \/ running' \in Waiting /\ Waiting' = Waiting \ {running'}
    BY <1>2, <1>3, DrainMaps DEF Waiting
  <1>5. CASE pending = <<>> /\ Waiting' = Waiting /\ running' = None
    <2>1. Waiting = {}
      BY <1>5 DEF Waiting, Range
    <2>2. job' = NoJob /\ used' = used
      BY <1>2, <1>5 DEF EndJob, Queued, JobOf
    <2> QED
      BY <1>1, <1>2, <1>5, <2>1, <2>2
  <1>6. CASE running' \in Waiting /\ Waiting' = Waiting \ {running'}
    <2>1. running' \in Keys /\ running' # running /\ running' # None
      BY <1>3, <1>6, KeysAssumption DEF Waiting, Range
    <2>2. job' = JobOf(running') /\ used' = Counted(running')
      BY <2>1, CountedWith DEF EndJob, Queued, Counted
    <2> QED
      BY <1>1, <1>2, <1>6, <2>1, <2>2, JobStarts
  <1> QED
    BY <1>4, <1>5, <1>6

-----------------------------------------------------------------------------
(***************************************************************************)
(* Jobs, timers and the cap, by what happens to the queue.                 *)
(***************************************************************************)
\* The part of the invariant that the queue, its job and the timers share.
QueueInv == IInv /\ JobOK /\ used \in Nat /\ CapInv /\ TimersInv

LEMMA IsBusyOfficer == isBusy(infoKey) <=> running = infoKey \/ infoKey \in Waiting
  BY DEF isBusy

LEMMA PlaysAre == ASSUME play \in Plays PROVE play.daily_judgment_cap \in Nat \ {0} /\ play.max_open_threads \in Nat \ {0}
  BY DeskAssumption

\* A waiting list is finite, and its parts are counted.
LEMMA WaitingFinite ==
  ASSUME pending \in Seq(Keys)
  PROVE  IsFiniteSet(Waiting)
  <1>1. IsFiniteSet(1..Len(pending))
    BY FS_Interval
  <1> DEFINE f == [i \in 1..Len(pending) |-> pending[i]]
  <1>2. f \in Surjection(1..Len(pending), Waiting)
    BY DEF Surjection, Waiting, Range
  <1> QED
    BY <1>1, <1>2, FS_Surjection

LEMMA CountsAre ==
  ASSUME IInv
  PROVE  /\ IsFiniteSet(Waiting \cap EpisodeKeys) /\ IsFiniteSet(Waiting \cap ChatKeys)
         /\ WaitingEpisodes \in Nat /\ Cardinality(Waiting \cap ChatKeys) \in Nat /\ Cardinality(EpisodeKeys) \in Nat
         /\ WaitingEpisodes <= Cardinality(EpisodeKeys) /\ ChatsAhead \in Nat /\ chats \in Nat
         /\ Waiting \subseteq Keys
  <1>1. IsFiniteSet(Waiting) /\ chats \in Nat
    BY WaitingFinite DEF IInv, TypeOK
  <1>2. IsFiniteSet(EpisodeKeys)
    BY KeyKinds
  <1>3. IsFiniteSet(Waiting \cap EpisodeKeys) /\ IsFiniteSet(Waiting \cap ChatKeys)
    BY <1>1, FS_Intersection
  <1>4. Cardinality(Waiting \cap EpisodeKeys) <= Cardinality(EpisodeKeys)
    BY <1>2, FS_Intersection
  <1>5. Cardinality(EpisodeKeys) \in Nat /\ WaitingEpisodes \in Nat /\ Cardinality(Waiting \cap ChatKeys) \in Nat
    BY <1>2, <1>3, FS_CardinalityType DEF WaitingEpisodes
  <1>6. Waiting \subseteq Keys
    BY DEF IInv, TypeOK, Waiting, Range
  <1> QED
    BY <1>1, <1>3, <1>4, <1>5, <1>6 DEF WaitingEpisodes, ChatsAhead

\* The same of the next state.
LEMMA CountsAfter ==
  ASSUME IInv'
  PROVE  WaitingEpisodes' \in Nat /\ WaitingEpisodes' <= Cardinality(EpisodeKeys) /\ ChatsAhead' \in Nat
  <1>1. IsFiniteSet(EpisodeKeys)
    BY KeyKinds
  <1>2. Cardinality(Waiting' \cap EpisodeKeys) <= Cardinality(EpisodeKeys) /\ IsFiniteSet(Waiting' \cap EpisodeKeys)
    BY <1>1, FS_Intersection
  <1>3. IsFiniteSet(Waiting' \cap ChatKeys)
    BY KeyKinds, FS_Intersection
  <1> QED
    BY <1>2, <1>3, FS_CardinalityType DEF WaitingEpisodes, ChatsAhead

\* A key that is added to what waits counts once, in its kind.
LEMMA OneMore ==
  ASSUME IInv, NEW k \in Keys, k \notin Waiting, Waiting' = Waiting \cup {k}
  PROVE  /\ WaitingEpisodes' = IF k \in EpisodeKeys THEN WaitingEpisodes + 1 ELSE WaitingEpisodes
         /\ Cardinality((Waiting \cap ChatKeys)') =
              IF k \in ChatKeys THEN Cardinality(Waiting \cap ChatKeys) + 1 ELSE Cardinality(Waiting \cap ChatKeys)
  <1>1. IsFiniteSet(Waiting \cap EpisodeKeys) /\ IsFiniteSet(Waiting \cap ChatKeys)
    BY CountsAre
  <1>2. k \in EpisodeKeys => Waiting' \cap EpisodeKeys = (Waiting \cap EpisodeKeys) \cup {k}
    OBVIOUS
  <1>3. k \notin EpisodeKeys => Waiting' \cap EpisodeKeys = Waiting \cap EpisodeKeys
    OBVIOUS
  <1>4. k \in ChatKeys => Waiting' \cap ChatKeys = (Waiting \cap ChatKeys) \cup {k}
    OBVIOUS
  <1>5. k \notin ChatKeys => Waiting' \cap ChatKeys = Waiting \cap ChatKeys
    OBVIOUS
  <1>6. k \notin Waiting \cap EpisodeKeys /\ k \notin Waiting \cap ChatKeys
    OBVIOUS
  <1>7. k \in EpisodeKeys => Cardinality((Waiting \cap EpisodeKeys) \cup {k}) = Cardinality(Waiting \cap EpisodeKeys) + 1
    BY <1>1, <1>6, FS_AddElement
  <1>8. k \in ChatKeys => Cardinality((Waiting \cap ChatKeys) \cup {k}) = Cardinality(Waiting \cap ChatKeys) + 1
    BY <1>1, <1>6, FS_AddElement
  <1> QED
    BY <1>2, <1>3, <1>4, <1>5, <1>7, <1>8 DEF WaitingEpisodes

\* A key that is taken from what waits no longer counts there.
LEMMA OneLess ==
  ASSUME IInv, NEW k \in Waiting, Waiting' = Waiting \ {k}
  PROVE  /\ WaitingEpisodes' = IF k \in EpisodeKeys THEN WaitingEpisodes - 1 ELSE WaitingEpisodes
         /\ Cardinality((Waiting \cap ChatKeys)') =
              IF k \in ChatKeys THEN Cardinality(Waiting \cap ChatKeys) - 1 ELSE Cardinality(Waiting \cap ChatKeys)
  <1>1. IsFiniteSet(Waiting \cap EpisodeKeys) /\ IsFiniteSet(Waiting \cap ChatKeys)
    BY CountsAre
  <1>2. Waiting' \cap EpisodeKeys = (Waiting \cap EpisodeKeys) \ {k} /\ Waiting' \cap ChatKeys = (Waiting \cap ChatKeys) \ {k}
    OBVIOUS
  <1>3. Cardinality((Waiting \cap EpisodeKeys) \ {k}) =
          IF k \in EpisodeKeys THEN Cardinality(Waiting \cap EpisodeKeys) - 1 ELSE Cardinality(Waiting \cap EpisodeKeys)
    BY <1>1, FS_RemoveElement
  <1>4. Cardinality((Waiting \cap ChatKeys) \ {k}) =
          IF k \in ChatKeys THEN Cardinality(Waiting \cap ChatKeys) - 1 ELSE Cardinality(Waiting \cap ChatKeys)
    BY <1>1, FS_RemoveElement
  <1> QED
    BY <1>2, <1>3, <1>4 DEF WaitingEpisodes

\* Nothing waits before and after.
LEMMA NoneWaits ==
  ASSUME Waiting = {}
  PROVE  WaitingEpisodes = 0 /\ Cardinality(Waiting \cap ChatKeys) = 0
  <1>1. Waiting \cap EpisodeKeys = {} /\ Waiting \cap ChatKeys = {}
    OBVIOUS
  <1> QED
    BY <1>1, FS_EmptySet DEF WaitingEpisodes

\* Asked for below the cap, a scan or a review keeps the day within it.
LEMMA CapEnqueue ==
  ASSUME QueueInv, play \in Plays, play' = play, RowsOK', NEW k \in Keys, enqueue(k), Queued,
         k \in EpisodeKeys => ~capReached
  PROVE  CapInv' /\ JobOK' /\ used' \in Nat
  <1>1. IInv /\ JobOK /\ used \in Nat /\ CapInv
    BY DEF QueueInv
  <1> DEFINE E == Cardinality(EpisodeKeys)
             cap == play.daily_judgment_cap
             W == Cardinality(Waiting \cap ChatKeys)
  <1>2. /\ E \in Nat /\ WaitingEpisodes \in Nat /\ WaitingEpisodes <= E /\ W \in Nat /\ ChatsAhead \in Nat /\ chats \in Nat
        /\ cap \in Nat \ {0}
    BY <1>1, CountsAre, PlaysAre
  <1>3. used + WaitingEpisodes + ChatsAhead < cap + E + chats /\ ChatsAhead <= chats
    BY <1>1 DEF CapInv
  <1>4. k \in EpisodeKeys => used < cap
    BY <1>2, <1>1 DEF capReached
  <1>5. k \in EpisodeKeys => k \notin ChatKeys
    BY KeyKinds
  <1>6. k \in EpisodeKeys => E >= 1
    BY KeyKinds, <1>2, FS_EmptySet
  <1>7. /\ IInv' /\ ~isBusy(k)
        /\ chats' = IF k \in ChatKeys THEN chats + 1 ELSE chats
        /\ \/ /\ running # None /\ running' = running /\ Waiting' = Waiting \cup {k}
              /\ job' = job /\ used' = used
           \/ /\ running = None /\ Waiting = {} /\ running' = k /\ Waiting' = {}
              /\ Starts(k) /\ used' = Counted(k)
    BY <1>1, EnqueueDoes
  <1>8. WaitingEpisodes' \in Nat /\ WaitingEpisodes' <= E /\ ChatsAhead' \in Nat
    BY <1>7, CountsAfter
  <1>9. CASE /\ running # None /\ running' = running /\ Waiting' = Waiting \cup {k} /\ job' = job /\ used' = used
    <2>1. k \notin Waiting
      BY <1>7 DEF isBusy
    <2>2. ChatsAhead' = IF k \in ChatKeys THEN ChatsAhead + 1 ELSE ChatsAhead
      <3>1. Cardinality((Waiting \cap ChatKeys)') = IF k \in ChatKeys THEN W + 1 ELSE W
        BY <1>1, <1>9, <2>1, OneMore
      <3>2. W \in Nat /\ job'.phase = job.phase
        BY <1>2, <1>9
      <3> QED
        BY <3>1, <3>2 DEF ChatsAhead
    <2>3. k \notin EpisodeKeys => WaitingEpisodes' = WaitingEpisodes
      BY <1>1, <1>9, <2>1, OneMore
    <2>4. ChatsAhead' <= chats'
      BY <1>2, <1>3, <1>7, <2>2
    <2>5. used' + WaitingEpisodes' + ChatsAhead' < cap + E + chats'
      <3>1. CASE k \in EpisodeKeys
        BY <1>1, <1>2, <1>4, <1>7, <1>8, <1>9, <2>4, <3>1, <1>5
      <3>2. CASE k \notin EpisodeKeys
        BY <1>1, <1>2, <1>3, <1>7, <1>9, <2>2, <2>3, <3>2
      <3> QED
        BY <3>1, <3>2
    <2>6. JobOK'
      BY <1>1, <1>9 DEF JobOK
    <2> QED
      BY <1>1, <1>9, <2>4, <2>5, <2>6 DEF CapInv
  <1>10. CASE /\ running = None /\ Waiting = {} /\ running' = k /\ Waiting' = {} /\ Starts(k) /\ used' = Counted(k)
    <2>1. WaitingEpisodes = 0 /\ W = 0
      BY <1>10, NoneWaits
    <2>2. Waiting' \cap EpisodeKeys = {} /\ Waiting' \cap ChatKeys = {}
      BY <1>10
    <2>3. WaitingEpisodes' = 0 /\ Cardinality((Waiting \cap ChatKeys)') = 0
      BY <2>2, FS_EmptySet DEF WaitingEpisodes
    <2>4. ChatsAhead' = IF k \in ChatKeys THEN 1 ELSE 0
      BY <1>10, <2>3 DEF ChatsAhead, Starts
    <2>5. ChatsAhead = 0
      <3>1. job.phase = "none"
        BY <1>1, <1>10 DEF JobOK
      <3> QED
        BY <2>1, <3>1 DEF ChatsAhead
    <2>6. used' \in Nat /\ used' = IF k \in EpisodeKeys THEN used + 1 ELSE used
      BY <1>1, <1>10 DEF Counted
    <2>7. used' + WaitingEpisodes' + ChatsAhead' < cap + E + chats'
      BY <1>1, <1>2, <1>3, <1>4, <1>5, <1>6, <1>7, <2>1, <2>3, <2>4, <2>5, <2>6
    <2>8. ChatsAhead' <= chats'
      BY <1>2, <1>7, <2>4
    <2>9. JobOK'
      BY <1>10, KeysAssumption DEF JobOK, Starts
    <2> QED
      BY <2>6, <2>7, <2>8, <2>9 DEF CapInv
  <1> QED
    BY <1>7, <1>9, <1>10

\* A job that ends makes room for the next one.
LEMMA CapFinish ==
  ASSUME QueueInv, play \in Plays, play' = play, RowsOK', EndJob
  PROVE  CapInv' /\ JobOK' /\ used' \in Nat
  <1>1. IInv /\ JobOK /\ used \in Nat /\ CapInv
    BY DEF QueueInv
  <1> DEFINE E == Cardinality(EpisodeKeys)
             cap == play.daily_judgment_cap
             W == Cardinality(Waiting \cap ChatKeys)
  <1>2. /\ E \in Nat /\ WaitingEpisodes \in Nat /\ WaitingEpisodes <= E /\ W \in Nat /\ ChatsAhead \in Nat /\ chats \in Nat
        /\ cap \in Nat \ {0} /\ W <= ChatsAhead
    BY <1>1, CountsAre, PlaysAre DEF ChatsAhead
  <1>3. used + WaitingEpisodes + ChatsAhead < cap + E + chats /\ ChatsAhead <= chats
    BY <1>1 DEF CapInv
  <1>4. /\ IInv' /\ running # None /\ chats' = chats
        /\ \/ /\ running' = None /\ Waiting = {} /\ Waiting' = {}
              /\ job' = NoJob /\ used' = used
           \/ /\ running' \in Waiting /\ running' \in Keys /\ Waiting' = Waiting \ {running'} /\ running' # running
              /\ Starts(running') /\ used' = Counted(running')
    BY <1>1, FinishDoes
  <1>5. CASE running' = None /\ Waiting = {} /\ Waiting' = {} /\ job' = NoJob /\ used' = used
    <2>1. WaitingEpisodes' = WaitingEpisodes /\ Cardinality((Waiting \cap ChatKeys)') = W
      BY <1>5 DEF WaitingEpisodes
    <2>2. job'.phase = "none" /\ job' \in Jobs
      BY <1>5 DEF NoJob, Jobs, Phases, Statuses, Objects
    <2>3. ChatsAhead' = W
      BY <1>2, <2>1, <2>2 DEF ChatsAhead
    <2>4. JobOK'
      BY <1>5, <2>2, KeysAssumption, KeyKinds DEF JobOK
    <2>5. used' + WaitingEpisodes' + ChatsAhead' < cap + E + chats' /\ ChatsAhead' <= chats'
      BY <1>1, <1>2, <1>3, <1>4, <1>5, <2>1, <2>3
    <2> QED
      BY <1>1, <1>5, <2>4, <2>5 DEF CapInv
  <1>6. CASE /\ running' \in Waiting /\ running' \in Keys /\ Waiting' = Waiting \ {running'}
             /\ Starts(running') /\ used' = Counted(running')
    <2> DEFINE k == running'
    <2>1. /\ WaitingEpisodes' = IF k \in EpisodeKeys THEN WaitingEpisodes - 1 ELSE WaitingEpisodes
          /\ Cardinality((Waiting \cap ChatKeys)') = IF k \in ChatKeys THEN W - 1 ELSE W
      BY <1>1, <1>6, OneLess
    <2>2. job'.phase = "chat" <=> k \in ChatKeys
      BY <1>6 DEF Starts
    <2>3. ChatsAhead' = W
      BY <1>2, <2>1, <2>2 DEF ChatsAhead
    <2>4. used' = (IF k \in EpisodeKeys THEN used + 1 ELSE used) /\ used' \in Nat
      BY <1>1, <1>6 DEF Counted
    <2>5. used' + WaitingEpisodes' = used + WaitingEpisodes
      BY <1>1, <1>2, <2>1, <2>4
    <2>6. used' + WaitingEpisodes' + ChatsAhead' < cap + E + chats' /\ ChatsAhead' <= chats'
      BY <1>1, <1>2, <1>3, <1>4, <2>3, <2>5
    <2>7. JobOK'
      BY <1>6, KeysAssumption DEF JobOK, Starts
    <2> QED
      BY <2>4, <2>6, <2>7 DEF CapInv
  <1> QED
    BY <1>4, <1>5, <1>6

\* Steps that leave the queue alone.
LEMMA CapQuiet ==
  ASSUME QueueInv, play \in Plays, play' = play, UNCHANGED vars, used' = used, job'.phase = "chat" => job.phase = "chat"
  PROVE  CapInv' /\ IInv' /\ used' \in Nat
  <1>1. IInv /\ used \in Nat /\ CapInv
    BY DEF QueueInv
  <1>2. pending' = pending /\ running' = running /\ chats' = chats
    BY DEF vars
  <1>3. Waiting' = Waiting
    BY <1>2 DEF Waiting
  <1>4. WaitingEpisodes' = WaitingEpisodes /\ Cardinality((Waiting \cap ChatKeys)') = Cardinality(Waiting \cap ChatKeys)
    BY <1>3 DEF WaitingEpisodes
  <1>5. WaitingEpisodes \in Nat /\ Cardinality(Waiting \cap ChatKeys) \in Nat /\ chats \in Nat /\ Cardinality(EpisodeKeys) \in Nat
    BY <1>1, CountsAre
  <1>6. ChatsAhead' <= ChatsAhead /\ ChatsAhead' \in Nat /\ ChatsAhead \in Nat
    BY <1>4, <1>5 DEF ChatsAhead
  <1>7. IInv'
    BY <1>1, NextIInv
  <1>8. play.daily_judgment_cap \in Nat
    BY PlaysAre
  <1> QED
    BY <1>1, <1>2, <1>4, <1>5, <1>6, <1>7, <1>8 DEF CapInv

\* The officer's timer and the radar's while the queue and its job stay.
LEMMA TimersKept ==
  ASSUME QueueInv, UNCHANGED <<pending, running>>, job'.phase = "ending" => job.phase = "ending",
         \/ {"info", "infoRetry"} \cap timers = {}
         \/ {"info", "infoRetry"} \cap timers' # {},
         "radar" \in timers' \/ screen' = "waits"
  PROVE  TimersInv'
  <1>1. NoTimerLost /\ (job.phase = "ending" => {"info", "infoRetry"} \cap timers # {})
    BY DEF QueueInv, TimersInv
  <1>2. isBusy(infoKey)' <=> isBusy(infoKey)
    BY DEF isBusy, Waiting
  <1> QED
    BY <1>1, <1>2 DEF NoTimerLost, TimersInv

\* Steps that leave the queue and its job alone.
LEMMA QueueStaysKeeps ==
  ASSUME QueueInv, play \in Plays, play' = play, QueueStays,
         \/ {"info", "infoRetry"} \cap timers = {}
         \/ {"info", "infoRetry"} \cap timers' # {},
         "radar" \in timers' \/ screen' = "waits"
  PROVE  QueueInv'
  <1>1. pending' = pending /\ running' = running /\ job' = job /\ used' = used
    BY DEF QueueStays, vars
  <1>2. CapInv' /\ IInv' /\ used' \in Nat
    BY <1>1, CapQuiet DEF QueueStays
  <1>3. TimersInv'
    BY <1>1, TimersKept
  <1>4. JobOK'
    BY <1>1 DEF QueueInv, JobOK
  <1> QED
    BY <1>2, <1>3, <1>4 DEF QueueInv

\* The steps of people, of the poll and of the exchange do not touch the timers.
LEMMA ElsewhereKeeps ==
  ASSUME QueueInv, play \in Plays, play' = play, QueueStays, timers' = timers, screen' = screen
  PROVE  QueueInv'
  <1>1. "radar" \in timers' \/ screen' = "waits"
    BY DEF QueueInv, TimersInv, NoTimerLost
  <1> QED
    BY <1>1, QueueStaysKeeps

\* A job is asked for; the timer of the officer may be dropped only for his own job.
LEMMA EnqueueKeeps ==
  ASSUME QueueInv, play \in Plays, play' = play, RowsOK', NEW k \in Keys, enqueue(k), Queued,
         k \in EpisodeKeys => ~capReached,
         screen' = screen,
         timers' = timers \/ (k = infoKey /\ timers' = timers \ {"info"})
  PROVE  QueueInv'
  <1>1. IInv /\ JobOK /\ NoTimerLost
    BY DEF QueueInv, TimersInv
  <1>2. /\ IInv' /\ ~isBusy(k)
        /\ \/ /\ running # None /\ running' = running /\ Waiting' = Waiting \cup {k} /\ job' = job
           \/ /\ running = None /\ Waiting = {} /\ running' = k /\ Waiting' = {} /\ Starts(k)
    BY <1>1, EnqueueDoes
  <1>3. CapInv' /\ JobOK' /\ used' \in Nat
    BY CapEnqueue
  <1>4. isBusy(k)' /\ (isBusy(infoKey) => isBusy(infoKey)')
    BY <1>2, KeysAssumption, KeyKinds DEF isBusy
  <1>5. NoTimerLost'
    BY <1>1, <1>4 DEF NoTimerLost
  <1>6. ASSUME job'.phase = "ending" PROVE {"info", "infoRetry"} \cap timers' # {}
    <2>1. job' = job
      BY <1>2, <1>6 DEF Starts
    <2>2. running = infoKey
      BY <1>1, <1>6, <2>1 DEF JobOK
    <2>3. timers' = timers
      BY <1>2, <2>2 DEF isBusy
    <2> QED
      BY <1>6, <2>1, <2>3 DEF QueueInv, TimersInv
  <1> QED
    BY <1>2, <1>3, <1>5, <1>6 DEF QueueInv, TimersInv

\* A job ends; the officer's leaves with his timer armed.
LEMMA EndKeeps ==
  ASSUME QueueInv, play \in Plays, play' = play, RowsOK', EndJob, screen' = screen,
         timers' = timers \/ timers' = scheduleInfo(timers),
         job.phase = "info" => timers' = scheduleInfo(timers)
  PROVE  QueueInv'
  <1>1. IInv /\ JobOK /\ NoTimerLost
    BY DEF QueueInv, TimersInv
  <1>2. /\ IInv'
        /\ \/ running' = None /\ Waiting = {} /\ Waiting' = {} /\ job' = NoJob
           \/ running' \in Waiting /\ Waiting' = Waiting \ {running'} /\ Starts(running')
    BY <1>1, FinishDoes
  <1>3. CapInv' /\ JobOK' /\ used' \in Nat
    BY CapFinish
  <1>4. infoKey \in Waiting => isBusy(infoKey)'
    BY <1>2 DEF isBusy
  <1>5. running = infoKey => {"info", "infoRetry"} \cap timers' # {}
    <2>1. CASE job.phase = "info"
      BY <2>1 DEF scheduleInfo
    <2>2. CASE job.phase = "ending"
      BY <2>2 DEF QueueInv, TimersInv, scheduleInfo
    <2> QED
      BY <1>1, <2>1, <2>2 DEF JobOK
  <1>6. {"info", "infoRetry"} \cap timers # {} => {"info", "infoRetry"} \cap timers' # {}
    BY DEF scheduleInfo
  <1>7. "radar" \in timers => "radar" \in timers'
    BY DEF scheduleInfo
  <1>8. NoTimerLost'
    BY <1>1, <1>4, <1>5, <1>6, <1>7 DEF NoTimerLost, isBusy
  <1>9. job'.phase # "ending"
    BY <1>2 DEF Starts, NoJob
  <1> QED
    BY <1>2, <1>3, <1>8, <1>9 DEF QueueInv, TimersInv

\* The job goes on.
LEMMA GoesKeeps ==
  ASSUME QueueInv, play \in Plays, play' = play, UNCHANGED vars, used' = used, JobOK',
         job'.phase # "chat", screen' = screen,
         \/ timers' = timers /\ job'.phase # "ending"
         \/ timers' = scheduleInfo(timers)
  PROVE  QueueInv'
  <1>1. CapInv' /\ IInv' /\ used' \in Nat
    BY CapQuiet
  <1>2. NoTimerLost
    BY DEF QueueInv, TimersInv
  <1>3. isBusy(infoKey)' <=> isBusy(infoKey)
    BY DEF isBusy, Waiting, vars
  <1>4. NoTimerLost' /\ (job'.phase = "ending" => {"info", "infoRetry"} \cap timers' # {})
    BY <1>2, <1>3 DEF NoTimerLost, scheduleInfo
  <1> QED
    BY <1>1, <1>4 DEF QueueInv, TimersInv


-----------------------------------------------------------------------------
(***************************************************************************)
(* The thread table.                                                       *)
(***************************************************************************)
RowsInv == RowsOK /\ DayOK /\ Limits /\ play \in Plays /\ channel \in Channels

\* A step that makes no row, opens none again and sends no order.
Kept(i) ==
    /\ RowOK(thr'[i])
    /\ thr'[i].symbol = thr[i].symbol /\ thr'[i].channel = thr[i].channel /\ thr'[i].source = thr[i].source
    /\ isOpen(thr'[i]) => isOpen(thr[i])
    /\ thr'[i].step \in {"cleared", "sent"} => thr[i].step \in {"cleared", "sent"}
    /\ thr[i].status = "canceled" => thr'[i].status = "canceled"
    /\ thr[i].status # "none" => thr'[i].status # "none"
TableKept == thr' = [i \in ThreadIds |-> thr'[i]] /\ \A i \in ThreadIds : Kept(i)

\* Parts of the table are finite, and a smaller part counts no more.
LEMMA PartsCount ==
  ASSUME NEW S \in SUBSET ThreadIds, NEW T \in SUBSET S
  PROVE  IsFiniteSet(S) /\ Cardinality(S) \in Nat /\ Cardinality(T) \in Nat /\ Cardinality(T) <= Cardinality(S)
  <1>1. IsFiniteSet(ThreadIds)
    BY DeskAssumption
  <1>2. IsFiniteSet(S)
    BY <1>1, FS_Subset
  <1>3. IsFiniteSet(T) /\ Cardinality(T) <= Cardinality(S)
    BY <1>2, FS_Subset
  <1> QED
    BY <1>2, <1>3, FS_CardinalityType

LEMMA OneRowMore ==
  ASSUME NEW S \in SUBSET ThreadIds, NEW i \in ThreadIds
  PROVE  Cardinality(S \cup {i}) \in Nat /\ Cardinality(S) \in Nat /\ Cardinality(S \cup {i}) <= Cardinality(S) + 1
  <1>1. IsFiniteSet(S) /\ Cardinality(S) \in Nat
    BY PartsCount
  <1>2. IsFiniteSet(S \cup {i}) /\ Cardinality(S \cup {i}) = IF i \in S THEN Cardinality(S) ELSE Cardinality(S) + 1
    BY <1>1, FS_AddElement
  <1> QED
    BY <1>1, <1>2

LEMMA LimitsAre == play \in Plays => play.max_open_threads \in Nat /\ max_opens_per_day \in Nat
  BY DeskAssumption

\* Such a step keeps the limits, also when a new day lets rows drop out of it.
LEMMA TableKeptKeeps ==
  ASSUME RowsInv, TableKept, play' = play, \A i \in ThreadIds : i \in money.old => i \in money'.old
  PROVE  RowsOK' /\ Limits'
  <1>1. RowsOK /\ Limits /\ play \in Plays
    BY DEF RowsInv
  <1>2. \A i \in ThreadIds : Kept(i)
    BY DEF TableKept
  <1>3. RowsOK'
    <2>1. \A i \in ThreadIds : RowOK(thr'[i])
      BY <1>2 DEF Kept
    <2>2. thr' = [i \in ThreadIds |-> thr'[i]]
      BY DEF TableKept
    <2>3. DOMAIN thr' = ThreadIds
      BY <2>2
    <2> QED
      BY <2>1, <2>2, <2>3 DEF RowsOK
  <1>4. \A i \in ThreadIds : Made(i)' => Made(i)
    BY <1>2 DEF Made, Kept
  <1>5. \A i \in ThreadIds : Ordered(i)' => Ordered(i)
    BY <1>2 DEF Ordered, Kept
  <1>6. SymbolsApart'
    BY <1>1, <1>2, <1>4 DEF Limits, SymbolsApart, Kept
  <1>7. ASSUME NEW c \in Channels PROVE Cardinality(OpenedOn(c)') <= play'.max_open_threads
    <2>1. OpenedOn(c)' \subseteq OpenedOn(c) /\ OpenedOn(c) \subseteq ThreadIds
      BY <1>2, <1>4 DEF OpenedOn, Kept
    <2>2. Cardinality(OpenedOn(c)') <= Cardinality(OpenedOn(c)) /\ Cardinality(OpenedOn(c)') \in Nat /\ Cardinality(OpenedOn(c)) \in Nat
      BY <2>1, PartsCount
    <2>3. Cardinality(OpenedOn(c)) <= play.max_open_threads
      BY <1>1 DEF Limits
    <2> QED
      BY <1>1, <2>2, <2>3, LimitsAre
  <1>8. Cardinality(OrderedToday') <= max_opens_per_day
    <2>1. OrderedToday' \subseteq OrderedToday /\ OrderedToday \subseteq ThreadIds
      BY <1>5 DEF OrderedToday
    <2>2. Cardinality(OrderedToday') <= Cardinality(OrderedToday) /\ Cardinality(OrderedToday') \in Nat /\ Cardinality(OrderedToday) \in Nat
      BY <2>1, PartsCount
    <2>3. Cardinality(OrderedToday) <= max_opens_per_day
      BY <1>1 DEF Limits
    <2> QED
      BY <1>1, <2>2, <2>3, LimitsAre
  <1> QED
    BY <1>3, <1>6, <1>7, <1>8 DEF Limits

\* What the gates let through when a row n is to be made for symbol s.
LEMMA GateOpen ==
  ASSUME NEW s, NEW a, ~openingBlocked(s, a, 0), RowsInv
  PROVE  /\ \A i \in openThreads : thr[i].symbol # s
         /\ Cardinality(openThreads) < play.max_open_threads
  <1>1. openThreads \ {0} = openThreads
    BY DeskAssumption DEF openThreads
  <1>2. /\ \A i \in openThreads \ {0} : thr[i].symbol # s
        /\ ~(Cardinality(openThreads \ {0}) >= play.max_open_threads)
    BY DEF openingBlocked
  <1>3. Cardinality(openThreads) \in Nat /\ play.max_open_threads \in Nat
    BY PartsCount, LimitsAre DEF openThreads, RowsInv
  <1> QED
    BY <1>1, <1>2, <1>3

\* A new row keeps the limits if the gates were open in the same step.
LEMMA CreatedKeeps ==
  ASSUME RowsInv, NEW n \in Free, NEW row, RowOK(row), isOpen(row), row.channel = channel,
         row.step \notin {"cleared", "sent"}, thr' = [thr EXCEPT ![n] = row],
         row.source = "adopted" \/ \E a : ~openingBlocked(row.symbol, a, 0),
         play' = play, money' = money
  PROVE  RowsOK' /\ Limits' /\ DayOK'
  <1>1. RowsOK /\ Limits /\ play \in Plays /\ channel \in Channels /\ DayOK
    BY DEF RowsInv
  <1>2. n \in ThreadIds /\ thr[n].status = "none"
    BY DEF Free
  <1>3. thr'[n] = row /\ \A i \in ThreadIds \ {n} : thr'[i] = thr[i]
    BY <1>1, <1>2 DEF RowsOK
  <1>4. RowsOK'
    <2>1. thr' = [i \in ThreadIds |-> thr'[i]] /\ DOMAIN thr' = ThreadIds
      BY <1>1, <1>2 DEF RowsOK
    <2>2. \A i \in ThreadIds : RowOK(thr'[i])
      BY <1>1, <1>3 DEF RowsOK
    <2> QED
      BY <2>1, <2>2 DEF RowsOK
  <1>5. \A i \in ThreadIds : Ordered(i)' => Ordered(i)
    BY <1>3 DEF Ordered
  <1>6. Cardinality(OrderedToday') <= max_opens_per_day
    <2>1. OrderedToday' \subseteq OrderedToday /\ OrderedToday \subseteq ThreadIds
      BY <1>5 DEF OrderedToday
    <2>2. Cardinality(OrderedToday') <= Cardinality(OrderedToday) /\ Cardinality(OrderedToday') \in Nat /\ Cardinality(OrderedToday) \in Nat
      BY <2>1, PartsCount
    <2>3. Cardinality(OrderedToday) <= max_opens_per_day
      BY <1>1 DEF Limits
    <2> QED
      BY <1>1, <2>2, <2>3, LimitsAre
  <1>7. DayOK'
    <2>1. row.status # "none"
      BY DEF isOpen
    <2> QED
      BY <1>1, <1>3, <2>1 DEF DayOK
  <1>8. Made(n)' <=> row.source # "adopted"
    BY <1>3 DEF Made
  <1>9. \A i \in ThreadIds \ {n} : Made(i)' <=> Made(i)
    BY <1>3 DEF Made
  <1>10. row.source # "adopted" => /\ \A i \in openThreads : thr[i].symbol # row.symbol
                                   /\ Cardinality(openThreads) < play.max_open_threads
    BY GateOpen
  <1>11. SymbolsApart'
    <2> SUFFICES ASSUME NEW i \in ThreadIds, NEW j \in ThreadIds, i # j, Made(i)', Made(j)',
                        thr'[i].symbol = thr'[j].symbol, thr'[i].channel = thr'[j].channel
                 PROVE  FALSE
      BY DEF SymbolsApart
    <2>1. CASE i # n /\ j # n
      BY <1>1, <1>3, <1>9, <2>1 DEF Limits, SymbolsApart
    <2>2. ASSUME NEW m \in ThreadIds \ {n}, Made(m)', Made(n)', thr'[m].symbol = row.symbol, thr'[m].channel = channel PROVE FALSE
      <3>1. m \in openThreads
        BY <1>3, <1>9, <2>2 DEF openThreads, Made
      <3> QED
        BY <1>3, <1>8, <1>10, <2>2, <3>1
    <2> QED
      BY <1>3, <2>1, <2>2
  <1>12. ASSUME NEW c \in Channels PROVE Cardinality(OpenedOn(c)') <= play'.max_open_threads
    <2>1. Cardinality(OpenedOn(c)) <= play.max_open_threads /\ OpenedOn(c) \subseteq ThreadIds
      BY <1>1 DEF Limits, OpenedOn
    <2>2. CASE c = channel /\ row.source # "adopted"
      <3>1. OpenedOn(c)' \subseteq openThreads \cup {n} /\ openThreads \subseteq ThreadIds
        BY <1>3, <1>9, <2>2 DEF OpenedOn, openThreads, Made
      <3>2. Cardinality(openThreads \cup {n}) <= Cardinality(openThreads) + 1 /\ Cardinality(openThreads) \in Nat
        BY <1>2, <3>1, OneRowMore
      <3>3. openThreads \cup {n} \in SUBSET ThreadIds
        BY <1>2, <3>1
      <3>4. /\ Cardinality(OpenedOn(c)') <= Cardinality(openThreads \cup {n}) /\ Cardinality(OpenedOn(c)') \in Nat
            /\ Cardinality(openThreads \cup {n}) \in Nat
        BY <3>1, <3>3, PartsCount
      <3> QED
        BY <1>1, <1>10, <2>2, <3>2, <3>4, LimitsAre
    <2>3. CASE ~(c = channel /\ row.source # "adopted")
      <3>1. OpenedOn(c)' \subseteq OpenedOn(c)
        BY <1>3, <1>8, <1>9, <2>3 DEF OpenedOn
      <3>2. Cardinality(OpenedOn(c)') <= Cardinality(OpenedOn(c)) /\ Cardinality(OpenedOn(c)') \in Nat /\ Cardinality(OpenedOn(c)) \in Nat
        BY <2>1, <3>1, PartsCount
      <3> QED
        BY <1>1, <2>1, <3>2, LimitsAre
    <2> QED
      BY <2>2, <2>3
  <1> QED
    BY <1>4, <1>6, <1>7, <1>11, <1>12 DEF Limits

\* No row, no limit and no day changes.
LEMMA TableSame ==
  ASSUME RowsInv, thr' = thr, money' = money, play' = play
  PROVE  RowsOK' /\ Limits' /\ DayOK'
  <1>1. RowsOK /\ DayOK /\ Limits
    BY DEF RowsInv
  <1>2. \A i \in ThreadIds : RowOK(thr[i])
    BY <1>1 DEF RowsOK
  <1>3. \A i \in ThreadIds : Kept(i)
    BY <1>2 DEF Kept
  <1>4. TableKept
    BY <1>1, <1>3 DEF TableKept, RowsOK
  <1>5. RowsOK' /\ Limits'
    BY <1>4, TableKeptKeeps
  <1>6. DayOK'
    BY <1>1 DEF DayOK
  <1> QED
    BY <1>5, <1>6

\* Rows change as they may, and the day does not.
LEMMA TableMoves ==
  ASSUME RowsInv, TableKept, money' = money, play' = play
  PROVE  RowsOK' /\ Limits' /\ DayOK'
  <1>1. RowsOK' /\ Limits'
    BY TableKeptKeeps
  <1>2. DayOK'
    BY DEF RowsInv, DayOK, TableKept, Kept
  <1> QED
    BY <1>1, <1>2

\* One row changes.
LEMMA OneRowKept ==
  ASSUME RowsOK, NEW i \in ThreadIds, NEW r, thr' = [thr EXCEPT ![i] = r], RowOK(r),
         r.symbol = thr[i].symbol, r.channel = thr[i].channel, r.source = thr[i].source,
         isOpen(r) => isOpen(thr[i]),
         r.step \in {"cleared", "sent"} => thr[i].step \in {"cleared", "sent"},
         thr[i].status = "canceled" => r.status = "canceled",
         thr[i].status # "none" => r.status # "none"
  PROVE  TableKept
  <1>1. thr'[i] = r /\ \A j \in ThreadIds \ {i} : thr'[j] = thr[j]
    BY DEF RowsOK
  <1>2. thr' = [j \in ThreadIds |-> thr'[j]]
    BY DEF RowsOK
  <1>3. \A j \in ThreadIds : RowOK(thr[j])
    BY DEF RowsOK
  <1>4. Kept(i)
    BY <1>1 DEF Kept
  <1>5. \A j \in ThreadIds \ {i} : Kept(j)
    BY <1>1, <1>3 DEF Kept
  <1> QED
    BY <1>2, <1>4, <1>5 DEF TableKept

\* preflightOpen before the order: the row that is checked becomes one of the day's
\* orders only if the others leave room for it.
LEMMA OpenCheckedKeeps ==
  ASSUME RowsInv, NEW i \in ThreadIds, OpenChecked(i)
  PROVE  RowsOK' /\ Limits' /\ DayOK'
  <1>1. RowsOK /\ Limits /\ DayOK /\ play \in Plays /\ RowOK(thr[i]) /\ thr[i].step = "saved"
    BY DEF RowsInv, RowsOK, OpenChecked
  <1>2. money' = money /\ play' = play
    BY DEF OpenChecked, ThreadsOnly
  <1>3. CASE preflightBlocked(thr[i].symbol, AccountNow, i)
    <2> DEFINE r == [thr[i] EXCEPT !.status = "canceled", !.step = "none"]
    <2>1. thr' = [thr EXCEPT ![i] = r]
      BY <1>3 DEF OpenChecked
    <2>2. RowOK(r) /\ r.symbol = thr[i].symbol /\ r.channel = thr[i].channel /\ r.source = thr[i].source
          /\ r.status = "canceled" /\ r.step = "none"
      BY <1>1 DEF RowOK, Rows, Statuses, Steps
    <2> HIDE DEF r
    <2>3. TableKept
      BY <1>1, <2>1, <2>2, OneRowKept DEF isOpen
    <2> QED
      BY <1>2, <2>3, TableMoves
  <1>4. CASE ~preflightBlocked(thr[i].symbol, AccountNow, i)
    <2> DEFINE r == [thr[i] EXCEPT !.step = "cleared"]
    <2>1. thr' = [thr EXCEPT ![i] = r]
      BY <1>4 DEF OpenChecked
    <2>2. RowOK(r) /\ r.symbol = thr[i].symbol /\ r.channel = thr[i].channel /\ r.source = thr[i].source
          /\ r.status = thr[i].status /\ r.step = "cleared" /\ r.status # "none"
      BY <1>1 DEF RowOK, Rows, Statuses, Steps
    <2> HIDE DEF r
    <2>3. thr'[i] = r /\ \A j \in ThreadIds \ {i} : thr'[j] = thr[j]
      BY <1>1, <2>1 DEF RowsOK
    <2>4. RowsOK'
      <3>1. thr' = [j \in ThreadIds |-> thr'[j]] /\ DOMAIN thr' = ThreadIds
        BY <1>1, <2>1 DEF RowsOK
      <3>2. \A j \in ThreadIds : RowOK(thr'[j])
        BY <1>1, <2>2, <2>3 DEF RowsOK
      <3> QED
        BY <3>1, <3>2 DEF RowsOK
    <2>5. \A j \in ThreadIds : /\ Made(j)' <=> Made(j)
                               /\ thr'[j].symbol = thr[j].symbol /\ thr'[j].channel = thr[j].channel
      BY <2>2, <2>3 DEF Made, isOpen
    <2>6. SymbolsApart'
      BY <1>1, <2>5 DEF Limits, SymbolsApart
    <2>7. \A c \in Channels : OpenedOn(c)' = OpenedOn(c)
      BY <2>5 DEF OpenedOn
    <2> DEFINE others == {j \in ThreadIds \ (money.old \cup {i}) :
                            thr[j].status \notin {"none", "canceled"} /\ thr[j].source # "manual"
                            /\ thr[j].step \in {"saved", "cleared", "sent"}}
    <2>8. Cardinality(others) < max_opens_per_day
      <3>1. ~(opensToday(i) >= max_opens_per_day)
        BY <1>4 DEF preflightBlocked, openingBlocked
      <3>2. Cardinality(others) \in Nat /\ max_opens_per_day \in Nat
        BY <1>1, PartsCount, LimitsAre
      <3> QED
        BY <3>1, <3>2 DEF opensToday
    <2>9. \A j \in ThreadIds \ {i} : Ordered(j)' => j \in others
      <3>1. \A j \in ThreadIds : thr[j].step \in {"cleared", "sent"} => thr[j].status # "none"
        BY <1>1 DEF RowsOK, RowOK
      <3> QED
        BY <1>2, <2>3, <3>1 DEF Ordered
    <2>10. OrderedToday' \subseteq others \cup {i} /\ others \subseteq ThreadIds
      BY <2>9 DEF OrderedToday
    <2> HIDE DEF others
    <2>11. Cardinality(OrderedToday') <= max_opens_per_day
      <3>1. Cardinality(others \cup {i}) <= Cardinality(others) + 1 /\ Cardinality(others) \in Nat /\ Cardinality(others \cup {i}) \in Nat
        BY <2>10, OneRowMore
      <3>2. others \cup {i} \in SUBSET ThreadIds
        BY <2>10
      <3>3. Cardinality(OrderedToday') <= Cardinality(others \cup {i}) /\ Cardinality(OrderedToday') \in Nat
        BY <2>10, <3>2, PartsCount
      <3> QED
        BY <1>1, <2>8, <3>1, <3>3, LimitsAre
    <2>12. DayOK'
      BY <1>1, <1>2, <2>2, <2>3 DEF DayOK
    <2> QED
      BY <1>1, <1>2, <2>4, <2>6, <2>7, <2>11, <2>12 DEF Limits
  <1> QED
    BY <1>3, <1>4

-----------------------------------------------------------------------------
(***************************************************************************)
(* The actions, one by one.                                                *)
(***************************************************************************)
LEMMA Parts ==
  ASSUME DeskInv
  PROVE  QueueInv /\ RowsInv /\ DeskShape /\ TasksOK
  BY DEF DeskInv, DeskTypes, QueueInv, RowsInv, DeskShape

LEMMA Assembled ==
  ASSUME QueueInv', RowsOK', Limits', DayOK', DeskShape', TasksOK'
  PROVE  DeskInv'
  BY DEF DeskInv, DeskTypes, QueueInv

\* Opening: the row of the thread goes on.
LEMMA OpeningKeeps ==
  ASSUME DeskInv, NEW i \in ThreadIds, approveIntent(i) \/ OpenChecked(i) \/ OpenSent(i)
  PROVE  DeskInv'
  <1>1. QueueInv /\ RowsInv /\ DeskShape /\ TasksOK
    BY Parts
  <1>2. ThreadsOnly
    BY DEF approveIntent, OpenChecked, OpenSent
  <1>3. QueueInv'
    BY <1>1, <1>2, ElsewhereKeeps DEF ThreadsOnly, RowsInv
  <1>4. TasksOK'
    BY <1>1, <1>2 DEF ThreadsOnly, TasksOK
  <1>5. acct'.held \subseteq Watched
    BY <1>1 DEF approveIntent, OpenChecked, OpenSent, AccountNow, DeskShape
  <1>6. DeskShape'
    BY <1>1, <1>2, <1>5 DEF ThreadsOnly, QueueStays, DeskShape
  <1>7. RowsOK /\ RowOK(thr[i])
    BY <1>1 DEF RowsInv, RowsOK
  <1>8. CASE approveIntent(i)
    <2> DEFINE r == [thr[i] EXCEPT !.step = "saved"]
    <2>1. thr' = [thr EXCEPT ![i] = r] /\ isOpen(thr[i])
      BY <1>8 DEF approveIntent
    <2>2. RowOK(r) /\ r.symbol = thr[i].symbol /\ r.channel = thr[i].channel /\ r.source = thr[i].source
          /\ r.status = thr[i].status /\ r.step = "saved"
      BY <1>7, <2>1 DEF RowOK, Rows, Steps, isOpen
    <2> HIDE DEF r
    <2>3. TableKept
      BY <1>7, <2>1, <2>2, OneRowKept DEF isOpen
    <2>4. RowsOK' /\ Limits' /\ DayOK'
      BY <1>1, <1>2, <2>3, TableMoves DEF ThreadsOnly
    <2> QED
      BY <1>3, <1>4, <1>6, <2>4, Assembled
  <1>9. CASE OpenChecked(i)
    BY <1>1, <1>3, <1>4, <1>6, <1>9, OpenCheckedKeeps, Assembled
  <1>10. CASE OpenSent(i)
    <2> DEFINE r == IF halted THEN [thr[i] EXCEPT !.status = "canceled", !.step = "none"] ELSE [thr[i] EXCEPT !.step = "sent"]
    <2>1. thr' = [thr EXCEPT ![i] = r] /\ thr[i].step = "cleared"
      BY <1>10 DEF OpenSent
    <2>2. RowOK(r) /\ r.symbol = thr[i].symbol /\ r.channel = thr[i].channel /\ r.source = thr[i].source
          /\ (r.status = "canceled" \/ (r.status = thr[i].status))
          /\ r.step \in {"none", "sent"}
      BY <1>7, <2>1 DEF RowOK, Rows, Steps, Statuses
    <2> HIDE DEF r
    <2>3. TableKept
      BY <1>7, <2>1, <2>2, OneRowKept DEF isOpen
    <2>4. RowsOK' /\ Limits' /\ DayOK'
      BY <1>1, <1>2, <2>3, TableMoves DEF ThreadsOnly
    <2> QED
      BY <1>3, <1>4, <1>6, <2>4, Assembled
  <1> QED
    BY <1>8, <1>9, <1>10

\* TaskGoes leaves the queue, the table of the day and the timers alone.
LEMMA TaskDoes ==
  ASSUME DeskInv, NEW p \in People, NEW t, TaskGoes(p, t), TaskOK(t),
         p \in {"order", "adopt"} /\ t.pc # "idle" => t.symbol \in Watched,
         p = "switch" /\ t.pc # "idle" => t.to \in Channels
  PROVE  /\ QueueInv' /\ TasksOK' /\ tasks'[p] = t /\ \A q \in People \ {p} : tasks'[q] = tasks[q]
         /\ money' = money /\ play' = play
         /\ UNCHANGED <<held, asks, used, timers>>
  <1>1. QueueInv /\ TasksOK /\ play \in Plays
    BY Parts DEF DeskShape
  <1>2. tasks'[p] = t /\ \A q \in People \ {p} : tasks'[q] = tasks[q]
    BY <1>1 DEF TaskGoes, TasksOK
  <1>3. tasks' = [q \in People |-> tasks'[q]]
    BY <1>1 DEF TaskGoes, TasksOK
  <1>4. TasksOK'
    <2>1. \A q \in People : TaskOK(tasks'[q])
      BY <1>1, <1>2 DEF TasksOK
    <2>2. "order" \in People /\ "adopt" \in People /\ "switch" \in People
      BY DEF People
    <2>3. \A q \in {"order", "adopt"} : tasks'[q].pc # "idle" => tasks'[q].symbol \in Watched
      BY <1>1, <1>2, <2>2 DEF TasksOK
    <2>4. tasks'["switch"].pc # "idle" => tasks'["switch"].to \in Channels
      BY <1>1, <1>2, <2>2 DEF TasksOK
    <2> QED
      BY <1>3, <2>1, <2>3, <2>4 DEF TasksOK
  <1>5. QueueInv'
    BY <1>1, ElsewhereKeeps DEF TaskGoes
  <1> QED
    BY <1>2, <1>4, <1>5 DEF TaskGoes, QueueStays

LEMMA IdleIsTask == TaskOK(IdleTask) /\ IdleTask.pc = "idle"
  BY DEF TaskOK, IdleTask

\* The panel and the adoption ask, and somebody asks for another backend.
LEMMA PeopleAskKeeps ==
  ASSUME DeskInv,
         \/ \E s \in Watched : manualOrder(s) \/ adoptPosition(s)
         \/ \E c \in Channels : switchBackend(c)
  PROVE  DeskInv'
  <1>1. QueueInv /\ RowsInv /\ DeskShape /\ TasksOK
    BY Parts
  <1> DEFINE T(s) == [IdleTask EXCEPT !.pc = "reads", !.symbol = s]
             U(c) == [IdleTask EXCEPT !.pc = "starts", !.to = c]
  <1>2. \A s \in Watched : TaskOK(T(s)) /\ T(s).symbol = s /\ T(s).pc = "reads"
    BY DEF TaskOK, IdleTask
  <1>3. \A c \in Channels : TaskOK(U(c)) /\ U(c).to = c /\ U(c).pc = "starts"
    BY DEF TaskOK, IdleTask
  <1>4. PICK p, t : /\ p \in People
                    /\ TaskGoes(p, t) /\ UNCHANGED <<thr, acct, channel, settings>>
                    /\ TaskOK(t)
                    /\ (p \in {"order", "adopt"} => t.symbol \in Watched)
                    /\ (p = "switch" => t.to \in Channels)
    <2>1. ASSUME NEW s \in Watched, manualOrder(s) PROVE TaskGoes("order", T(s)) /\ UNCHANGED <<thr, acct, channel, settings>>
      BY <2>1 DEF manualOrder
    <2>2. ASSUME NEW s \in Watched, adoptPosition(s) PROVE TaskGoes("adopt", T(s)) /\ UNCHANGED <<thr, acct, channel, settings>>
      BY <2>2 DEF adoptPosition
    <2>3. ASSUME NEW c \in Channels, switchBackend(c) PROVE TaskGoes("switch", U(c)) /\ UNCHANGED <<thr, acct, channel, settings>>
      BY <2>3 DEF switchBackend
    <2>4. "order" \in People /\ "adopt" \in People /\ "switch" \in People
      BY DEF People
    <2> HIDE DEF T, U
    <2> QED
      BY <1>2, <1>3, <2>1, <2>2, <2>3, <2>4
  <1>5. /\ QueueInv' /\ TasksOK' /\ money' = money /\ play' = play
        /\ UNCHANGED <<held, asks, used, timers>>
    BY <1>4, TaskDoes
  <1>6. RowsOK' /\ Limits' /\ DayOK'
    BY <1>1, <1>4, <1>5, TableSame
  <1>7. DeskShape'
    BY <1>1, <1>4, <1>5 DEF DeskShape
  <1> QED
    BY <1>5, <1>6, <1>7, Assembled

\* A new row is open, on the channel that runs, and has no order yet.
LEMMA NewRowIs ==
  ASSUME channel \in Channels, NEW s \in Watched, NEW source \in {"agent", "chat", "manual"}, NEW auto \in BOOLEAN
  PROVE  /\ RowOK(NewRow(s, source, auto)) /\ isOpen(NewRow(s, source, auto))
         /\ NewRow(s, source, auto).symbol = s /\ NewRow(s, source, auto).channel = channel
         /\ NewRow(s, source, auto).source = source
         /\ NewRow(s, source, auto).step = IF source = "chat" \/ ~auto THEN "waiting" ELSE "saved"
  <1> DEFINE step == IF source = "chat" \/ ~auto THEN "waiting" ELSE "saved"
  <1>1. step \in {"waiting", "saved"}
    OBVIOUS
  <1> HIDE DEF step
  <1>2. NewRow(s, source, auto) = [status |-> "pending_entry", symbol |-> s, channel |-> channel, source |-> source, step |-> step]
    BY DEF NewRow, step
  <1>3. step = IF source = "chat" \/ ~auto THEN "waiting" ELSE "saved"
    BY DEF step
  <1> QED
    BY <1>1, <1>2, <1>3 DEF RowOK, Rows, Statuses, Sources, Steps, isOpen

\* The rows are numbered, and the least free number is the next.
LEMMA LeastOf ==
  ASSUME NEW S \in SUBSET Nat, S # {}
  PROVE  \E i \in S : \A j \in S : i <= j
  <1>1. IsWellFoundedOn(OpToRel(<, Nat), Nat)
    BY NatLessThanWellFounded, Zenon
  <1>2. PICK i \in S : \A j \in S : ~(<<j, i>> \in OpToRel(<, Nat))
    BY <1>1, WFMin, Zenon
  <1>3. \A j \in S : ~(j < i)
    BY <1>2 DEF OpToRel
  <1> QED
    BY <1>3

LEMMA NextIsFree == Free # {} => Next_id \in Free
  <1>1. Free \in SUBSET Nat
    BY DeskAssumption DEF Free
  <1>2. Free # {} => \E i \in Free : \A j \in Free : i <= j
    BY <1>1, LeastOf
  <1> QED
    BY <1>2 DEF Next_id

LEMMA GateOf ==
  ASSUME NEW s, NEW a, ~preflightBlocked(s, a, 0)
  PROVE  \E b : ~openingBlocked(s, b, 0)
  BY DEF preflightBlocked

\* The order panel places its order, and an adopted position gets its row.
LEMMA ManualPlacedKeeps ==
  ASSUME DeskInv, ManualPlaced
  PROVE  DeskInv'
  <1>1. QueueInv /\ RowsInv /\ DeskShape /\ TasksOK
    BY Parts
  <1>2. TaskGoes("order", IdleTask) /\ UNCHANGED <<acct, channel, settings>>
    BY DEF ManualPlaced
  <1>3. /\ QueueInv' /\ TasksOK' /\ money' = money /\ play' = play
        /\ UNCHANGED <<held, asks, used, timers>>
    BY <1>2, IdleIsTask, TaskDoes DEF People
  <1>4. DeskShape'
    BY <1>1, <1>2, <1>3 DEF DeskShape
  <1> DEFINE s == tasks["order"].symbol
  <1>5. s \in Watched
    BY <1>1 DEF ManualPlaced, TasksOK
  <1>6. RowsOK' /\ Limits' /\ DayOK'
    <2>1. CASE preflightBlocked(s, acct, 0)
      BY <1>1, <1>3, <2>1, TableSame DEF ManualPlaced
    <2>2. CASE ~preflightBlocked(s, acct, 0)
      <3> DEFINE row == NewRow(s, "manual", TRUE)
      <3>1. Next_id \in Free /\ thr' = [thr EXCEPT ![Next_id] = row]
        BY <2>2, NextIsFree DEF ManualPlaced
      <3>2. channel \in Channels /\ TRUE \in BOOLEAN
        BY <1>1 DEF DeskShape
      <3>3. RowOK(row) /\ isOpen(row) /\ row.symbol = s /\ row.channel = channel /\ row.step = "saved"
        BY <1>5, <3>2, NewRowIs
      <3>4. \E b : ~openingBlocked(s, b, 0)
        BY <2>2, GateOf
      <3> HIDE DEF row, s
      <3> QED
        BY <1>1, <1>3, <3>1, <3>3, <3>4, CreatedKeeps
    <2> QED
      BY <2>1, <2>2
  <1> QED
    BY <1>3, <1>4, <1>6, Assembled

LEMMA AdoptedKeeps ==
  ASSUME DeskInv, Adopted
  PROVE  DeskInv'
  <1>1. QueueInv /\ RowsInv /\ DeskShape /\ TasksOK
    BY Parts
  <1>2. TaskGoes("adopt", IdleTask) /\ UNCHANGED <<channel, settings>> /\ acct' = AccountNow
    BY DEF Adopted
  <1>3. /\ QueueInv' /\ TasksOK' /\ money' = money /\ play' = play
        /\ UNCHANGED <<held, asks, used, timers>>
    BY <1>2, IdleIsTask, TaskDoes DEF People
  <1>4. acct'.held \subseteq Watched
    BY <1>1, <1>2 DEF AccountNow, DeskShape
  <1>5. DeskShape'
    BY <1>1, <1>2, <1>3, <1>4 DEF DeskShape
  <1> DEFINE s == tasks["adopt"].symbol
  <1>6. s \in Watched
    BY <1>1 DEF Adopted, TasksOK
  <1>7. RowsOK' /\ Limits' /\ DayOK'
    <2>1. CASE s \notin held[channel]
      BY <1>1, <1>3, <2>1, TableSame DEF Adopted
    <2>2. CASE s \in held[channel]
      <3> DEFINE new == NewRow(s, "manual", TRUE)
                 row == [new EXCEPT !.status = "in_position", !.source = "adopted", !.step = "none"]
      <3>1. Next_id \in Free /\ thr' = [thr EXCEPT ![Next_id] = row]
        BY <2>2, NextIsFree DEF Adopted
      <3>2. channel \in Channels /\ TRUE \in BOOLEAN
        BY <1>1 DEF DeskShape
      <3>3. RowOK(new) /\ new.symbol = s /\ new.channel = channel
        BY <1>6, <3>2, NewRowIs
      <3> HIDE DEF new, s
      <3>4. RowOK(row) /\ isOpen(row) /\ row.symbol = s /\ row.channel = channel /\ row.step = "none" /\ row.source = "adopted"
        BY <1>6, <3>2, <3>3 DEF RowOK, Rows, Statuses, Sources, Steps, isOpen
      <3> HIDE DEF row
      <3> QED
        BY <1>1, <1>3, <3>1, <3>4, CreatedKeeps
    <2> QED
      BY <2>1, <2>2
  <1> QED
    BY <1>3, <1>5, <1>7, Assembled

\* The switch of the backend: threads may be left on the old channel, or be found
\* on the new one.
LEMMA SwitchKeeps ==
  ASSUME DeskInv, SwitchStarted \/ SwitchDone
  PROVE  DeskInv'
  <1>1. QueueInv /\ RowsInv /\ DeskShape /\ TasksOK
    BY Parts
  <1> DEFINE t == tasks["switch"]
             t2 == [t EXCEPT !.pc = "stops"]
  <1>2. TaskOK(t) /\ t.pc # "idle" /\ t.to \in Channels
    BY <1>1 DEF TasksOK, People, SwitchStarted, SwitchDone
  <1>3. TaskOK(t2) /\ t2.to = t.to
    BY <1>2 DEF TaskOK
  <1>4. /\ thr' = thr
        /\ \/ TaskGoes("switch", IdleTask)
           \/ \E u : TaskGoes("switch", u) /\ TaskOK(u) /\ u.to \in Channels
    BY <1>2, <1>3 DEF SwitchStarted, SwitchDone
  <1>5. /\ QueueInv' /\ TasksOK' /\ money' = money /\ play' = play
        /\ UNCHANGED <<held, asks, used, timers>>
    BY <1>4, IdleIsTask, TaskDoes DEF People
  <1>6. thr' = thr
    BY DEF SwitchStarted, SwitchDone
  <1>7. RowsOK' /\ Limits' /\ DayOK'
    BY <1>1, <1>5, <1>6, TableSame
  <1>8. channel' \in Channels
    BY <1>1, <1>2 DEF SwitchStarted, SwitchDone, DeskShape
  <1>9. settings' \in [paused : BOOLEAN, execution : Channels, watch : SUBSET Watched]
    <2>1. settings' = settings \/ settings' = [[settings EXCEPT !.execution = t.to] EXCEPT !.execution = channel']
      BY DEF SwitchStarted, SwitchDone, setWorkflow
    <2> QED
      BY <1>1, <1>8, <2>1 DEF DeskShape
  <1>10. acct'.held \subseteq Watched
    BY <1>1 DEF SwitchStarted, SwitchDone, AccountNow, DeskShape
  <1>11. DeskShape'
    BY <1>1, <1>5, <1>8, <1>9, <1>10 DEF DeskShape
  <1> QED
    BY <1>5, <1>7, <1>11, Assembled

\* The emergency stop, and the threads it ends.
LEMMA HaltKeeps ==
  ASSUME DeskInv, halt \/ \E failed \in SUBSET Watched : HaltEnds(failed)
  PROVE  DeskInv'
  <1>1. QueueInv /\ RowsInv /\ DeskShape /\ TasksOK /\ RowsOK
    BY Parts DEF RowsInv
  <1>2. QueueStays /\ play' = play /\ timers' = timers /\ screen' = screen /\ money' = money
        /\ UNCHANGED <<channel, settings, acct, asks>>
    BY DEF halt, HaltEnds, QueueStays
  <1>3. QueueInv'
    BY <1>1, <1>2, ElsewhereKeeps DEF DeskShape
  <1>4. TasksOK'
    <2>1. PICK t : tasks' = [tasks EXCEPT !["halt"] = t] /\ TaskOK(t)
      <3>1. TaskOK(IdleTask) /\ TaskOK([IdleTask EXCEPT !.pc = "closes"])
        BY DEF IdleTask, TaskOK
      <3> QED
        BY <3>1 DEF halt, HaltEnds
    <2>2. "halt" \in People
      BY DEF People
    <2>3. tasks' = [q \in People |-> tasks'[q]] /\ tasks'["halt"] = t /\ \A q \in People \ {"halt"} : tasks'[q] = tasks[q]
      BY <1>1, <2>1, <2>2 DEF TasksOK
    <2>4. "order" \in People \ {"halt"} /\ "adopt" \in People \ {"halt"} /\ "switch" \in People \ {"halt"}
      BY DEF People
    <2> QED
      BY <1>1, <2>1, <2>3, <2>4 DEF TasksOK
  <1>5. held' = [c \in Channels |-> held'[c]] /\ \A c \in Channels : held'[c] \subseteq Watched
    BY <1>1 DEF halt, HaltEnds, DeskShape
  <1>6. used' = used
    BY <1>2 DEF QueueStays
  <1>7. DeskShape'
    BY <1>1, <1>2, <1>5, <1>6 DEF DeskShape
  <1>8. RowsOK' /\ Limits' /\ DayOK'
    <2>1. CASE halt
      BY <1>1, <1>2, <2>1, TableSame DEF halt
    <2>2. ASSUME NEW failed \in SUBSET Watched, HaltEnds(failed) PROVE RowsOK' /\ Limits' /\ DayOK'
      <3> DEFINE r(i) == [thr[i] EXCEPT !.status = IF @ = "pending_entry" THEN "canceled" ELSE "closed"]
      <3>1. thr' = [i \in ThreadIds |-> IF i \in openThreads /\ thr[i].symbol \notin failed THEN r(i) ELSE thr[i]]
        BY <2>2 DEF HaltEnds
      <3>2. ASSUME NEW i \in ThreadIds PROVE RowOK(thr[i])
        BY <1>1 DEF RowsOK
      <3>3. ASSUME NEW i \in openThreads
            PROVE  /\ RowOK(r(i)) /\ r(i).symbol = thr[i].symbol /\ r(i).channel = thr[i].channel /\ r(i).source = thr[i].source
                   /\ r(i).step = thr[i].step /\ r(i).status \in {"canceled", "closed"} /\ isOpen(thr[i]) /\ thr[i].status # "canceled"
        <4>1. RowOK(thr[i]) /\ isOpen(thr[i])
          BY <3>2 DEF openThreads
        <4>2. thr[i].status \in {"pending_entry", "in_position"}
          BY <4>1 DEF isOpen
        <4> QED
          BY <4>1, <4>2 DEF RowOK, Rows, Statuses
      <3> HIDE DEF r
      <3>4. thr' = [i \in ThreadIds |-> thr'[i]]
        BY <3>1
      <3>5. \A i \in ThreadIds : Kept(i)
        BY <3>1, <3>2, <3>3 DEF Kept, isOpen
      <3> QED
        BY <1>1, <1>2, <3>4, <3>5, TableMoves DEF TableKept
    <2> QED
      BY <2>1, <2>2
  <1> QED
    BY <1>3, <1>4, <1>7, <1>8, Assembled

\* Settings and the radar: the queue stays, and the timers are armed again.
LEMMA SettingsKeeps ==
  ASSUME DeskInv,
         \/ \E p \in BOOLEAN : Pause(p)
         \/ \E c \in Channels : SaveForm(c)
         \/ resume \/ RadarDue \/ RadarRun \/ RadarEnds \/ Reschedule \/ InfoRetry
  PROVE  DeskInv'
  <1>1. QueueInv /\ RowsInv /\ DeskShape /\ TasksOK
    BY Parts
  <1>2. QueueStays /\ play' = play /\ money' = money /\ thr' = thr
        /\ UNCHANGED <<channel, acct, asks, held, tasks>>
    BY DEF Pause, SaveForm, resume, RadarDue, RadarRun, RadarEnds, Reschedule, InfoRetry, QueueStays, RadarStays
  <1>3. /\ timers' \subseteq {"info", "infoRetry", "radar", "kline"}
        /\ "info" \in timers' \/ {"info", "infoRetry"} \cap timers' = {"info", "infoRetry"} \cap timers
    BY <1>1 DEF Pause, SaveForm, resume, RadarDue, RadarRun, RadarEnds, Reschedule, InfoRetry, scheduleInfo, DeskShape, RadarStays
  <1>4. "radar" \in timers' \/ screen' = "waits"
    <2>1. "radar" \in timers \/ screen = "waits"
      BY <1>1 DEF QueueInv, TimersInv, NoTimerLost
    <2> QED
      BY <2>1 DEF Pause, SaveForm, resume, RadarDue, RadarRun, RadarEnds, Reschedule, InfoRetry, scheduleInfo, RadarStays
  <1>5. QueueInv'
    BY <1>1, <1>2, <1>3, <1>4, QueueStaysKeeps DEF DeskShape
  <1>6. settings' \in [paused : BOOLEAN, execution : Channels, watch : SUBSET Watched]
    <2>1. \/ settings' = settings
          \/ \E p \in BOOLEAN : settings' = [[settings EXCEPT !.paused = p] EXCEPT !.execution = channel']
          \/ \E c \in Channels : settings' = [[settings EXCEPT !.execution = c] EXCEPT !.execution = channel']
          \/ \E w \in SUBSET Watched : settings' = [[settings EXCEPT !.watch = w] EXCEPT !.execution = channel']
      BY DEF Pause, SaveForm, resume, RadarDue, RadarRun, RadarEnds, Reschedule, InfoRetry, setWorkflow
    <2> QED
      BY <1>1, <1>2, <2>1 DEF DeskShape
  <1>7. used' = used
    BY <1>2 DEF QueueStays
  <1>8. DeskShape'
    BY <1>1, <1>2, <1>3, <1>6, <1>7 DEF DeskShape
  <1>9. TasksOK'
    BY <1>1, <1>2 DEF TasksOK
  <1>10. RowsOK' /\ Limits' /\ DayOK'
    BY <1>1, <1>2, TableSame
  <1> QED
    BY <1>5, <1>8, <1>9, <1>10, Assembled

\* Bars and fast moves ask for judgments.
LEMMA MarketKeeps ==
  ASSUME DeskInv, onKlineClose \/ \E s \in Watched : onFastMove(s)
  PROVE  DeskInv'
  <1>1. QueueInv /\ RowsInv /\ DeskShape /\ TasksOK
    BY Parts
  <1>2. QueueStays /\ play' = play /\ money' = money /\ thr' = thr
        /\ UNCHANGED <<channel, settings, acct, held, tasks, timers, screen>>
    BY DEF onKlineClose, onFastMove, QueueStays
  <1>3. asks' \in Seq(Keys \ ChatKeys)
    <2>1. CASE onKlineClose
      <3>1. PICK woken \in SUBSET openThreads : \E ss : \E scans \in ScansOf(ss) : asks' = ReviewsOf(woken) \o scans
        BY <2>1 DEF onKlineClose
      <3>3. PICK ss, scans : scans \in ScansOf(ss) /\ asks' = ReviewsOf(woken) \o scans
        BY <3>1
      <3>2. ReviewsOf(woken) \in Seq(Keys \ ChatKeys)
        BY ReviewRequests DEF openThreads
      <3>4. scans \in Seq(Keys \ ChatKeys)
        BY <3>3, ScanRequests
      <3> QED
        BY <3>2, <3>3, <3>4
    <2>2. ASSUME NEW s \in Watched, onFastMove(s) PROVE asks' \in Seq(Keys \ ChatKeys)
      <3> DEFINE mine == {i \in openThreads : thr[i].symbol = s}
      <3>1. \/ mine # {} /\ asks' = ReviewsOf({CHOOSE i \in mine : TRUE})
            \/ asks' = <<scanKey(s)>>
            \/ asks' = <<>>
        BY <2>2 DEF onFastMove
      <3>2. mine # {} => {CHOOSE i \in mine : TRUE} \in SUBSET ThreadIds
        BY DEF openThreads
      <3>3. mine # {} => ReviewsOf({CHOOSE i \in mine : TRUE}) \in Seq(Keys \ ChatKeys)
        BY <3>2, ReviewRequests
      <3>4. scanKey(s) \in Keys \ ChatKeys
        BY KeyKinds
      <3> DEFINE K == Keys \ ChatKeys
      <3> HIDE DEF mine, K
      <3>5. <<scanKey(s)>> \in Seq(K) /\ <<>> \in Seq(K)
        BY <3>4 DEF K
      <3> QED
        BY <3>1, <3>3, <3>5 DEF K
    <2> QED
      BY <2>1, <2>2
  <1>4. QueueInv'
    BY <1>1, <1>2, ElsewhereKeeps DEF DeskShape
  <1>5. used' = used
    BY <1>2 DEF QueueStays
  <1>6. DeskShape'
    BY <1>1, <1>2, <1>3, <1>5 DEF DeskShape
  <1>7. TasksOK'
    BY <1>1, <1>2 DEF TasksOK
  <1>8. RowsOK' /\ Limits' /\ DayOK'
    BY <1>1, <1>2, TableSame
  <1> QED
    BY <1>4, <1>6, <1>7, <1>8, Assembled

\* The poll of the account: what it finds at the exchange moves the threads on, and
\* their reviews are asked for.
LEMMA PollKeeps ==
  ASSUME DeskInv, pollAccount
  PROVE  DeskInv'
  <1>1. QueueInv /\ RowsInv /\ DeskShape /\ TasksOK /\ RowsOK /\ DayOK
    BY Parts DEF RowsInv
  <1>2. QueueStays /\ play' = play /\ acct' = AccountNow /\ thr' = Polled
        /\ UNCHANGED <<channel, settings, held, tasks, timers, screen>>
    BY DEF pollAccount
  <1>3. asks' \in Seq(Keys \ ChatKeys)
    <2>1. Events \in SUBSET ThreadIds
      BY DEF Events
    <2>2. ReviewsOf(Events) \in Seq(Keys \ ChatKeys)
      BY <2>1, ReviewRequests
    <2>3. asks' = ReviewsOf(Events) \/ asks' = <<>>
      BY DEF pollAccount
    <2> DEFINE K == Keys \ ChatKeys
    <2> HIDE DEF K
    <2>4. <<>> \in Seq(K)
      OBVIOUS
    <2> QED
      BY <2>2, <2>3, <2>4 DEF K
  <1>4. ASSUME NEW i \in ThreadIds
        PROVE  /\ RowOK(Reconciled(thr[i]))
               /\ Reconciled(thr[i]).symbol = thr[i].symbol /\ Reconciled(thr[i]).channel = thr[i].channel
               /\ Reconciled(thr[i]).source = thr[i].source /\ Reconciled(thr[i]).step = thr[i].step
               /\ \/ Reconciled(thr[i]).status = thr[i].status
                  \/ isOpen(thr[i]) /\ thr[i].status # "canceled" /\ Reconciled(thr[i]).status \in {"in_position", "closed"}
    <2> DEFINE a == [thr[i] EXCEPT !.status = "in_position"]
               b == [thr[i] EXCEPT !.status = "closed"]
    <2>1. RowOK(thr[i])
      BY <1>1 DEF RowsOK
    <2>2. \/ Reconciled(thr[i]) = thr[i]
          \/ thr[i].status = "pending_entry" /\ Reconciled(thr[i]) = a
          \/ thr[i].status = "in_position" /\ Reconciled(thr[i]) = b
      BY DEF Reconciled
    <2>3. ASSUME thr[i].status \in {"pending_entry", "in_position"}
          PROVE  /\ RowOK(a) /\ a.symbol = thr[i].symbol /\ a.channel = thr[i].channel /\ a.source = thr[i].source
                 /\ a.step = thr[i].step /\ a.status = "in_position"
                 /\ RowOK(b) /\ b.symbol = thr[i].symbol /\ b.channel = thr[i].channel /\ b.source = thr[i].source
                 /\ b.step = thr[i].step /\ b.status = "closed"
      BY <2>1, <2>3 DEF RowOK, Rows, Statuses
    <2> HIDE DEF a, b
    <2> QED
      BY <2>1, <2>2, <2>3 DEF isOpen
  <1>5. TableKept
    <2>1. thr' = [i \in ThreadIds |-> Reconciled(thr[i])]
      BY <1>2 DEF Polled
    <2>2. \A i \in ThreadIds : thr'[i] = Reconciled(thr[i]) /\ RowOK(thr[i])
      BY <1>1, <2>1 DEF RowsOK
    <2>3. \A i \in ThreadIds : Kept(i)
      BY <1>4, <2>2 DEF Kept, isOpen, RowOK, Rows, Statuses
    <2> QED
      BY <2>1, <2>3 DEF TableKept
  <1>6. money' = [f \in MoneyFields |-> money'[f]] /\ money'.old = money.old
    <2>1. money' = [money EXCEPT !.start = trackDailyEquity, !.day = FALSE, !.lost = 0,
                                 !.moved = @ /\ trackDailyEquity = money.start]
      BY DEF pollAccount
    <2>2. DOMAIN money = MoneyFields
      BY <1>1 DEF DayOK
    <2> QED
      BY <1>1, <2>1, <2>2 DEF DayOK, MoneyFields
  <1>7. RowsOK' /\ Limits'
    BY <1>1, <1>2, <1>5, <1>6, TableKeptKeeps
  <1>8. DayOK'
    BY <1>1, <1>5, <1>6 DEF DayOK, TableKept, Kept
  <1>9. QueueInv'
    BY <1>1, <1>2, ElsewhereKeeps DEF DeskShape
  <1>10. used' = used /\ acct'.held \subseteq Watched
    BY <1>1, <1>2 DEF QueueStays, AccountNow, DeskShape
  <1>11. DeskShape'
    BY <1>1, <1>2, <1>3, <1>10 DEF DeskShape
  <1>12. TasksOK'
    BY <1>1, <1>2 DEF TasksOK
  <1> QED
    BY <1>7, <1>8, <1>9, <1>11, <1>12, Assembled

\* The exchange and the calendar.
LEMMA ExchangeKeeps ==
  ASSUME DeskInv,
         \/ \E i \in ThreadIds : EntryFills(i)
         \/ \E s \in Watched : ForeignPosition(s) \/ \E loss \in Losses \cup {0} : PositionEnds(s, loss)
         \/ \E d \in Transfers : Transfer(d)
         \/ Midnight
  PROVE  DeskInv'
  <1>1. QueueInv /\ RowsInv /\ DeskShape /\ TasksOK /\ RowsOK /\ DayOK
    BY Parts DEF RowsInv
  <1>2. ExchangeStays /\ thr' = thr
    BY DEF EntryFills, ForeignPosition, PositionEnds, Transfer, Midnight
  <1>3. QueueStays /\ play' = play /\ UNCHANGED <<channel, settings, acct, asks, tasks, timers, screen>>
    BY <1>2 DEF ExchangeStays
  <1>4. QueueInv'
    BY <1>1, <1>3, ElsewhereKeeps DEF DeskShape
  <1>5. held' = [c \in Channels |-> held'[c]] /\ \A c \in Channels : held'[c] \subseteq Watched
    <2>1. PICK c, S : held' = held \/ (S \subseteq Watched /\ held' = [held EXCEPT ![c] = S])
      <3>1. ASSUME NEW i \in ThreadIds, EntryFills(i) PROVE \E c, S : S \subseteq Watched /\ held' = [held EXCEPT ![c] = S]
        <4>1. thr[i].channel \in Channels /\ thr[i].symbol \in Watched
          BY <1>1, <3>1 DEF EntryFills, RowsOK, RowOK
        <4>2. held[thr[i].channel] \cup {thr[i].symbol} \subseteq Watched
          BY <1>1, <4>1 DEF DeskShape
        <4> QED
          BY <3>1, <4>2 DEF EntryFills
      <3>2. ASSUME NEW s \in Watched, ForeignPosition(s) PROVE \E c, S : S \subseteq Watched /\ held' = [held EXCEPT ![c] = S]
        <4>1. held[channel] \cup {s} \subseteq Watched
          BY <1>1 DEF DeskShape
        <4> QED
          BY <3>2, <4>1 DEF ForeignPosition
      <3>3. ASSUME NEW s \in Watched, NEW loss, PositionEnds(s, loss) PROVE \E c, S : S \subseteq Watched /\ held' = [held EXCEPT ![c] = S]
        <4>1. held[channel] \ {s} \subseteq Watched
          BY <1>1 DEF DeskShape
        <4> QED
          BY <3>3, <4>1 DEF PositionEnds
      <3> QED
        BY <3>1, <3>2, <3>3 DEF Transfer, Midnight
    <2> QED
      BY <1>1, <2>1 DEF DeskShape
  <1>6. used' = used
    BY <1>3 DEF QueueStays
  <1>7. DeskShape'
    BY <1>1, <1>3, <1>5, <1>6 DEF DeskShape
  <1>8. TasksOK'
    BY <1>1, <1>3 DEF TasksOK
  <1>9. money' = [f \in MoneyFields |-> money'[f]] /\ (money'.old = money.old \/ money'.old = ThreadIds \ Free)
    <2>1. DOMAIN money = MoneyFields
      BY <1>1 DEF DayOK
    <2>2. \/ money' = money
          \/ \E a, b : money' = [money EXCEPT !.eq = a, !.lost = b] \/ money' = [money EXCEPT !.eq = a, !.moved = b]
          \/ \E a, b : money' = [money EXCEPT !.day = a, !.ended = b, !.old = ThreadIds \ Free]
      BY DEF EntryFills, ForeignPosition, PositionEnds, Transfer, Midnight
    <2> QED
      BY <1>1, <2>1, <2>2 DEF DayOK, MoneyFields
  <1>10. \A i \in ThreadIds : i \in money'.old => thr[i].status # "none"
    BY <1>1, <1>9 DEF DayOK, Free
  <1>11. \A i \in ThreadIds : i \in money.old => i \in money'.old
    BY <1>1, <1>9 DEF DayOK, Free
  <1>12. TableKept
    <2>1. \A i \in ThreadIds : RowOK(thr[i])
      BY <1>1 DEF RowsOK
    <2>2. \A i \in ThreadIds : Kept(i)
      BY <1>2, <2>1 DEF Kept
    <2> QED
      BY <1>1, <1>2, <2>2 DEF TableKept, RowsOK
  <1>13. RowsOK' /\ Limits'
    BY <1>1, <1>3, <1>11, <1>12, TableKeptKeeps
  <1>14. DayOK'
    BY <1>2, <1>9, <1>10 DEF DayOK
  <1> QED
    BY <1>4, <1>7, <1>8, <1>13, <1>14, Assembled

\* Judgments are asked for: the next request of synchronous code, a chat, the
\* officer by his timer or from the page.
LEMMA AsksKeep ==
  ASSUME DeskInv, Ask \/ sendChat \/ InfoDue \/ runInfoNow
  PROVE  DeskInv'
  <1>1. QueueInv /\ RowsInv /\ DeskShape /\ TasksOK
    BY Parts
  <1>2. thr' = thr /\ play' = play /\ money' = money /\ screen' = screen
        /\ UNCHANGED <<channel, settings, acct, held, tasks>>
    BY DEF Ask, sendChat, InfoDue, runInfoNow
  <1>3. RowsOK' /\ Limits' /\ DayOK'
    BY <1>1, <1>2, TableSame
  <1>4. TasksOK'
    BY <1>1, <1>2 DEF TasksOK
  <1>5. QueueInv'
    <2>1. CASE Ask
      <3>1. asks # <<>> /\ timers' = timers /\ asks \in Seq(Keys \ ChatKeys)
        BY <1>1, <2>1 DEF Ask, DeskShape
      <3> DEFINE k == Head(asks)
      <3>2. k \in Keys
        BY <3>1
      <3>3. \/ enqueue(k) /\ Queued /\ ~capReached
            \/ UNCHANGED <<vars, job, used>>
        BY <2>1 DEF Ask, Enqueue, ScanAllowed, ReviewAllowed
      <3> HIDE DEF k
      <3>4. CASE enqueue(k) /\ Queued /\ ~capReached
        BY <1>1, <1>2, <1>3, <3>1, <3>2, <3>4, EnqueueKeeps DEF DeskShape
      <3>5. CASE UNCHANGED <<vars, job, used>>
        BY <1>1, <1>2, <3>1, <3>5, ElsewhereKeeps DEF DeskShape, QueueStays
      <3> QED
        BY <3>3, <3>4, <3>5
    <2>2. CASE sendChat
      <3>1. PICK k \in ChatKeys : enqueue(k) /\ Queued
        BY <2>2 DEF sendChat
      <3>2. k \in Keys /\ k \notin EpisodeKeys
        BY KeysAssumption, KeyKinds
      <3>3. timers' = timers
        BY <2>2 DEF sendChat
      <3> QED
        BY <1>1, <1>2, <1>3, <3>1, <3>2, <3>3, EnqueueKeeps DEF DeskShape
    <2>3. CASE InfoDue
      <3>1. \/ enqueue(infoKey) /\ Queued /\ timers' = timers \ {"info"}
            \/ UNCHANGED <<vars, job, used>> /\ timers' = (timers \ {"info"}) \cup {"infoRetry"}
        BY <2>3 DEF InfoDue
      <3>2. CASE enqueue(infoKey) /\ Queued /\ timers' = timers \ {"info"}
        BY <1>1, <1>2, <1>3, <3>2, KeyKinds, EnqueueKeeps DEF DeskShape
      <3>3. CASE UNCHANGED <<vars, job, used>> /\ timers' = (timers \ {"info"}) \cup {"infoRetry"}
        <4>1. "radar" \in timers' \/ screen' = "waits"
          BY <1>1, <1>2, <3>3 DEF QueueInv, TimersInv, NoTimerLost
        <4> QED
          BY <1>1, <1>2, <3>3, <4>1, QueueStaysKeeps DEF DeskShape, QueueStays
      <3> QED
        BY <3>1, <3>2, <3>3
    <2>4. CASE runInfoNow
      <3>1. enqueue(infoKey) /\ Queued /\ timers' = timers
        BY <2>4 DEF runInfoNow
      <3> QED
        BY <1>1, <1>2, <1>3, <3>1, KeyKinds, EnqueueKeeps DEF DeskShape
    <2> QED
      BY <2>1, <2>2, <2>3, <2>4
  <1>6. used' \in Nat
    BY <1>5 DEF QueueInv
  <1>7. asks' \in Seq(Keys \ ChatKeys)
    <2>1. asks' = asks \/ (asks # <<>> /\ asks' = Tail(asks))
      BY DEF Ask, sendChat, InfoDue, runInfoNow
    <2> DEFINE K == Keys \ ChatKeys
    <2>2. asks \in Seq(K)
      BY <1>1 DEF DeskShape
    <2> HIDE DEF K
    <2>3. asks' \in Seq(K)
      BY <2>1, <2>2
    <2> QED
      BY <2>3 DEF K
  <1>8. timers' \subseteq {"info", "infoRetry", "radar", "kline"}
    BY <1>1 DEF Ask, sendChat, InfoDue, runInfoNow, DeskShape
  <1>9. DeskShape'
    BY <1>1, <1>2, <1>6, <1>7, <1>8 DEF DeskShape
  <1> QED
    BY <1>3, <1>4, <1>5, <1>9, Assembled

\* A job that ends without a change of the table.
LEMMA JobEndsKeeps ==
  ASSUME DeskInv, thr' = thr, EndJob, OthersStay, asks' = asks, acct' = acct \/ acct' = AccountNow,
         timers' = timers \/ timers' = scheduleInfo(timers),
         job.phase = "info" => timers' = scheduleInfo(timers)
  PROVE  DeskInv'
  <1>1. QueueInv /\ RowsInv /\ DeskShape /\ TasksOK
    BY Parts
  <1>2. play' = play /\ money' = money /\ screen' = screen /\ UNCHANGED <<channel, settings, held, tasks>>
    BY DEF OthersStay
  <1>3. RowsOK' /\ Limits' /\ DayOK'
    BY <1>1, <1>2, TableSame
  <1>4. QueueInv'
    BY <1>1, <1>2, <1>3, EndKeeps DEF DeskShape
  <1>5. used' \in Nat
    BY <1>4 DEF QueueInv
  <1>6. timers' \subseteq {"info", "infoRetry", "radar", "kline"} /\ acct'.held \subseteq Watched
    BY <1>1 DEF scheduleInfo, DeskShape, AccountNow
  <1>7. DeskShape'
    BY <1>1, <1>2, <1>5, <1>6 DEF DeskShape
  <1>8. TasksOK'
    BY <1>1, <1>2 DEF TasksOK
  <1> QED
    BY <1>3, <1>4, <1>7, <1>8, Assembled

\* A job that goes on without a change of the table.
LEMMA JobGoesKeeps ==
  ASSUME DeskInv, thr' = thr, UNCHANGED <<vars, used>>, OthersStay, JobOK', job'.phase # "chat",
         acct' = acct \/ acct' = AccountNow, asks' \in Seq(Keys \ ChatKeys),
         \/ timers' = timers /\ job'.phase # "ending"
         \/ timers' = scheduleInfo(timers)
  PROVE  DeskInv'
  <1>1. QueueInv /\ RowsInv /\ DeskShape /\ TasksOK
    BY Parts
  <1>2. play' = play /\ money' = money /\ screen' = screen /\ UNCHANGED <<channel, settings, held, tasks>>
    BY DEF OthersStay
  <1>3. RowsOK' /\ Limits' /\ DayOK'
    BY <1>1, <1>2, TableSame
  <1>4. QueueInv'
    BY <1>1, <1>2, GoesKeeps DEF DeskShape
  <1>5. timers' \subseteq {"info", "infoRetry", "radar", "kline"} /\ acct'.held \subseteq Watched
    BY <1>1 DEF scheduleInfo, DeskShape, AccountNow
  <1>6. used' \in Nat
    BY <1>4 DEF QueueInv
  <1>7. DeskShape'
    BY <1>1, <1>2, <1>5, <1>6 DEF DeskShape
  <1>8. TasksOK'
    BY <1>1, <1>2 DEF TasksOK
  <1> QED
    BY <1>3, <1>4, <1>7, <1>8, Assembled

LEMMA AllowedAreActions == \A node : allowedActions(node) \subseteq Actions
  BY Zenon DEF allowedActions, Actions

\* The phase of a running job moves on among those of its kind.
LEMMA PhaseGoes ==
  ASSUME JobOK, NEW p \in {"think", "again", "open", "ending"}, NEW a \in SUBSET Actions,
         UNCHANGED running,
         \/ job' = [job EXCEPT !.phase = p]
         \/ job' = [job EXCEPT !.phase = p, !.allowed = a],
         \/ p \in {"think", "again"} /\ job.phase \in {"read", "think", "again"}
         \/ p = "open" /\ job.phase \in {"think", "again"} /\ job.thread = 0
         \/ p = "ending" /\ job.phase = "info"
  PROVE  JobOK' /\ job'.phase = p
  <1>1. job \in Jobs
    BY DEF JobOK
  <1>2. job' \in Jobs /\ job'.phase = p /\ job'.thread = job.thread /\ job'.symbol = job.symbol
    BY <1>1 DEF Jobs, Phases
  <1> QED
    BY <1>2 DEF JobOK

\* A read, a repair, a proposal and the officer's result: the job goes on.
LEMMA JobGoesOnKeeps ==
  ASSUME DeskInv,
         \/ \E stale, watch_only \in BOOLEAN : ReadAccount(stale, watch_only)
         \/ BadAnswer \/ InfoDone
  PROVE  DeskInv'
  <1>1. QueueInv /\ RowsInv /\ DeskShape /\ TasksOK /\ JobOK
    BY Parts DEF QueueInv
  <1>2. thr' = thr /\ UNCHANGED <<vars, used>> /\ OthersStay
    BY DEF ReadAccount, BadAnswer, InfoDone, JobGoes
  <1>3. UNCHANGED running
    BY <1>2 DEF vars
  <1>4. CASE BadAnswer \/ InfoDone
    <2> DEFINE p == IF BadAnswer THEN "again" ELSE "ending"
    <2>1. CASE BadAnswer
      <3>1. JobOK' /\ job'.phase = "again"
        BY <1>1, <1>3, <2>1, PhaseGoes DEF BadAnswer, JobGoes
      <3>2. acct' = acct /\ asks' = asks /\ timers' = timers
        BY <2>1 DEF BadAnswer
      <3> QED
        BY <1>1, <1>2, <3>1, <3>2, JobGoesKeeps DEF DeskShape
    <2>2. CASE InfoDone
      <3>1. JobOK' /\ job'.phase = "ending"
        BY <1>1, <1>3, <2>2, PhaseGoes DEF InfoDone, JobGoes
      <3>2. acct' = acct /\ timers' = scheduleInfo(timers) /\ (asks' = ReviewsOf(openThreads) \/ asks' = <<>>)
        BY <2>2 DEF InfoDone
      <3>3. ReviewsOf(openThreads) \in Seq(Keys \ ChatKeys)
        BY ReviewRequests DEF openThreads
      <3> DEFINE K == Keys \ ChatKeys
      <3> HIDE DEF K
      <3>4. <<>> \in Seq(K)
        OBVIOUS
      <3>5. asks' \in Seq(Keys \ ChatKeys)
        BY <3>2, <3>3, <3>4 DEF K
      <3> QED
        BY <1>2, <3>1, <3>2, <3>5, JobGoesKeeps
    <2> QED
      BY <1>4, <2>1, <2>2
  <1>5. ASSUME NEW stale, NEW watch_only, ReadAccount(stale, watch_only) PROVE DeskInv'
    <2>1. PICK node : job' = [job EXCEPT !.phase = "think", !.allowed = allowedActions(node)]
      BY <1>5 DEF ReadAccount, JobGoes
    <2>2. allowedActions(node) \in SUBSET Actions
      BY AllowedAreActions
    <2>3. job.phase = "read"
      BY <1>5 DEF ReadAccount
    <2>4. JobOK' /\ job'.phase = "think"
      BY <1>1, <1>3, <2>1, <2>2, <2>3, PhaseGoes
    <2>5. acct' = AccountNow /\ asks' = asks /\ timers' = timers
      BY <1>5 DEF ReadAccount
    <2> QED
      BY <1>1, <1>2, <2>4, <2>5, JobGoesKeeps DEF DeskShape
  <1> QED
    BY <1>4, <1>5

\* A chat proposes a thread: its episode is counted, and its turn no longer stands
\* in the bound as one that may.
LEMMA ChatTurnKeeps ==
  ASSUME DeskInv, ChatTurn
  PROVE  DeskInv'
  <1>1. QueueInv /\ RowsInv /\ DeskShape /\ TasksOK /\ JobOK /\ IInv /\ used \in Nat /\ CapInv /\ NoTimerLost
    BY Parts DEF QueueInv, TimersInv
  <1>2. thr' = thr /\ OthersStay /\ job.phase = "chat" /\ acct' = acct /\ asks' = asks /\ timers' = timers
    BY DEF ChatTurn
  <1>3. CASE EndJob
    BY <1>2, <1>3, JobEndsKeeps
  <1>4. ASSUME NEW s \in Watched, job' = [job EXCEPT !.phase = "open", !.symbol = s], used' = used + 1, UNCHANGED vars
        PROVE  DeskInv'
    <2>1. s \in Objects /\ job \in Jobs
      BY <1>1 DEF Objects, JobOK
    <2>2. job' \in Jobs /\ job'.phase = "open" /\ job'.symbol = s
      BY <1>4, <2>1 DEF Jobs, Phases
    <2>3. pending' = pending /\ running' = running /\ chats' = chats
      BY <1>4 DEF vars
    <2>4. JobOK'
      BY <1>1, <1>2, <2>2, <2>3 DEF JobOK
    <2>5. play' = play /\ money' = money /\ screen' = screen /\ UNCHANGED <<channel, settings, held, tasks>>
      BY <1>2 DEF OthersStay
    <2>6. IInv'
      BY <1>1, <1>4, NextIInv
    <2>7. CapInv'
      <3>1. Waiting' = Waiting
        BY <2>3 DEF Waiting
      <3>2. WaitingEpisodes' = WaitingEpisodes /\ Cardinality((Waiting \cap ChatKeys)') = Cardinality(Waiting \cap ChatKeys)
        BY <3>1 DEF WaitingEpisodes
      <3>3. /\ WaitingEpisodes \in Nat /\ Cardinality(Waiting \cap ChatKeys) \in Nat /\ chats \in Nat
            /\ Cardinality(EpisodeKeys) \in Nat /\ play.daily_judgment_cap \in Nat
        BY <1>1, CountsAre, PlaysAre DEF DeskShape
      <3>4. ChatsAhead = Cardinality(Waiting \cap ChatKeys) + 1 /\ ChatsAhead' = Cardinality(Waiting \cap ChatKeys)
        BY <1>2, <2>2, <3>2, <3>3 DEF ChatsAhead
      <3> QED
        BY <1>1, <1>4, <2>3, <2>5, <3>2, <3>3, <3>4 DEF CapInv
    <2>8. TimersInv'
      <3>1. isBusy(infoKey)' <=> isBusy(infoKey)
        BY <2>3 DEF isBusy, Waiting
      <3> QED
        BY <1>1, <1>2, <2>2, <2>5, <3>1 DEF TimersInv, NoTimerLost
    <2>9. QueueInv' /\ used' \in Nat
      BY <1>1, <1>4, <2>4, <2>6, <2>7, <2>8 DEF QueueInv
    <2>10. DeskShape'
      BY <1>1, <1>2, <2>5, <2>9 DEF DeskShape
    <2>11. TasksOK'
      BY <1>1, <2>5 DEF TasksOK
    <2>12. RowsOK' /\ Limits' /\ DayOK'
      BY <1>1, <1>2, <2>5, TableSame
    <2> QED
      BY <2>9, <2>10, <2>11, <2>12, Assembled
  <1> QED
    BY <1>3, <1>4 DEF ChatTurn

\* A job fails, its opening is done, or the officer's is over.
LEMMA JobOverKeeps ==
  ASSUME DeskInv, EpisodeFails \/ OpeningDone \/ InfoEnds
  PROVE  DeskInv'
  <1>1. JobOK
    BY Parts DEF QueueInv
  <1>2. thr' = thr /\ EndJob /\ OthersStay /\ asks' = asks /\ acct' = acct
    BY DEF EpisodeFails, OpeningDone, InfoEnds
  <1>3. CASE EpisodeFails
    <2>1. timers' = Rearmed(timers)
      BY <1>3 DEF EpisodeFails
    <2>2. job.phase = "info" => timers' = scheduleInfo(timers)
      BY <1>1, <2>1 DEF JobOK, Rearmed
    <2>3. timers' = timers \/ timers' = scheduleInfo(timers)
      BY <2>1 DEF Rearmed
    <2> QED
      BY <1>2, <2>2, <2>3, JobEndsKeeps
  <1>4. CASE OpeningDone \/ InfoEnds
    <2>1. timers' = timers /\ job.phase # "info"
      BY <1>4 DEF OpeningDone, InfoEnds
    <2> QED
      BY <1>2, <2>1, JobEndsKeeps
  <1> QED
    BY <1>3, <1>4

\* A decision about the market: the job ends, or goes on to open a thread.
LEMMA ScanDecidedKeeps ==
  ASSUME DeskInv, NEW a \in Actions, Decided(a), job.thread = 0
  PROVE  DeskInv'
  <1>1. QueueInv /\ DeskShape /\ JobOK
    BY Parts DEF QueueInv
  <1>2. /\ thr' = thr /\ OthersStay /\ asks' = asks /\ acct' = acct /\ timers' = timers
        /\ job.phase \in {"think", "again"}
        /\ EndJob \/ JobGoes([job EXCEPT !.phase = "open"])
    BY DEF Decided, ScanDecided
  <1>3. CASE EndJob
    BY <1>2, <1>3, JobEndsKeeps
  <1>4. CASE JobGoes([job EXCEPT !.phase = "open"])
    <2>1. UNCHANGED <<vars, used>> /\ UNCHANGED running
      BY <1>4 DEF JobGoes, vars
    <2>2. JobOK' /\ job'.phase = "open"
      BY <1>1, <1>2, <1>4, <2>1, PhaseGoes DEF JobGoes
    <2> QED
      BY <1>1, <1>2, <2>1, <2>2, JobGoesKeeps DEF DeskShape
  <1> QED
    BY <1>2, <1>3, <1>4

\* A decision about a thread: the row stays, or its thread ends.
LEMMA ReviewDecidedKeeps ==
  ASSUME DeskInv, NEW a \in Actions, Decided(a), job.thread # 0
  PROVE  DeskInv'
  <1>1. QueueInv /\ RowsInv /\ DeskShape /\ TasksOK /\ JobOK
    BY Parts DEF QueueInv
  <1>2. /\ OthersStay /\ asks' = asks /\ acct' = acct /\ timers' = timers
        /\ job.phase \in {"think", "again"} /\ ReviewDecided(a)
    BY DEF Decided
  <1> DEFINE i == job.thread
             r == [thr[i] EXCEPT !.status = IF @ = "pending_entry" THEN "canceled" ELSE "closed"]
  <1>3. i \in ThreadIds
    BY <1>1 DEF JobOK, Jobs
  <1>4. EndJob /\ (thr' = thr \/ (isOpen(thr[i]) /\ thr' = [thr EXCEPT ![i] = r]))
    BY <1>2 DEF ReviewDecided
  <1>5. CASE thr' = thr
    BY <1>2, <1>4, <1>5, JobEndsKeeps
  <1>6. CASE isOpen(thr[i]) /\ thr' = [thr EXCEPT ![i] = r]
    <2>1. RowsOK /\ RowOK(thr[i])
      BY <1>1, <1>3 DEF RowsInv, RowsOK
    <2>2. RowOK(r) /\ r.symbol = thr[i].symbol /\ r.channel = thr[i].channel /\ r.source = thr[i].source
          /\ r.step = thr[i].step /\ r.status \in {"canceled", "closed"}
      BY <1>6, <2>1 DEF RowOK, Rows, Statuses, isOpen
    <2>3. thr' = [thr EXCEPT ![i] = r] /\ thr[i].status \in {"pending_entry", "in_position"}
      BY <1>6 DEF isOpen
    <2> HIDE DEF i, r
    <2>4. TableKept
      BY <1>3, <2>1, <2>2, <2>3, OneRowKept DEF isOpen
    <2>5. play' = play /\ money' = money /\ screen' = screen /\ UNCHANGED <<channel, settings, held, tasks>>
      BY <1>2 DEF OthersStay
    <2>6. RowsOK' /\ Limits' /\ DayOK'
      BY <1>1, <2>4, <2>5, TableMoves
    <2>7. job.phase # "info" /\ play \in Plays
      BY <1>1, <1>2 DEF DeskShape
    <2>8. QueueInv'
      BY <1>1, <1>2, <1>4, <2>5, <2>6, <2>7, EndKeeps
    <2>9. used' \in Nat
      BY <2>8 DEF QueueInv
    <2>10. DeskShape'
      BY <1>1, <1>2, <2>5, <2>9 DEF DeskShape
    <2>11. TasksOK'
      BY <1>1, <2>5 DEF TasksOK
    <2> QED
      BY <2>6, <2>8, <2>10, <2>11, Assembled
  <1> QED
    BY <1>4, <1>5, <1>6

\* openThreadFromProposal: blocked, or a new row, behind which the job ends or waits.
LEMMA ProposalKeeps ==
  ASSUME DeskInv, openThreadFromProposal
  PROVE  DeskInv'
  <1>1. QueueInv /\ RowsInv /\ DeskShape /\ TasksOK /\ JobOK
    BY Parts DEF QueueInv
  <1>2. /\ OthersStay /\ asks' = asks /\ acct' = AccountNow /\ timers' = timers
        /\ job.phase = "open" /\ job.symbol \in Watched
    BY <1>1 DEF openThreadFromProposal, JobOK
  <1>3. CASE thr' = thr /\ EndJob
    BY <1>2, <1>3, JobEndsKeeps
  <1>4. ASSUME ~preflightBlocked(job.symbol, AccountNow, 0), Free # {}, NEW auto \in BOOLEAN,
               thr' = [thr EXCEPT ![Next_id] = NewRow(job.symbol, job.source, auto)],
               EndJob \/ JobGoes([job EXCEPT !.phase = "opening", !.thread = Next_id])
        PROVE  DeskInv'
    <2> DEFINE row == NewRow(job.symbol, job.source, auto)
    <2>1. Next_id \in Free /\ Next_id \in ThreadIds
      BY <1>4, NextIsFree DEF Free
    <2>2. job.source \in {"agent", "chat"}
      BY <1>1 DEF JobOK, Jobs
    <2>3. channel \in Channels
      BY <1>1 DEF DeskShape
    <2>4. RowOK(row) /\ isOpen(row) /\ row.symbol = job.symbol /\ row.channel = channel
      BY <1>2, <1>4, <2>2, <2>3, NewRowIs
    <2>5. row.step \notin {"cleared", "sent"}
      BY <1>2, <1>4, <2>2, <2>3, NewRowIs
    <2>6. \E b : ~openingBlocked(row.symbol, b, 0)
      BY <1>4, <2>4, GateOf
    <2>7. play' = play /\ money' = money /\ screen' = screen /\ UNCHANGED <<channel, settings, held, tasks>>
      BY <1>2 DEF OthersStay
    <2>8. thr' = [thr EXCEPT ![Next_id] = row]
      BY <1>4
    <2> HIDE DEF row
    <2>9. RowsOK' /\ Limits' /\ DayOK'
      BY <1>1, <2>1, <2>4, <2>5, <2>6, <2>7, <2>8, CreatedKeeps
    <2>10. QueueInv'
      <3>1. CASE EndJob
        <4>1. job.phase # "info" /\ play \in Plays
          BY <1>1, <1>2 DEF DeskShape
        <4> QED
          BY <1>1, <1>2, <2>7, <2>9, <3>1, <4>1, EndKeeps
      <3>2. CASE JobGoes([job EXCEPT !.phase = "opening", !.thread = Next_id])
        <4>1. UNCHANGED vars /\ used' = used /\ running' = running
          BY <3>2 DEF JobGoes, vars
        <4>2. job' \in Jobs /\ job'.phase = "opening"
          BY <1>1, <2>1, <3>2 DEF JobGoes, JobOK, Jobs, Phases
        <4>3. JobOK'
          BY <1>1, <1>2, <4>1, <4>2 DEF JobOK
        <4>4. play \in Plays
          BY <1>1 DEF DeskShape
        <4> QED
          BY <1>1, <1>2, <2>7, <4>1, <4>2, <4>3, <4>4, GoesKeeps
      <3> QED
        BY <1>4, <3>1, <3>2
    <2>11. used' \in Nat /\ acct'.held \subseteq Watched
      BY <1>1, <1>2, <2>3, <2>10 DEF QueueInv, DeskShape, AccountNow
    <2>12. DeskShape'
      BY <1>1, <1>2, <2>7, <2>11 DEF DeskShape
    <2>13. TasksOK'
      BY <1>1, <2>7 DEF TasksOK
    <2> QED
      BY <2>9, <2>10, <2>12, <2>13, Assembled
  <1> QED
    BY <1>3, <1>4 DEF openThreadFromProposal

LEMMA JobStepKeeps ==
  ASSUME DeskInv, JobStep
  PROVE  DeskInv'
  <1>1. CASE \/ \E stale, watch_only \in BOOLEAN : ReadAccount(stale, watch_only)
             \/ BadAnswer \/ InfoDone
    BY <1>1, JobGoesOnKeeps
  <1>2. CASE EpisodeFails \/ OpeningDone \/ InfoEnds
    BY <1>2, JobOverKeeps
  <1>3. CASE openThreadFromProposal
    BY <1>3, ProposalKeeps
  <1>4. CASE ChatTurn
    BY <1>4, ChatTurnKeeps
  <1>5. ASSUME NEW a \in Actions, Decided(a) PROVE DeskInv'
    BY <1>5, ScanDecidedKeeps, ReviewDecidedKeeps
  <1> QED
    BY <1>1, <1>2, <1>3, <1>4, <1>5 DEF JobStep

LEMMA DeskStarts == DeskInit => DeskInv
  <1> SUFFICES ASSUME DeskInit PROVE DeskInv
    OBVIOUS
  <1>1. IInv /\ Waiting = {} /\ running = None /\ chats = 0
    BY InitIInv DEF DeskInit, Init, Waiting, Range
  <1>2. play \in Plays /\ channel \in Channels
    BY DeskAssumption DEF DeskInit
  <1>3. DeskShape
    <2> DEFINE K == Keys \ ChatKeys
    <2> HIDE DEF K
    <2>1. <<>> \in Seq(K)
      OBVIOUS
    <2>2. asks \in Seq(Keys \ ChatKeys)
      BY <2>1 DEF DeskInit, K
    <2>3. FALSE \in BOOLEAN
      OBVIOUS
    <2>4. settings \in [paused : BOOLEAN, execution : Channels, watch : SUBSET Watched]
      BY <1>2, <2>3 DEF DeskInit
    <2>5. held = [c \in Channels |-> held[c]] /\ \A c \in Channels : held[c] \subseteq Watched
      BY DEF DeskInit
    <2>6. acct.held \subseteq Watched /\ used \in Nat /\ timers \subseteq {"info", "infoRetry", "radar", "kline"}
      BY DEF DeskInit
    <2> QED
      BY <1>2, <2>2, <2>4, <2>5, <2>6 DEF DeskShape
  <1>4. \A i \in ThreadIds : thr[i] = NoThread
    BY DEF DeskInit
  <1>5. RowsOK
    <2>1. RowOK(NoThread)
      BY DEF NoThread, RowOK, Rows, Statuses, Sources, Steps
    <2>2. DOMAIN thr = ThreadIds /\ thr = [i \in ThreadIds |-> thr[i]]
      BY DEF DeskInit
    <2> QED
      BY <1>4, <2>1, <2>2 DEF RowsOK
  <1>6. job.phase = "none" /\ job.thread = 0 /\ JobOK
    <2>1. job = NoJob
      BY DEF DeskInit
    <2>2. job \in Jobs /\ job.phase = "none" /\ job.thread = 0
      BY <2>1 DEF NoJob, Jobs, Phases, Statuses, Objects
    <2>3. running # infoKey
      BY <1>1, KeysAssumption, KeyKinds
    <2> QED
      BY <1>1, <2>2, <2>3 DEF JobOK
  <1>7. TasksOK
    <2>1. tasks = [p \in People |-> IdleTask]
      BY DEF DeskInit, People
    <2>2. \A p \in People : tasks[p] = IdleTask
      BY <2>1
    <2>3. {"order", "adopt", "switch"} \subseteq People
      BY DEF People
    <2> QED
      BY <2>1, <2>2, <2>3, IdleIsTask DEF TasksOK
  <1>8. DayOK
    <2>1. money = [f \in MoneyFields |-> money[f]] /\ money.old = {}
      BY DEF DeskInit, MoneyFields
    <2> QED
      BY <2>1 DEF DayOK
  <1>9. Limits
    <2>1. \A i \in ThreadIds : ~Made(i) /\ ~Ordered(i)
      BY <1>4 DEF NoThread, Made, isOpen, Ordered
    <2>2. OrderedToday = {} /\ \A c \in Channels : OpenedOn(c) = {}
      BY <2>1 DEF OrderedToday, OpenedOn
    <2>3. Cardinality({}) = 0
      BY FS_EmptySet
    <2>4. play.max_open_threads \in Nat /\ max_opens_per_day \in Nat
      BY <1>2, LimitsAre
    <2> QED
      BY <2>1, <2>2, <2>3, <2>4 DEF Limits, SymbolsApart
  <1>10. CapInv
    <2>1. Waiting \cap EpisodeKeys = {} /\ Waiting \cap ChatKeys = {}
      BY <1>1
    <2>2. WaitingEpisodes = 0 /\ ChatsAhead = 0
      BY <1>6, <2>1, FS_EmptySet DEF WaitingEpisodes, ChatsAhead
    <2>3. Cardinality(EpisodeKeys) \in Nat
      BY <1>1, CountsAre
    <2>4. play.daily_judgment_cap \in Nat \ {0} /\ used = 0
      BY <1>2, PlaysAre DEF DeskInit
    <2> QED
      BY <1>1, <2>2, <2>3, <2>4 DEF CapInv
  <1>11. TimersInv
    <2>1. timers = {"info", "radar", "kline"}
      BY DEF DeskInit
    <2> QED
      BY <1>6, <2>1 DEF TimersInv, NoTimerLost
  <1> QED
    BY <1>1, <1>3, <1>5, <1>6, <1>7, <1>8, <1>9, <1>10, <1>11 DEF DeskInv, DeskTypes

LEMMA DeskStutters ==
  ASSUME DeskInv, UNCHANGED allVars
  PROVE  DeskInv'
  <1>1. QueueInv /\ RowsInv /\ DeskShape /\ TasksOK
    BY Parts
  <1>2. /\ QueueStays /\ thr' = thr /\ money' = money /\ screen' = screen
        /\ UNCHANGED <<play, channel, settings, acct, held, asks, tasks, timers, used>>
    BY DEF allVars, deskVars, QueueStays
  <1>3. QueueInv'
    BY <1>1, <1>2, ElsewhereKeeps DEF DeskShape
  <1>4. RowsOK' /\ Limits' /\ DayOK'
    BY <1>1, <1>2, TableSame
  <1>5. DeskShape' /\ TasksOK'
    BY <1>1, <1>2 DEF DeskShape, TasksOK
  <1> QED
    BY <1>3, <1>4, <1>5, Assembled

LEMMA NextKeeps == DeskInv /\ [DeskNext]_allVars => DeskInv'
  <1> SUFFICES ASSUME DeskInv, [DeskNext]_allVars PROVE DeskInv'
    OBVIOUS
  <1>1. CASE UNCHANGED allVars
    BY <1>1, DeskStutters
  <1>2. CASE Ask \/ sendChat \/ InfoDue \/ runInfoNow
    BY <1>2, AsksKeep
  <1>3. CASE JobStep
    BY <1>3, JobStepKeeps
  <1>4. CASE pollAccount
    BY <1>4, PollKeeps
  <1>5. CASE onKlineClose \/ \E s \in Watched : onFastMove(s)
    BY <1>5, MarketKeeps
  <1>6. CASE \/ \E s \in Watched : manualOrder(s) \/ adoptPosition(s)
             \/ \E c \in Channels : switchBackend(c)
    BY <1>6, PeopleAskKeeps
  <1>7. CASE \/ \E i \in ThreadIds : EntryFills(i)
             \/ \E s \in Watched : ForeignPosition(s) \/ \E loss \in Losses \cup {0} : PositionEnds(s, loss)
             \/ \E d \in Transfers : Transfer(d)
             \/ Midnight
    BY <1>7, ExchangeKeeps
  <1>8. ASSUME NEW i \in ThreadIds, approveIntent(i) \/ OpenChecked(i) \/ OpenSent(i) PROVE DeskInv'
    BY <1>8, OpeningKeeps
  <1>9. CASE ManualPlaced
    BY <1>9, ManualPlacedKeeps
  <1>10. CASE Adopted
    BY <1>10, AdoptedKeeps
  <1>11. CASE SwitchStarted \/ SwitchDone
    BY <1>11, SwitchKeeps
  <1>12. CASE halt \/ \E failed \in SUBSET Watched : HaltEnds(failed)
    BY <1>12, HaltKeeps
  <1>13. CASE \/ \E p \in BOOLEAN : Pause(p)
              \/ \E c \in Channels : SaveForm(c)
              \/ resume \/ RadarDue \/ RadarRun \/ RadarEnds \/ Reschedule \/ InfoRetry
    BY <1>13, SettingsKeeps
  <1> QED
    BY <1>1, <1>2, <1>3, <1>4, <1>5, <1>6, <1>7, <1>8, <1>9, <1>10, <1>11, <1>12, <1>13 DEF DeskNext

LEMMA DeskInductive == SafeDesk => []DeskInv
  BY DeskStarts, NextKeeps, PTL DEF SafeDesk

-----------------------------------------------------------------------------
(***************************************************************************)
(* Reviews and settings.                                                   *)
(***************************************************************************)
\* What a review does to an open thread is made for the status of the thread.
LEMMA EffectsFit ==
  ASSUME NEW t, isOpen(t), NEW a, edgeFor(t.status, a) # "none"
  PROVE  edgeFor(t.status, a) = "cancel_entry" <=> t.status = "pending_entry"
  <1>1. CASE t.status = "pending_entry"
    <2>1. allowedActions("pending_entry") = {"HOLD", "INVALIDATE"}
      BY DEF allowedActions
    <2>2. a \in {"HOLD", "INVALIDATE"}
      BY <1>1, <2>1, Zenon DEF edgeFor
    <2> QED
      BY <1>1, <2>1, <2>2 DEF edgeFor
  <1>2. CASE t.status = "in_position"
    BY <1>2 DEF edgeFor
  <1> QED
    BY <1>1, <1>2 DEF isOpen

LEMMA MisfitsStay ==
  ASSUME ReviewFitsStatus, [DeskNext]_allVars
  PROVE  ReviewFitsStatus'
  <1>1. ASSUME NEW a, Decided(a) PROVE misfits' = misfits
    <2>1. CASE job.thread = 0
      BY <1>1, <2>1 DEF Decided, ScanDecided
    <2>2. CASE job.thread # 0
      <3> DEFINE i == job.thread
                 effect == edgeFor(thr[i].status, a)
      <3>1. isOpen(thr[i]) /\ effect # "none" => (effect = "cancel_entry" <=> thr[i].status = "pending_entry")
        BY EffectsFit
      <3>2. ReviewDecided(a)
        BY <1>1, <2>2 DEF Decided
      <3> QED
        BY <3>1, <3>2 DEF ReviewDecided, StatusNow
    <2> QED
      BY <2>1, <2>2
  <1>2. JobStep => misfits' = misfits
    BY <1>1 DEF JobStep, ReadAccount, BadAnswer, InfoDone, EpisodeFails, OpeningDone, InfoEnds,
                openThreadFromProposal, ChatTurn
  <1>3. ASSUME \/ Ask \/ sendChat \/ InfoDue \/ runInfoNow \/ pollAccount \/ onKlineClose
               \/ \E s \in Watched : onFastMove(s)
        PROVE  misfits' = misfits
    BY <1>3 DEF Ask, sendChat, InfoDue, runInfoNow, pollAccount, onKlineClose, onFastMove
  <1>4. ASSUME \/ \E s \in Watched : manualOrder(s) \/ adoptPosition(s)
               \/ \E c \in Channels : switchBackend(c)
               \/ ManualPlaced \/ Adopted \/ SwitchStarted \/ SwitchDone
        PROVE  misfits' = misfits
    BY <1>4 DEF manualOrder, adoptPosition, switchBackend, ManualPlaced, Adopted, SwitchStarted, SwitchDone, TaskGoes
  <1>5. ASSUME \/ \E i \in ThreadIds : EntryFills(i)
               \/ \E s \in Watched : ForeignPosition(s) \/ \E loss \in Losses \cup {0} : PositionEnds(s, loss)
               \/ \E d \in Transfers : Transfer(d)
               \/ Midnight
        PROVE  misfits' = misfits
    BY <1>5 DEF EntryFills, ForeignPosition, PositionEnds, Transfer, Midnight, ExchangeStays
  <1>6. ASSUME \E i \in ThreadIds : approveIntent(i) \/ OpenChecked(i) \/ OpenSent(i)
        PROVE  misfits' = misfits
    BY <1>6 DEF approveIntent, OpenChecked, OpenSent, ThreadsOnly
  <1>7. ASSUME \/ halt \/ \E failed \in SUBSET Watched : HaltEnds(failed)
               \/ \E p \in BOOLEAN : Pause(p)
               \/ \E c \in Channels : SaveForm(c)
               \/ resume \/ RadarDue \/ RadarRun \/ RadarEnds \/ Reschedule \/ InfoRetry
        PROVE  misfits' = misfits
    BY <1>7 DEF halt, HaltEnds, Pause, SaveForm, resume, RadarDue, RadarRun, RadarEnds, Reschedule, InfoRetry, RadarStays
  <1>8. ASSUME UNCHANGED allVars
        PROVE  misfits' = misfits
    BY <1>8 DEF allVars, deskVars
  <1>9. misfits' = misfits
    <2>1. CASE DeskNext
      BY <1>2, <1>3, <1>4, <1>5, <1>6, <1>7, <2>1, ZenonT(60) DEF DeskNext
    <2> QED
      BY <1>8, <2>1
  <1> QED
    BY <1>9 DEF ReviewFitsStatus

\* The backend and the settings that name it move together, but for the stretch in
\* which the old backend is being stopped.
LEMMA BackendNamed ==
  ASSUME DeskInv, ExecutionNamesBackend, [DeskNext]_allVars
  PROVE  ExecutionNamesBackend'
  <1>1. TasksOK /\ settings \in [paused : BOOLEAN, execution : Channels, watch : SUBSET Watched]
    BY DEF DeskInv, DeskTypes, DeskShape
  <1> DEFINE Same == UNCHANGED channel /\ settings'.execution \in {settings.execution, channel}
                     /\ tasks'["switch"].pc = tasks["switch"].pc
  <1>2. "switch" \in People /\ tasks = [p \in People |-> tasks[p]]
    BY <1>1 DEF TasksOK, People
  <1>3. ASSUME NEW p \in {"order", "adopt", "halt"}, NEW t, tasks' = [tasks EXCEPT ![p] = t]
        PROVE  tasks'["switch"] = tasks["switch"]
    BY <1>2, <1>3
  <1>4. ASSUME NEW w, w \in [paused : BOOLEAN, execution : Channels, watch : SUBSET Watched], setWorkflow(w)
        PROVE  settings'.execution = channel'
    BY <1>4 DEF setWorkflow
  <1>5. JobStep => Same
    BY DEF JobStep, ReadAccount, BadAnswer, InfoDone, EpisodeFails, OpeningDone, InfoEnds, Decided,
           openThreadFromProposal, ChatTurn, OthersStay
  <1>6. CASE \/ Ask \/ sendChat \/ InfoDue \/ runInfoNow \/ pollAccount \/ onKlineClose
             \/ \E s \in Watched : onFastMove(s)
    <2>1. Same
      BY <1>6 DEF Ask, sendChat, InfoDue, runInfoNow, pollAccount, onKlineClose, onFastMove
    <2> QED
      BY <2>1 DEF ExecutionNamesBackend
  <1>7. CASE \E s \in Watched : manualOrder(s) \/ adoptPosition(s)
    <2>1. UNCHANGED <<channel, settings>> /\ tasks'["switch"] = tasks["switch"]
      BY <1>3, <1>7 DEF manualOrder, adoptPosition, TaskGoes
    <2> QED
      BY <2>1 DEF ExecutionNamesBackend
  <1>8. CASE ManualPlaced \/ Adopted
    <2>1. UNCHANGED <<channel, settings>> /\ tasks'["switch"] = tasks["switch"]
      BY <1>3, <1>8 DEF ManualPlaced, Adopted, TaskGoes
    <2> QED
      BY <2>1 DEF ExecutionNamesBackend
  <1>9. CASE \E c \in Channels : switchBackend(c)
    <2>1. UNCHANGED <<channel, settings>> /\ tasks["switch"].pc = "idle"
      BY <1>9 DEF switchBackend
    <2> QED
      BY <2>1 DEF ExecutionNamesBackend
  <1>10. CASE SwitchStarted
    <2>1. tasks["switch"].pc = "starts" /\ UNCHANGED settings
          /\ (tasks' = [tasks EXCEPT !["switch"] = [tasks["switch"] EXCEPT !.pc = "stops"]] \/ UNCHANGED channel)
      BY <1>10 DEF SwitchStarted, TaskGoes
    <2>2. tasks' = [tasks EXCEPT !["switch"] = [tasks["switch"] EXCEPT !.pc = "stops"]] => tasks'["switch"].pc = "stops"
      BY <1>1, <1>2 DEF TasksOK, TaskOK
    <2> QED
      BY <2>1, <2>2 DEF ExecutionNamesBackend
  <1>11. CASE SwitchDone
    <2> DEFINE w == [settings EXCEPT !.execution = tasks["switch"].to]
    <2>1. setWorkflow(w) /\ tasks["switch"].to \in Channels
      BY <1>1, <1>11 DEF SwitchDone, TasksOK
    <2>2. w \in [paused : BOOLEAN, execution : Channels, watch : SUBSET Watched]
      BY <1>1, <2>1
    <2> QED
      BY <1>4, <2>1, <2>2 DEF ExecutionNamesBackend
  <1>12. CASE \/ \E i \in ThreadIds : EntryFills(i)
              \/ \E s \in Watched : ForeignPosition(s) \/ \E loss \in Losses \cup {0} : PositionEnds(s, loss)
              \/ \E d \in Transfers : Transfer(d)
              \/ Midnight
    <2>1. Same
      BY <1>12 DEF EntryFills, ForeignPosition, PositionEnds, Transfer, Midnight, ExchangeStays
    <2> QED
      BY <2>1 DEF ExecutionNamesBackend
  <1>13. CASE \E i \in ThreadIds : approveIntent(i) \/ OpenChecked(i) \/ OpenSent(i)
    <2>1. Same
      BY <1>13 DEF approveIntent, OpenChecked, OpenSent, ThreadsOnly
    <2> QED
      BY <2>1 DEF ExecutionNamesBackend
  <1>14. CASE halt \/ \E failed \in SUBSET Watched : HaltEnds(failed)
    <2>1. UNCHANGED <<channel, settings>> /\ tasks'["switch"] = tasks["switch"]
      BY <1>3, <1>14 DEF halt, HaltEnds
    <2> QED
      BY <2>1 DEF ExecutionNamesBackend
  <1>15. CASE RadarDue \/ RadarRun \/ Reschedule \/ InfoRetry
    <2>1. Same
      BY <1>15 DEF RadarDue, RadarRun, Reschedule, InfoRetry, RadarStays
    <2> QED
      BY <2>1 DEF ExecutionNamesBackend
  <1>16. ASSUME NEW p \in BOOLEAN, Pause(p) PROVE ExecutionNamesBackend'
    <2>1. [settings EXCEPT !.paused = p] \in [paused : BOOLEAN, execution : Channels, watch : SUBSET Watched]
      BY <1>1
    <2> QED
      BY <1>4, <1>16, <2>1 DEF Pause, ExecutionNamesBackend
  <1>17. ASSUME NEW c \in Channels, SaveForm(c) PROVE ExecutionNamesBackend'
    <2>1. [settings EXCEPT !.execution = c] \in [paused : BOOLEAN, execution : Channels, watch : SUBSET Watched]
      BY <1>1
    <2> QED
      BY <1>4, <1>17, <2>1 DEF SaveForm, ExecutionNamesBackend
  <1>18. CASE resume
    <2>1. FALSE \in BOOLEAN
      OBVIOUS
    <2>2. [settings EXCEPT !.paused = FALSE] \in [paused : BOOLEAN, execution : Channels, watch : SUBSET Watched]
      BY <1>1, <2>1
    <2> QED
      BY <1>4, <1>18, <2>2 DEF resume, ExecutionNamesBackend
  <1>19. CASE RadarEnds
    <2>1. CASE UNCHANGED settings
      <3>1. Same
        BY <1>19, <2>1 DEF RadarEnds
      <3> QED
        BY <3>1 DEF ExecutionNamesBackend
    <2>2. ASSUME NEW ws \in SUBSET Watched \ {{}}, setWorkflow([settings EXCEPT !.watch = ws])
          PROVE  ExecutionNamesBackend'
      <3>1. [settings EXCEPT !.watch = ws] \in [paused : BOOLEAN, execution : Channels, watch : SUBSET Watched]
        BY <1>1
      <3> QED
        BY <1>4, <2>2, <3>1 DEF ExecutionNamesBackend
    <2> QED
      BY <1>19, <2>1, <2>2 DEF RadarEnds
  <1>20. CASE UNCHANGED allVars
    BY <1>20 DEF allVars, deskVars, ExecutionNamesBackend
  <1>21. CASE JobStep
    BY <1>5, <1>21 DEF ExecutionNamesBackend
  <1>22. CASE DeskNext
    BY <1>6, <1>7, <1>8, <1>9, <1>10, <1>11, <1>12, <1>13, <1>14, <1>15, <1>16, <1>17, <1>18, <1>19, <1>21, <1>22, ZenonT(60)
       DEF DeskNext
  <1> QED
    BY <1>20, <1>22

\* The desk uses the queue through enqueue and the end of a job only.
LEMMA DeskStepsQueue == DeskInv /\ [DeskNext]_allVars => [Next]_vars
  <1> SUFFICES ASSUME DeskInv, [DeskNext]_allVars PROVE [Next]_vars
    OBVIOUS
  <1>1. finishJob => Next
    BY DEF Next
  <1>2. \A k \in Keys : enqueue(k) => Next
    BY DEF Next
  <1>3. asks \in Seq(Keys \ ChatKeys)
    BY DEF DeskInv, DeskTypes, DeskShape
  <1>4. ASSUME Ask PROVE [Next]_vars
    <2>1. Head(asks) \in Keys
      BY <1>3, <1>4 DEF Ask
    <2>2. enqueue(Head(asks)) \/ UNCHANGED vars
      BY <1>4 DEF Ask, Enqueue
    <2> QED
      BY <1>2, <2>1, <2>2
  <1>5. ASSUME sendChat \/ InfoDue \/ runInfoNow PROVE [Next]_vars
    <2>1. infoKey \in Keys /\ ChatKeys \subseteq Keys
      BY DeskKeysAssumption, KeysAssumption
    <2>2. (\E k \in Keys : enqueue(k)) \/ UNCHANGED vars
      BY <1>5, <2>1 DEF sendChat, InfoDue, runInfoNow
    <2> QED
      BY <1>2, <2>2
  <1>6. ASSUME JobStep PROVE [Next]_vars
    <2>1. finishJob \/ UNCHANGED vars
      BY <1>6 DEF JobStep, ReadAccount, BadAnswer, InfoDone, EpisodeFails, OpeningDone, InfoEnds, Decided,
                  ScanDecided, ReviewDecided, openThreadFromProposal, ChatTurn, EndJob, JobGoes
    <2> QED
      BY <1>1, <2>1
  <1>7. ASSUME \/ pollAccount \/ onKlineClose
               \/ \E s \in Watched : onFastMove(s) \/ manualOrder(s) \/ adoptPosition(s) \/ ForeignPosition(s)
               \/ \E i \in ThreadIds : approveIntent(i) \/ OpenChecked(i) \/ OpenSent(i) \/ EntryFills(i)
               \/ \E s \in Watched, loss \in Losses \cup {0} : PositionEnds(s, loss)
        PROVE  UNCHANGED vars
    BY <1>7 DEF pollAccount, onKlineClose, onFastMove, manualOrder, adoptPosition, ForeignPosition, approveIntent,
                OpenChecked, OpenSent, EntryFills, PositionEnds, ExchangeStays, ThreadsOnly, TaskGoes, QueueStays
  <1>8. ASSUME \/ ManualPlaced \/ Adopted \/ SwitchStarted \/ SwitchDone \/ \E c \in Channels : switchBackend(c)
               \/ \E d \in Transfers : Transfer(d)
               \/ Midnight
        PROVE  UNCHANGED vars
    BY <1>8 DEF ManualPlaced, Adopted, SwitchStarted, SwitchDone, switchBackend, Transfer, Midnight, ExchangeStays,
                TaskGoes, QueueStays
  <1>9. ASSUME \/ halt \/ \E failed \in SUBSET Watched : HaltEnds(failed)
               \/ \E p \in BOOLEAN : Pause(p)
               \/ \E c \in Channels : SaveForm(c)
               \/ resume \/ RadarDue \/ RadarRun \/ RadarEnds \/ Reschedule \/ InfoRetry
        PROVE  UNCHANGED vars
    BY <1>9 DEF halt, HaltEnds, Pause, SaveForm, resume, RadarDue, RadarRun, RadarEnds, Reschedule, InfoRetry, RadarStays
  <1>10. UNCHANGED allVars => UNCHANGED vars
    BY DEF allVars
  <1>11. CASE DeskNext
    BY <1>4, <1>5, <1>6, <1>7, <1>8, <1>9, <1>11 DEF DeskNext
  <1> QED
    BY <1>10, <1>11

-----------------------------------------------------------------------------
(***************************************************************************)
(* What the desk keeps.                                                    *)
(***************************************************************************)
\* What is inductive says what the runs check, on the channel that runs.
LEMMA LimitsOfTheChannel == DeskInv => OpeningsWithinLimits
  <1> SUFFICES ASSUME DeskInv PROVE OpeningsWithinLimits
    OBVIOUS
  <1>1. DeskShape /\ RowsOK /\ JobOK /\ Limits /\ CapInv /\ IInv
    BY DEF DeskInv, DeskTypes
  <1>2. \A i \in ThreadIds : RowOK(thr[i])
    BY <1>1 DEF RowsOK
  <1>3. \A i \in ThreadIds : thr[i].status \in Statuses
    BY <1>2 DEF RowOK, Rows
  <1>4. settings.watch \subseteq Watched
    BY <1>1 DEF DeskShape
  <1>5. DeskTypeOK
    BY <1>1, <1>3, <1>4 DEF DeskTypeOK, DeskShape, JobOK, Statuses
  <1>6. Opened = OpenedOn(channel) /\ channel \in Channels
    BY <1>1 DEF Opened, openThreads, OpenedOn, Made, DeskShape
  <1>7. OneThreadPerSymbol
    BY <1>1, <1>6 DEF Limits, SymbolsApart, OneThreadPerSymbol, OpenedOn
  <1>8. OrderedToday = {i \in ThreadIds \ money.old :
                           /\ thr[i].source \in {"agent", "chat"} /\ thr[i].status # "canceled"
                           /\ thr[i].step \in {"cleared", "sent"}}
    BY DEF OrderedToday, Ordered
  <1>9. WithinMaximum
    BY <1>1, <1>6, <1>8 DEF Limits, WithinMaximum
  <1>10. CapOvershoot
    <2>1. play \in Plays
      BY <1>1 DEF DeskShape
    <2>2. /\ WaitingEpisodes \in Nat /\ Cardinality(Waiting \cap ChatKeys) \in Nat /\ chats \in Nat
          /\ Cardinality(EpisodeKeys) \in Nat /\ play.daily_judgment_cap \in Nat
      BY <1>1, <2>1, CountsAre, PlaysAre
    <2>3. used \in Nat /\ ChatsAhead \in Nat
      BY <1>1, <2>2 DEF DeskShape, ChatsAhead
    <2> QED
      BY <1>1, <2>2, <2>3 DEF CapInv, CapOvershoot, WaitingEpisodes
  <1> QED
    BY <1>5, <1>7, <1>9, <1>10 DEF OpeningsWithinLimits

\* Whatever proposals of the model, chat turns and the order panel do beside each
\* other, and however often the backend is switched meanwhile, the open threads, the
\* entries sent in a day and the judgments of a day stay within the limits
\* (openingBlockers before the row is saved, preflightOpen before the order is sent).
THEOREM OpeningsStayWithinLimits == SafeDesk => []OpeningsWithinLimits
  BY DeskInductive, LimitsOfTheChannel, PTL

\* A review cancels only an entry that waits and closes or halves only a position
\* that is held: executeEpisode judges the row as it is when the model answers.
THEOREM ReviewsFit == SafeDesk => []ReviewFitsStatus
  <1>1. DeskInit => ReviewFitsStatus
    BY DEF DeskInit, ReviewFitsStatus
  <1> QED
    BY <1>1, MisfitsStay, PTL DEF SafeDesk

\* `execution` in the settings names the backend that runs but for the stretch in
\* which switchBackend stops the old one, whatever a form or a chat asks for.
THEOREM ExecutionNamesTheBackend == SafeDesk => []ExecutionNamesBackend
  <1>1. DeskInit => ExecutionNamesBackend
    BY DEF DeskInit, ExecutionNamesBackend
  <1> QED
    BY <1>1, DeskInductive, BackendNamed, PTL DEF SafeDesk

\* The officer's timer is armed or his job is queued, and the radar's is armed or
\* awaits its screening, after every step that clears or re-arms one.
THEOREM TimersStayArmed == SafeDesk => []NoTimerLost
  <1>1. DeskInv => NoTimerLost
    BY DEF DeskInv, TimersInv
  <1> QED
    BY <1>1, DeskInductive, PTL

\* The desk keeps the contract of the queue: what holds of the queue alone holds of
\* the queue inside the desk, jobs that throw and chats that jump ahead included.
THEOREM DeskKeepsTheQueue == SafeDesk => []QueueSafe /\ ImplementsKeyedMutex
  <1>1. DeskInit => Init
    BY DEF DeskInit
  <1>2. SafeDesk => Spec
    BY <1>1, DeskInductive, DeskStepsQueue, PTL DEF SafeDesk, Spec
  <1> QED
    BY <1>2, QueueIsSafe, QueueImplementsKeyedMutex, PTL
=============================================================================
