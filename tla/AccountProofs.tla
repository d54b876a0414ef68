--------------------------- MODULE AccountProofs ---------------------------
(***************************************************************************)
(* What the system holds of an account: the cache of a real one, kept from *)
(* its event stream, and the books of a simulated one.                     *)
(*                                                                         *)
(* The cache (AccountStream): a snapshot that is taken with events under   *)
(* way, and replayed over by them, agrees with the exchange once the last  *)
(* of them is applied.  The invariant says it of every moment: of the      *)
(* events under way the last one about an order tells its status, and      *)
(* where there is none the cache (or a snapshot on its way into it) has it *)
(* already.                                                                *)
(*                                                                         *)
(* The paper simulator, for any prices, sizes, fee and number of orders.   *)
(* A tick fills resting orders one after the other, and a cancellation     *)
(* finishes them one after the other.  What such a chain computes follows  *)
(* from Iterates (the chain exists) and UpTo (a fact that every link keeps *)
(* holds at its end); the links are judged as values, apart from any step. *)
(***************************************************************************)
EXTENDS AccountStream, Paper, TLAPS, SequenceTheorems, WellFoundedInduction

OrderEvents == [type : {"order"}, id : Ids, status : {"open", "gone"}]
HeldEvents == [type : {"account"}, held : BOOLEAN]
Steps == {"key", "dial", "anchor", "loop", "again"}

(***************************************************************************)
(* What a queue of events says of an order and of the position             *)
(***************************************************************************)

About(e, i) == e.type = "order" /\ e.id = i
Moved(e) == e.type = "account"

Silent(q, i) == \A k \in 1..Len(q) : ~About(q[k], i)
SilentHeld(q) == \A k \in 1..Len(q) : ~Moved(q[k])

\* The last event about i tells its status; the last about the position tells it.
Tells(q, i, status) ==
  \A k \in 1..Len(q) :
    About(q[k], i) /\ (\A l \in 1..Len(q) : l > k => ~About(q[l], i)) => q[k].status = status
TellsHeld(q, has) ==
  \A k \in 1..Len(q) :
    Moved(q[k]) /\ (\A l \in 1..Len(q) : l > k => ~Moved(q[l])) => q[k].held = has

\* An order that is said to be gone is gone.
GoneIsGone(q, orders) ==
  \A k \in 1..Len(q), i \in Ids :
    About(q[k], i) /\ q[k].status = "gone" => orders[i] = "gone"

(***************************************************************************)
(* The inductive invariant                                                 *)
(***************************************************************************)

Online == worker.pc \in {"anchor", "loop", "again"}

CacheRecords ==
  [connected : BOOLEAN, orders : SUBSET Ids, held : BOOLEAN,
   ordersOk : BOOLEAN, ordersAge : 0..(StaleAfter + 1), throttled : BOOLEAN]

Types ==
  /\ exch \in [orders : [Ids -> {"none", "open", "gone"}], held : BOOLEAN]
  /\ socket \in [up : BOOLEAN, events : Seq(Event)]
  /\ socket.up \/ socket.events = NoEvents
  /\ cache \in CacheRecords
  /\ worker \in [pc : Steps, orders : SUBSET SUBSET Ids, held : SUBSET BOOLEAN]
  /\ engine \in SUBSET SUBSET Ids
  /\ quiet \subseteq Ids /\ clean \in BOOLEAN
  /\ trades \in 0..MaxTrades /\ faults \in 0..MaxFaults

\* A connection is up exactly while the worker is past the dial; it is called
\* online only after the first anchor, and a snapshot is held only in one.
Shape ==
  /\ Online => socket.up
  /\ cache.connected => worker.pc \in {"loop", "again"}
  /\ ~Anchoring => worker.orders = None /\ worker.held = None

QueueTrue ==
  /\ \A i \in Ids : Tells(socket.events, i, exch.orders[i])
  /\ TellsHeld(socket.events, exch.held)
  /\ GoneIsGone(socket.events, exch.orders)

\* s agrees with the exchange in every order no event is under way about.
Agrees(s) == \A i \in Ids : Silent(socket.events, i) => (i \in s <=> exch.orders[i] = "open")
AgreesHeld(h) == SilentHeld(socket.events) => h = exch.held

CacheTrue ==
  clean /\ worker.pc \in {"loop", "again"} => Agrees(cache.orders) /\ AgreesHeld(cache.held)
SnapshotTrue ==
  /\ \A s \in worker.orders : Agrees(s)
  /\ \A h \in worker.held : AgreesHeld(h)

\* Every snapshot that may still reach the cache has the orders placed before it.
WritesKept ==
  \A i \in quiet :
    /\ exch.orders[i] # "none"
    /\ exch.orders[i] = "open" => /\ cache.ordersOk => i \in cache.orders
                                  /\ \A s \in worker.orders : i \in s
                                  /\ \A s \in engine : i \in s

StreamInv == Types /\ Shape /\ QueueTrue /\ CacheTrue /\ SnapshotTrue /\ WritesKept

(***************************************************************************)
(* Queues                                                                  *)
(***************************************************************************)

LEMMA EventKinds ==
  ASSUME NEW e \in Event
  PROVE  e \in OrderEvents \/ e \in HeldEvents
  BY DEF Event, OrderEvents, HeldEvents

LEMMA Appended ==
  ASSUME NEW q \in Seq(Event), NEW e \in Event
  PROVE  /\ Append(q, e) \in Seq(Event) /\ Len(Append(q, e)) = Len(q) + 1 /\ Len(q) \in Nat
         /\ \A k \in 1..Len(q) : Append(q, e)[k] = q[k]
         /\ Append(q, e)[Len(q) + 1] = e
  OBVIOUS

LEMMA Advanced ==
  ASSUME NEW q \in Seq(Event), q # <<>>
  PROVE  /\ Tail(q) \in Seq(Event) /\ Len(q) \in Nat \ {0} /\ Len(Tail(q)) = Len(q) - 1
         /\ Head(q) = q[1] /\ Head(q) \in Event
         /\ \A k \in 1..Len(Tail(q)) : Tail(q)[k] = q[k + 1]
  OBVIOUS

\* A longer queue about an order the new event is not about.
LEMMA AppendedElsewhere ==
  ASSUME NEW q \in Seq(Event), NEW e \in Event, NEW i \in Ids, ~About(e, i)
  PROVE  /\ Silent(Append(q, e), i) => Silent(q, i)
         /\ \A st : Tells(q, i, st) => Tells(Append(q, e), i, st)
  <1> DEFINE p == Append(q, e)
  <1>1. /\ p \in Seq(Event) /\ Len(p) = Len(q) + 1 /\ Len(q) \in Nat
        /\ \A k \in 1..Len(q) : p[k] = q[k]
        /\ p[Len(q) + 1] = e
    BY Appended
  <1> HIDE DEF p
  <1>2. Silent(p, i) => Silent(q, i)
    BY <1>1 DEF Silent
  <1>3. ASSUME NEW st, Tells(q, i, st)
        PROVE  Tells(p, i, st)
    <2> SUFFICES ASSUME NEW k \in 1..Len(p), About(p[k], i),
                        \A l \in 1..Len(p) : l > k => ~About(p[l], i)
                 PROVE  p[k].status = st
      BY DEF Tells
    <2>1. k \in 1..Len(q) /\ p[k] = q[k]
      BY <1>1
    <2>2. \A l \in 1..Len(q) : l > k => ~About(q[l], i)
      BY <1>1
    <2> QED
      BY <1>3, <2>1, <2>2 DEF Tells
  <1> QED
    BY <1>2, <1>3 DEF p

LEMMA AppendedHere ==
  ASSUME NEW q \in Seq(Event), NEW e \in Event, NEW i \in Ids, About(e, i)
  PROVE  ~Silent(Append(q, e), i) /\ Tells(Append(q, e), i, e.status)
  <1> DEFINE p == Append(q, e)
  <1>1. /\ p \in Seq(Event) /\ Len(p) = Len(q) + 1 /\ Len(q) \in Nat
        /\ p[Len(q) + 1] = e
    BY Appended
  <1> HIDE DEF p
  <1>2. Len(p) \in 1..Len(p) /\ p[Len(p)] = e
    BY <1>1
  <1>3. ~Silent(p, i)
    BY <1>2 DEF Silent
  <1>4. Tells(p, i, e.status)
    <2> SUFFICES ASSUME NEW k \in 1..Len(p), About(p[k], i),
                        \A l \in 1..Len(p) : l > k => ~About(p[l], i)
                 PROVE  p[k].status = e.status
      BY DEF Tells
    <2>1. k = Len(p)
      BY <1>1, <1>2
    <2> QED
      BY <1>2, <2>1
  <1> QED
    BY <1>3, <1>4 DEF p

\* The same for the position.
LEMMA AppendedHeld ==
  ASSUME NEW q \in Seq(Event), NEW e \in Event
  PROVE  /\ ~Moved(e) /\ SilentHeld(Append(q, e)) => SilentHeld(q)
         /\ \A h : ~Moved(e) /\ TellsHeld(q, h) => TellsHeld(Append(q, e), h)
         /\ Moved(e) => ~SilentHeld(Append(q, e)) /\ TellsHeld(Append(q, e), e.held)
  <1> DEFINE p == Append(q, e)
  <1>1. /\ p \in Seq(Event) /\ Len(p) = Len(q) + 1 /\ Len(q) \in Nat
        /\ \A k \in 1..Len(q) : p[k] = q[k]
        /\ p[Len(q) + 1] = e
    BY Appended
  <1> HIDE DEF p
  <1>2. SilentHeld(p) => SilentHeld(q)
    BY <1>1 DEF SilentHeld
  <1>3. ASSUME NEW h, ~Moved(e), TellsHeld(q, h)
        PROVE  TellsHeld(p, h)
    <2> SUFFICES ASSUME NEW k \in 1..Len(p), Moved(p[k]),
                        \A l \in 1..Len(p) : l > k => ~Moved(p[l])
                 PROVE  p[k].held = h
      BY DEF TellsHeld
    <2>1. k \in 1..Len(q) /\ p[k] = q[k]
      BY <1>1, <1>3
    <2>2. \A l \in 1..Len(q) : l > k => ~Moved(q[l])
      BY <1>1
    <2> QED
      BY <1>3, <2>1, <2>2 DEF TellsHeld
  <1>4. ASSUME Moved(e)
        PROVE  ~SilentHeld(p) /\ TellsHeld(p, e.held)
    <2>1. Len(p) \in 1..Len(p) /\ p[Len(p)] = e
      BY <1>1
    <2>2. ~SilentHeld(p)
      BY <1>4, <2>1 DEF SilentHeld
    <2>3. ASSUME NEW k \in 1..Len(p), Moved(p[k]),
                 \A l \in 1..Len(p) : l > k => ~Moved(p[l])
          PROVE  p[k].held = e.held
      <3>1. k = Len(p)
        BY <1>1, <1>4, <2>1, <2>3
      <3> QED
        BY <2>1, <3>1
    <2> QED
      BY <2>2, <2>3 DEF TellsHeld
  <1> QED
    BY <1>2, <1>3, <1>4 DEF p

\* What is left when the first event is taken: what the last event about an
\* order tells, and whether that event was the first one.
LEMMA TakenFirst ==
  ASSUME NEW q \in Seq(Event), q # <<>>, NEW i \in Ids, NEW st, Tells(q, i, st)
  PROVE  /\ Tells(Tail(q), i, st)
         /\ Silent(Tail(q), i) => \/ About(Head(q), i) /\ Head(q).status = st
                                  \/ ~About(Head(q), i) /\ Silent(q, i)
  <1> DEFINE p == Tail(q)
  <1>1. /\ p \in Seq(Event) /\ Len(q) \in Nat \ {0} /\ Len(p) = Len(q) - 1
        /\ Head(q) = q[1]
        /\ \A k \in 1..Len(p) : p[k] = q[k + 1]
    BY Advanced
  <1> HIDE DEF p
  <1>2. \A l \in 1..Len(q) : l > 1 => l - 1 \in 1..Len(p) /\ p[l - 1] = q[l]
    BY <1>1
  <1>3. Tells(p, i, st)
    <2> SUFFICES ASSUME NEW k \in 1..Len(p), About(p[k], i),
                        \A l \in 1..Len(p) : l > k => ~About(p[l], i)
                 PROVE  p[k].status = st
      BY DEF Tells
    <2>1. k + 1 \in 1..Len(q) /\ p[k] = q[k + 1]
      BY <1>1
    <2>2. \A l \in 1..Len(q) : l > k + 1 => ~About(q[l], i)
      BY <1>1, <1>2
    <2> QED
      BY <2>1, <2>2 DEF Tells
  <1>4. ASSUME Silent(p, i)
        PROVE  \/ About(q[1], i) /\ q[1].status = st
               \/ ~About(q[1], i) /\ Silent(q, i)
    <2>1. \A l \in 1..Len(q) : l > 1 => ~About(q[l], i)
      BY <1>2, <1>4 DEF Silent
    <2>2. 1 \in 1..Len(q)
      BY <1>1
    <2>3. CASE About(q[1], i)
      BY <2>1, <2>2, <2>3 DEF Tells
    <2>4. CASE ~About(q[1], i)
      <3>1. \A l \in 1..Len(q) : l = 1 \/ l > 1
        BY <1>1
      <3> QED
        BY <2>1, <2>4, <3>1 DEF Silent
    <2> QED
      BY <2>3, <2>4
  <1> QED
    BY <1>1, <1>3, <1>4 DEF p

LEMMA TakenFirstHeld ==
  ASSUME NEW q \in Seq(Event), q # <<>>, NEW h, TellsHeld(q, h)
  PROVE  /\ TellsHeld(Tail(q), h)
         /\ SilentHeld(Tail(q)) => \/ Moved(Head(q)) /\ Head(q).held = h
                                   \/ ~Moved(Head(q)) /\ SilentHeld(q)
  <1> DEFINE p == Tail(q)
  <1>1. /\ p \in Seq(Event) /\ Len(q) \in Nat \ {0} /\ Len(p) = Len(q) - 1
        /\ Head(q) = q[1]
        /\ \A k \in 1..Len(p) : p[k] = q[k + 1]
    BY Advanced
  <1> HIDE DEF p
  <1>2. \A l \in 1..Len(q) : l > 1 => l - 1 \in 1..Len(p) /\ p[l - 1] = q[l]
    BY <1>1
  <1>3. TellsHeld(p, h)
    <2> SUFFICES ASSUME NEW k \in 1..Len(p), Moved(p[k]),
                        \A l \in 1..Len(p) : l > k => ~Moved(p[l])
                 PROVE  p[k].held = h
      BY DEF TellsHeld
    <2>1. k + 1 \in 1..Len(q) /\ p[k] = q[k + 1]
      BY <1>1
    <2>2. \A l \in 1..Len(q) : l > k + 1 => ~Moved(q[l])
      BY <1>1, <1>2
    <2> QED
      BY <2>1, <2>2 DEF TellsHeld
  <1>4. ASSUME SilentHeld(p)
        PROVE  \/ Moved(q[1]) /\ q[1].held = h
               \/ ~Moved(q[1]) /\ SilentHeld(q)
    <2>1. \A l \in 1..Len(q) : l > 1 => ~Moved(q[l])
      BY <1>2, <1>4 DEF SilentHeld
    <2>2. 1 \in 1..Len(q)
      BY <1>1
    <2>3. CASE Moved(q[1])
      BY <2>1, <2>2, <2>3 DEF TellsHeld
    <2>4. CASE ~Moved(q[1])
      <3>1. \A l \in 1..Len(q) : l = 1 \/ l > 1
        BY <1>1
      <3> QED
        BY <2>1, <2>4, <3>1 DEF SilentHeld
    <2> QED
      BY <2>3, <2>4
  <1> QED
    BY <1>1, <1>3, <1>4 DEF p

LEMMA NothingTold ==
  /\ \A i, st : Tells(NoEvents, i, st) /\ Silent(NoEvents, i)
  /\ \A h : TellsHeld(NoEvents, h)
  /\ SilentHeld(NoEvents)
  /\ \A o : GoneIsGone(NoEvents, o)
  BY DEF NoEvents, Tells, TellsHeld, Silent, SilentHeld, GoneIsGone

LEMMA TheIsIn ==
  ASSUME NEW a, a # None
  PROVE  The(a) \in a
  BY Zenon DEF The, None

(***************************************************************************)
(* The exchange's steps                                                    *)
(***************************************************************************)

LEMMA OrderEventType ==
  ASSUME NEW i \in Ids, NEW st \in {"open", "gone"}
  PROVE  /\ OrderEvent(i, st) \in Event /\ OrderEvent(i, st).status = st
         /\ ~Moved(OrderEvent(i, st))
         /\ \A j \in Ids : About(OrderEvent(i, st), j) <=> j = i
  BY DEF OrderEvent, Event, Moved, About

LEMMA HeldEventType ==
  ASSUME NEW h \in BOOLEAN
  PROVE  /\ HeldEvent(h) \in Event /\ HeldEvent(h).held = h
         /\ Moved(HeldEvent(h))
         /\ \A j \in Ids : ~About(HeldEvent(h), j)
  BY DEF HeldEvent, Event, Moved, About

\* The status of one order changes and the event of it is sent.
LEMMA OrderChanges ==
  ASSUME StreamInv, NEW i \in Ids, NEW st \in {"open", "gone"},
         exch' = [exch EXCEPT !.orders[i] = st],
         exch.orders[i] # "gone",
         Emit(OrderEvent(i, st))
  PROVE  /\ exch' \in [orders : [Ids -> {"none", "open", "gone"}], held : BOOLEAN]
         /\ \A j \in Ids : j # i => exch'.orders[j] = exch.orders[j]
         /\ exch'.orders[i] = st
         /\ socket' \in [up : BOOLEAN, events : Seq(Event)]
         /\ socket'.up = socket.up /\ (socket'.up \/ socket'.events = NoEvents)
         /\ QueueTrue'
         /\ socket.up => /\ \A s : Agrees(s) => Agrees(s)'
                         /\ \A h : AgreesHeld(h) => AgreesHeld(h)'
  <1> DEFINE e == OrderEvent(i, st)
             q == socket.events
  <1>0. /\ exch \in [orders : [Ids -> {"none", "open", "gone"}], held : BOOLEAN]
        /\ socket \in [up : BOOLEAN, events : Seq(Event)] /\ (socket.up \/ q = NoEvents)
        /\ q \in Seq(Event)
    BY DEF StreamInv, Types
  <1>1. /\ exch' \in [orders : [Ids -> {"none", "open", "gone"}], held : BOOLEAN]
        /\ \A j \in Ids : j # i => exch'.orders[j] = exch.orders[j]
        /\ exch'.orders[i] = st /\ exch'.held = exch.held
    BY <1>0
  <1>2. /\ e \in Event /\ e.status = st /\ ~Moved(e)
        /\ \A j \in Ids : About(e, j) <=> j = i
    BY OrderEventType
  <1> HIDE DEF e
  <1>3. CASE socket.up
    <2>1. socket'.up = socket.up /\ socket'.events = Append(q, e)
          /\ socket' \in [up : BOOLEAN, events : Seq(Event)]
      <3>1. socket' = [socket EXCEPT !.events = Append(q, e)]
        BY <1>3 DEF Emit, e
      <3>2. Append(q, e) \in Seq(Event)
        BY <1>0, <1>2
      <3> QED
        BY <1>0, <3>1, <3>2
    <2>2. \A j \in Ids : Tells(Append(q, e), j, exch'.orders[j])
      <3> SUFFICES ASSUME NEW j \in Ids PROVE Tells(Append(q, e), j, exch'.orders[j])
        OBVIOUS
      <3>1. CASE j = i
        BY <1>0, <1>1, <1>2, <3>1, AppendedHere
      <3>2. CASE j # i
        <4>1. Tells(q, j, exch.orders[j])
          BY DEF StreamInv, QueueTrue
        <4>2. ~About(e, j) /\ exch'.orders[j] = exch.orders[j]
          BY <1>1, <1>2, <3>2
        <4> QED
          BY <1>0, <1>2, <4>1, <4>2, AppendedElsewhere
      <3> QED
        BY <3>1, <3>2
    <2>3. TellsHeld(Append(q, e), exch'.held)
      <3>1. TellsHeld(q, exch.held)
        BY DEF StreamInv, QueueTrue
      <3> QED
        BY <1>0, <1>1, <1>2, <3>1, AppendedHeld
    <2>4. GoneIsGone(Append(q, e), exch'.orders)
      <3> SUFFICES ASSUME NEW k \in 1..Len(Append(q, e)), NEW j \in Ids,
                          About(Append(q, e)[k], j), Append(q, e)[k].status = "gone"
                   PROVE  exch'.orders[j] = "gone"
        BY DEF GoneIsGone
      <3>1. /\ Len(Append(q, e)) = Len(q) + 1 /\ Len(q) \in Nat
            /\ \A l \in 1..Len(q) : Append(q, e)[l] = q[l]
            /\ Append(q, e)[Len(q) + 1] = e
        BY <1>0, <1>2, Appended
      <3>2. CASE k = Len(q) + 1
        <4>1. Append(q, e)[k] = e
          BY <3>1, <3>2
        <4>2. j = i /\ st = "gone"
          BY <1>2, <4>1
        <4> QED
          BY <1>1, <4>2
      <3>3. CASE k # Len(q) + 1
        <4>1. k \in 1..Len(q)
          BY <3>1, <3>3
        <4>2. About(q[k], j) /\ q[k].status = "gone"
          BY <3>1, <4>1
        <4>3. exch.orders[j] = "gone"
          BY <4>1, <4>2 DEF StreamInv, QueueTrue, GoneIsGone
        <4> QED
          BY <1>1, <4>3
      <3> QED
        BY <3>2, <3>3
    <2>5. ASSUME NEW s, Agrees(s) PROVE Agrees(s)'
      <3> SUFFICES ASSUME NEW j \in Ids, Silent(Append(q, e), j)
                   PROVE  j \in s <=> exch'.orders[j] = "open"
        BY <2>1 DEF Agrees
      <3>1. j # i
        BY <1>0, <1>2, AppendedHere
      <3>2. ~About(e, j) /\ exch'.orders[j] = exch.orders[j]
        BY <1>1, <1>2, <3>1
      <3>3. Silent(q, j)
        BY <1>0, <1>2, <3>2, AppendedElsewhere
      <3> QED
        BY <2>5, <3>2, <3>3 DEF Agrees
    <2>6. ASSUME NEW h, AgreesHeld(h) PROVE AgreesHeld(h)'
      <3>1. SilentHeld(Append(q, e)) => SilentHeld(q)
        BY <1>0, <1>2, AppendedHeld
      <3> QED
        BY <1>1, <2>1, <2>6, <3>1 DEF AgreesHeld
    <2> QED
      BY <1>1, <1>3, <2>1, <2>2, <2>3, <2>4, <2>5, <2>6 DEF QueueTrue
  <1>4. CASE ~socket.up
    <2>1. socket' = socket /\ socket'.events = NoEvents
      BY <1>0, <1>4 DEF Emit
    <2> QED
      BY <1>0, <1>1, <1>4, <2>1, NothingTold DEF QueueTrue
  <1> QED
    BY <1>3, <1>4

LEMMA PlaceKeeps ==
  ASSUME StreamInv, NEW i \in Ids, Place(i)
  PROVE  StreamInv'
  <1>1. /\ exch' \in [orders : [Ids -> {"none", "open", "gone"}], held : BOOLEAN]
        /\ \A j \in Ids : j # i => exch'.orders[j] = exch.orders[j]
        /\ exch'.orders[i] = "open"
        /\ socket' \in [up : BOOLEAN, events : Seq(Event)]
        /\ socket'.up = socket.up /\ (socket'.up \/ socket'.events = NoEvents)
        /\ QueueTrue'
        /\ socket.up => /\ \A s : Agrees(s) => Agrees(s)'
                        /\ \A h : AgreesHeld(h) => AgreesHeld(h)'
    BY OrderChanges DEF Place
  <1>2. /\ cache' \in CacheRecords
        /\ cache'.orders = cache.orders /\ cache'.held = cache.held
        /\ cache'.connected = cache.connected /\ cache'.ordersOk = FALSE
    <2>1. cache' = [cache EXCEPT !.ordersOk = FALSE, !.ordersAge = StaleAfter + 1, !.throttled = FALSE]
      BY DEF Place, invalidate_orders
    <2>2. StaleAfter + 1 \in 0..(StaleAfter + 1) /\ FALSE \in BOOLEAN
      BY StreamAssumption
    <2>3. cache \in CacheRecords
      BY DEF StreamInv, Types
    <2> QED
      BY <2>1, <2>2, <2>3 DEF CacheRecords
  <1>3. /\ worker' = worker /\ engine' = engine /\ clean' = clean /\ trades' = trades /\ faults' = faults
        /\ quiet' = IF Reading THEN quiet ELSE quiet \cup {i}
    BY DEF Place
  <1>4. Types'
    BY <1>1, <1>2, <1>3 DEF StreamInv, Types
  <1>5. Shape'
    BY <1>1, <1>2, <1>3 DEF StreamInv, Shape, Online, Anchoring
  <1>6. CacheTrue' /\ SnapshotTrue'
    <2>1. CASE socket.up
      BY <1>1, <1>2, <1>3, <2>1 DEF StreamInv, CacheTrue, SnapshotTrue
    <2>2. CASE ~socket.up
      <3>1. worker.pc \notin {"anchor", "loop", "again"} /\ worker.orders = None /\ worker.held = None
        BY <2>2 DEF StreamInv, Shape, Online, Anchoring
      <3> QED
        BY <1>3, <3>1 DEF CacheTrue, SnapshotTrue, None
    <2> QED
      BY <2>1, <2>2
  <1>7. WritesKept'
    <2> SUFFICES ASSUME NEW j \in quiet'
                 PROVE  /\ exch'.orders[j] # "none"
                        /\ exch'.orders[j] = "open" => /\ \A s \in worker.orders : j \in s
                                                       /\ \A s \in engine : j \in s
      BY <1>2, <1>3 DEF WritesKept
    <2>1. CASE Reading
      <3>1. j \in quiet
        BY <1>3, <2>1
      <3>2. j # i
        BY <3>1 DEF StreamInv, WritesKept, Place
      <3>3. exch'.orders[j] = exch.orders[j]
        BY <1>1, <3>1, <3>2 DEF StreamInv, Types
      <3> QED
        BY <3>1, <3>3 DEF StreamInv, WritesKept
    <2>2. CASE ~Reading
      <3>1. worker.orders = {} /\ engine = {}
        BY <2>2 DEF Reading, None
      <3>2. exch'.orders[j] # "none"
        <4>1. j = i \/ j \in quiet
          BY <1>3, <2>2
        <4>2. CASE j = i
          BY <1>1, <4>2
        <4>3. CASE j # i
          <5>1. exch'.orders[j] = exch.orders[j]
            BY <1>1, <4>1, <4>3 DEF StreamInv, Types
          <5> QED
            BY <4>1, <4>3, <5>1 DEF StreamInv, WritesKept
        <4> QED
          BY <4>2, <4>3
      <3> QED
        BY <3>1, <3>2
    <2> QED
      BY <2>1, <2>2
  <1> QED
    BY <1>1, <1>4, <1>5, <1>6, <1>7 DEF StreamInv

LEMMA OrderEndsKeeps ==
  ASSUME StreamInv, NEW i \in Ids, OrderEnds(i)
  PROVE  StreamInv'
  <1>1. /\ exch' \in [orders : [Ids -> {"none", "open", "gone"}], held : BOOLEAN]
        /\ \A j \in Ids : j # i => exch'.orders[j] = exch.orders[j]
        /\ exch'.orders[i] = "gone"
        /\ socket' \in [up : BOOLEAN, events : Seq(Event)]
        /\ socket'.up = socket.up /\ (socket'.up \/ socket'.events = NoEvents)
        /\ QueueTrue'
        /\ socket.up => /\ \A s : Agrees(s) => Agrees(s)'
                        /\ \A h : AgreesHeld(h) => AgreesHeld(h)'
    BY OrderChanges DEF OrderEnds
  <1>2. UNCHANGED <<cache, worker, engine, quiet, clean, trades, faults>>
    BY DEF OrderEnds
  <1>3. Types'
    BY <1>1, <1>2 DEF StreamInv, Types
  <1>4. Shape'
    BY <1>1, <1>2 DEF StreamInv, Shape, Online, Anchoring
  <1>5. CacheTrue' /\ SnapshotTrue'
    <2>1. CASE socket.up
      BY <1>1, <1>2, <2>1 DEF StreamInv, CacheTrue, SnapshotTrue
    <2>2. CASE ~socket.up
      <3>1. worker.pc \notin {"anchor", "loop", "again"} /\ worker.orders = None /\ worker.held = None
        BY <2>2 DEF StreamInv, Shape, Online, Anchoring
      <3> QED
        BY <1>2, <3>1 DEF CacheTrue, SnapshotTrue, None
    <2> QED
      BY <2>1, <2>2
  <1>6. WritesKept'
    <2>1. \A j \in quiet : /\ exch'.orders[j] = "open" => exch.orders[j] = "open"
                           /\ exch'.orders[j] = "gone" \/ exch'.orders[j] = exch.orders[j]
      BY <1>1 DEF StreamInv, Types
    <2> QED
      BY <1>2, <2>1 DEF StreamInv, WritesKept
  <1> QED
    BY <1>1, <1>3, <1>4, <1>5, <1>6 DEF StreamInv

LEMMA PositionMovesKeeps ==
  ASSUME StreamInv, PositionMoves
  PROVE  StreamInv'
  <1> DEFINE h0 == ~exch.held
             e == HeldEvent(h0)
             q == socket.events
  <1>0. /\ exch \in [orders : [Ids -> {"none", "open", "gone"}], held : BOOLEAN]
        /\ socket \in [up : BOOLEAN, events : Seq(Event)] /\ (socket.up \/ q = NoEvents)
        /\ q \in Seq(Event)
    BY DEF StreamInv, Types
  <1>1. exch' = [exch EXCEPT !.held = h0] /\ h0 \in BOOLEAN
    BY Zenon DEF PositionMoves
  <1>2. e \in Event /\ e.held = h0 /\ Moved(e) /\ \A j \in Ids : ~About(e, j)
    BY <1>1, HeldEventType
  <1>3. UNCHANGED <<cache, worker, engine, quiet, clean, faults>> /\ trades' \in 0..MaxTrades /\ Emit(e)
    BY StreamAssumption DEF StreamInv, Types, PositionMoves
  <1> HIDE DEF h0, e
  <1>4. /\ exch' \in [orders : [Ids -> {"none", "open", "gone"}], held : BOOLEAN]
        /\ exch'.orders = exch.orders /\ exch'.held = h0
    BY <1>0, <1>1
  <1>5. CASE socket.up
    <2>1. /\ socket'.up = socket.up /\ socket'.events = Append(q, e)
          /\ socket' \in [up : BOOLEAN, events : Seq(Event)]
      <3>1. socket' = [socket EXCEPT !.events = Append(q, e)]
        BY <1>3, <1>5 DEF Emit
      <3>2. Append(q, e) \in Seq(Event)
        BY <1>0, <1>2
      <3> QED
        BY <1>0, <3>1, <3>2
    <2>2. \A j \in Ids : /\ Tells(Append(q, e), j, exch'.orders[j])
                         /\ Silent(Append(q, e), j) => Silent(q, j)
      <3> SUFFICES ASSUME NEW j \in Ids
                   PROVE  /\ Tells(Append(q, e), j, exch'.orders[j])
                          /\ Silent(Append(q, e), j) => Silent(q, j)
        OBVIOUS
      <3>1. Tells(q, j, exch'.orders[j])
        BY <1>4 DEF StreamInv, QueueTrue
      <3>2. ~About(e, j)
        BY <1>2
      <3> QED
        BY <1>0, <1>2, <3>1, <3>2, AppendedElsewhere
    <2>3. ~SilentHeld(Append(q, e)) /\ TellsHeld(Append(q, e), exch'.held)
      BY <1>0, <1>2, <1>4, AppendedHeld
    <2>4. GoneIsGone(Append(q, e), exch'.orders)
      <3> SUFFICES ASSUME NEW k \in 1..Len(Append(q, e)), NEW j \in Ids,
                          About(Append(q, e)[k], j), Append(q, e)[k].status = "gone"
                   PROVE  exch'.orders[j] = "gone"
        BY DEF GoneIsGone
      <3>1. /\ Len(Append(q, e)) = Len(q) + 1 /\ Len(q) \in Nat
            /\ \A l \in 1..Len(q) : Append(q, e)[l] = q[l]
            /\ Append(q, e)[Len(q) + 1] = e
        BY <1>0, <1>2, Appended
      <3>2. k # Len(q) + 1
        BY <1>2, <3>1
      <3>3. k \in 1..Len(q)
        BY <3>1, <3>2
      <3>4. About(q[k], j) /\ q[k].status = "gone"
        BY <3>1, <3>3
      <3> QED
        BY <1>4, <3>3, <3>4 DEF StreamInv, QueueTrue, GoneIsGone
    <2>5. /\ \A s : Agrees(s) => Agrees(s)'
          /\ \A h : AgreesHeld(h)'
      BY <1>4, <2>1, <2>2, <2>3 DEF Agrees, AgreesHeld
    <2>6. QueueTrue' /\ CacheTrue' /\ SnapshotTrue'
      BY <1>3, <2>1, <2>2, <2>3, <2>4, <2>5 DEF StreamInv, QueueTrue, CacheTrue, SnapshotTrue
    <2> QED
      BY <1>3, <1>4, <1>5, <2>1, <2>6
         DEF StreamInv, Types, Shape, Online, Anchoring, WritesKept
  <1>6. CASE ~socket.up
    <2>1. socket' = socket /\ socket'.events = NoEvents
      BY <1>0, <1>3, <1>6 DEF Emit
    <2>2. worker.pc \notin {"anchor", "loop", "again"} /\ worker.orders = None /\ worker.held = None
      BY <1>6 DEF StreamInv, Shape, Online, Anchoring
    <2>3. QueueTrue' /\ CacheTrue' /\ SnapshotTrue'
      BY <1>3, <2>1, <2>2, NothingTold DEF QueueTrue, CacheTrue, SnapshotTrue, None
    <2> QED
      BY <1>0, <1>3, <1>4, <1>6, <2>1, <2>3
         DEF StreamInv, Types, Shape, Online, Anchoring, WritesKept
  <1> QED
    BY <1>5, <1>6

(***************************************************************************)
(* The worker's steps                                                      *)
(***************************************************************************)

LEMMA NoSnapshotIs ==
  ASSUME NEW pc \in Steps
  PROVE  /\ NoSnapshot(pc) \in [pc : Steps, orders : SUBSET SUBSET Ids, held : SUBSET BOOLEAN]
         /\ NoSnapshot(pc).pc = pc /\ NoSnapshot(pc).orders = {} /\ NoSnapshot(pc).held = {}
  BY DEF NoSnapshot, None

LEMMA FaultCounts ==
  ASSUME StreamInv, Fault
  PROVE  faults' \in 0..MaxFaults
  BY StreamAssumption DEF StreamInv, Types, Fault

LEMMA OfflineCache ==
  ASSUME StreamInv, cache' = [cache EXCEPT !.connected = FALSE]
  PROVE  /\ cache' \in CacheRecords /\ cache'.connected = FALSE /\ cache'.orders = cache.orders
         /\ cache'.ordersOk = cache.ordersOk /\ cache'.held = cache.held
  <1>1. cache \in CacheRecords /\ FALSE \in BOOLEAN
    BY DEF StreamInv, Types, CacheRecords
  <1> QED
    BY <1>1 DEF CacheRecords

\* The connection is given up, or there was none: nothing is under way.
LEMMA DroppedKeeps ==
  ASSUME StreamInv, exch' = exch, socket'.up \in BOOLEAN, socket'.events = NoEvents,
         socket' \in [up : BOOLEAN, events : Seq(Event)],
         cache' \in CacheRecords, ~cache'.connected, cache'.orders = cache.orders,
         cache'.ordersOk = cache.ordersOk,
         NEW pc \in {"key", "dial"}, worker' = NoSnapshot(pc),
         engine' = engine, quiet' = quiet, clean' = clean, trades' = trades,
         faults' \in 0..MaxFaults
  PROVE  StreamInv'
  <1>1. /\ worker' \in [pc : Steps, orders : SUBSET SUBSET Ids, held : SUBSET BOOLEAN]
        /\ worker'.pc = pc /\ worker'.orders = {} /\ worker'.held = {}
    BY NoSnapshotIs DEF Steps
  <1>2. Types'
    BY <1>1 DEF StreamInv, Types, CacheRecords
  <1>3. Shape' /\ CacheTrue' /\ SnapshotTrue'
    BY <1>1 DEF Shape, CacheTrue, SnapshotTrue, Online, Anchoring, None
  <1>4. QueueTrue'
    BY NothingTold DEF QueueTrue
  <1>5. WritesKept'
    BY <1>1 DEF StreamInv, WritesKept
  <1> QED
    BY <1>2, <1>3, <1>4, <1>5 DEF StreamInv

LEMMA StartKeeps ==
  ASSUME StreamInv, CreateListenKey \/ Connect \/ StartFails
  PROVE  StreamInv'
  <1>0. \A x \in {"key", "dial"} : worker.pc = x => ~cache.connected
    BY DEF StreamInv, Shape
  <1>1. CASE CreateListenKey
    <2>1. worker' = NoSnapshot("dial") /\ UNCHANGED <<exch, socket, cache, engine, quiet, clean, trades, faults>>
          /\ ~cache.connected
      BY <1>0, <1>1 DEF CreateListenKey
    <2>2. /\ worker' \in [pc : Steps, orders : SUBSET SUBSET Ids, held : SUBSET BOOLEAN]
          /\ worker'.pc = "dial" /\ worker'.orders = {} /\ worker'.held = {}
      BY <2>1, NoSnapshotIs DEF Steps
    <2>3. Types' /\ Shape'
      BY <2>1, <2>2 DEF StreamInv, Types, Shape, Online, Anchoring, None
    <2>4. QueueTrue' /\ CacheTrue' /\ SnapshotTrue' /\ WritesKept'
      BY <2>1, <2>2 DEF StreamInv, QueueTrue, CacheTrue, SnapshotTrue, WritesKept
    <2> QED
      BY <2>3, <2>4 DEF StreamInv
  <1>2. CASE Connect
    <2>1. /\ worker' = NoSnapshot("anchor") /\ UNCHANGED <<exch, cache, engine, quiet, clean, trades, faults>>
          /\ ~cache.connected /\ socket' = [up |-> TRUE, events |-> NoEvents]
      BY <1>0, <1>2 DEF Connect
    <2>2. /\ worker' \in [pc : Steps, orders : SUBSET SUBSET Ids, held : SUBSET BOOLEAN]
          /\ worker'.pc = "anchor" /\ worker'.orders = {} /\ worker'.held = {}
      BY <2>1, NoSnapshotIs DEF Steps
    <2>3. socket' \in [up : BOOLEAN, events : Seq(Event)] /\ socket'.up /\ socket'.events = NoEvents
      <3>1. NoEvents \in Seq(Event) /\ TRUE \in BOOLEAN
        BY DEF NoEvents
      <3> QED
        BY <2>1, <3>1
    <2>4. Types' /\ Shape'
      BY <2>1, <2>2, <2>3 DEF StreamInv, Types, Shape, Online, Anchoring, None
    <2>5. QueueTrue'
      BY <2>3, NothingTold DEF QueueTrue
    <2>6. CacheTrue' /\ SnapshotTrue' /\ WritesKept'
      BY <2>1, <2>2 DEF StreamInv, CacheTrue, SnapshotTrue, WritesKept
    <2> QED
      BY <2>4, <2>5, <2>6 DEF StreamInv
  <1>3. CASE StartFails
    <2>1. /\ worker' = NoSnapshot("key") /\ UNCHANGED <<exch, socket, engine, quiet, clean, trades>>
          /\ cache' = [cache EXCEPT !.connected = FALSE] /\ faults' \in 0..MaxFaults
          /\ worker.pc \in {"key", "dial"}
      BY <1>3, FaultCounts DEF StartFails
    <2>2. /\ worker' \in [pc : Steps, orders : SUBSET SUBSET Ids, held : SUBSET BOOLEAN]
          /\ worker'.pc = "key" /\ worker'.orders = {} /\ worker'.held = {}
      BY <2>1, NoSnapshotIs DEF Steps
    <2>3. /\ cache' \in CacheRecords /\ cache'.connected = FALSE /\ cache'.orders = cache.orders
          /\ cache'.ordersOk = cache.ordersOk /\ cache'.held = cache.held
      BY <2>1, OfflineCache
    <2>4. Types' /\ Shape'
      BY <2>1, <2>2, <2>3 DEF StreamInv, Types, CacheRecords, Shape, Online, Anchoring, None
    <2>5. QueueTrue' /\ CacheTrue' /\ SnapshotTrue' /\ WritesKept'
      BY <2>1, <2>2, <2>3 DEF StreamInv, QueueTrue, CacheTrue, SnapshotTrue, WritesKept
    <2> QED
      BY <2>4, <2>5 DEF StreamInv
  <1> QED
    BY <1>1, <1>2, <1>3

LEMMA DownSocket ==
  ASSUME socket' = [up |-> FALSE, events |-> NoEvents]
  PROVE  /\ socket' \in [up : BOOLEAN, events : Seq(Event)]
         /\ socket'.up \in BOOLEAN /\ socket'.events = NoEvents
  <1>1. NoEvents \in Seq(Event) /\ FALSE \in BOOLEAN
    BY DEF NoEvents
  <1> QED
    BY <1>1

LEMMA StreamEndsKeeps ==
  ASSUME StreamInv, StreamEnds
  PROVE  StreamInv'
  <1>1. /\ worker' = NoSnapshot("key") /\ UNCHANGED <<exch, engine, quiet, clean, trades>>
        /\ cache' = [cache EXCEPT !.connected = FALSE] /\ faults' \in 0..MaxFaults
        /\ socket' = [up |-> FALSE, events |-> NoEvents]
    BY FaultCounts DEF StreamEnds
  <1>2. /\ cache' \in CacheRecords /\ ~cache'.connected /\ cache'.orders = cache.orders
        /\ cache'.ordersOk = cache.ordersOk
    BY <1>1, OfflineCache
  <1> QED
    BY <1>1, <1>2, DownSocket, DroppedKeeps

\* A read while the exchange, the socket and the cache stay as they are.
LEMMA ReadKeeps ==
  ASSUME StreamInv, ReadOrders \/ ReadPositions
  PROVE  StreamInv'
  <1>0. /\ worker \in [pc : Steps, orders : SUBSET SUBSET Ids, held : SUBSET BOOLEAN]
        /\ exch \in [orders : [Ids -> {"none", "open", "gone"}], held : BOOLEAN]
        /\ Anchoring /\ UNCHANGED <<exch, socket, cache, engine, quiet, clean, trades, faults>>
    BY DEF StreamInv, Types, ReadOrders, ReadPositions
  <1>1. CASE ReadOrders
    <2>1. worker' = [worker EXCEPT !.orders = {Open}] /\ {Open} \in SUBSET SUBSET Ids
      BY <1>1 DEF ReadOrders, Open
    <2>2. /\ worker' \in [pc : Steps, orders : SUBSET SUBSET Ids, held : SUBSET BOOLEAN]
          /\ worker'.pc = worker.pc /\ worker'.orders = {Open} /\ worker'.held = worker.held
      BY <1>0, <2>1
    <2>3. Types' /\ Shape'
      BY <1>0, <2>2 DEF StreamInv, Types, Shape, Online, Anchoring
    <2>4. SnapshotTrue'
      <3>1. Agrees(Open)'
        BY <1>0 DEF Agrees, Open
      <3>2. \A h \in worker.held : AgreesHeld(h)'
        BY <1>0 DEF StreamInv, SnapshotTrue, AgreesHeld
      <3>3. \A s \in worker'.orders : Agrees(s)'
        BY <1>0, <2>2 DEF Agrees, Open
      <3> QED
        BY <2>2, <3>2, <3>3 DEF SnapshotTrue
    <2>5. QueueTrue' /\ CacheTrue'
      BY <1>0, <2>2 DEF StreamInv, QueueTrue, CacheTrue, Agrees, AgreesHeld
    <2>6. WritesKept'
      BY <1>0, <2>2 DEF StreamInv, Types, WritesKept, Open
    <2> QED
      BY <2>3, <2>4, <2>5, <2>6 DEF StreamInv
  <1>2. CASE ReadPositions
    <2>1. worker' = [worker EXCEPT !.held = {exch.held}] /\ {exch.held} \in SUBSET BOOLEAN
      BY <1>0, <1>2 DEF ReadPositions
    <2>2. /\ worker' \in [pc : Steps, orders : SUBSET SUBSET Ids, held : SUBSET BOOLEAN]
          /\ worker'.pc = worker.pc /\ worker'.orders = worker.orders /\ worker'.held = {exch.held}
      BY <1>0, <2>1
    <2>3. Types' /\ Shape'
      BY <1>0, <2>2 DEF StreamInv, Types, Shape, Online, Anchoring
    <2>4. SnapshotTrue'
      BY <1>0, <2>2 DEF StreamInv, SnapshotTrue, Agrees, AgreesHeld
    <2>5. QueueTrue' /\ CacheTrue'
      BY <1>0, <2>2 DEF StreamInv, QueueTrue, CacheTrue, Agrees, AgreesHeld
    <2>6. WritesKept'
      BY <1>0, <2>2 DEF StreamInv, WritesKept
    <2> QED
      BY <2>3, <2>4, <2>5, <2>6 DEF StreamInv
  <1> QED
    BY <1>1, <1>2

LEMMA AnchorKeeps ==
  ASSUME StreamInv, Anchor
  PROVE  StreamInv'
  <1> DEFINE s == The(worker.orders)
             h == The(worker.held)
             on == (worker.pc = "anchor") \/ cache.connected
  <1>0. /\ worker \in [pc : Steps, orders : SUBSET SUBSET Ids, held : SUBSET BOOLEAN]
        /\ cache \in CacheRecords
        /\ worker' = NoSnapshot("loop") /\ UNCHANGED <<exch, socket, engine, quiet, trades, faults>>
        /\ worker.pc \in {"anchor", "again"} /\ clean' = TRUE
    BY DEF StreamInv, Types, CacheRecords, Anchor, Anchoring
  <1>1. s \in worker.orders /\ h \in worker.held
    BY TheIsIn DEF Anchor
  <1>2. cache' = [cache EXCEPT !.orders = s, !.ordersOk = TRUE, !.ordersAge = 0, !.held = h, !.connected = on]
    BY <1>0 DEF Anchor, reconcile, replace_positions, replace_orders, CacheRecords
  <1>3. s \in SUBSET Ids /\ h \in BOOLEAN
    BY <1>0, <1>1
  <1>4. on \in BOOLEAN /\ TRUE \in BOOLEAN /\ 0 \in 0..(StaleAfter + 1)
    <2>1. on \in BOOLEAN
      BY <1>0, Zenon DEF CacheRecords
    <2>2. 0 \in 0..(StaleAfter + 1)
      BY StreamAssumption
    <2> QED
      BY <2>1, <2>2
  <1> HIDE DEF s, h, on
  <1>5. /\ cache' \in CacheRecords /\ cache'.orders = s /\ cache'.held = h
    BY <1>0, <1>2, <1>3, <1>4 DEF CacheRecords
  <1>6. /\ worker' \in [pc : Steps, orders : SUBSET SUBSET Ids, held : SUBSET BOOLEAN]
        /\ worker'.pc = "loop" /\ worker'.orders = {} /\ worker'.held = {}
    BY <1>0, NoSnapshotIs DEF Steps
  <1>7. Types'
    BY <1>0, <1>5, <1>6 DEF StreamInv, Types, CacheRecords
  <1>8. Shape'
    BY <1>0, <1>6 DEF StreamInv, Shape, Online, Anchoring, None
  <1>9. QueueTrue' /\ CacheTrue'
    BY <1>0, <1>1, <1>5, <1>6 DEF StreamInv, QueueTrue, CacheTrue, SnapshotTrue, Agrees, AgreesHeld
  <1>10. SnapshotTrue'
    BY <1>6 DEF SnapshotTrue
  <1>11. WritesKept'
    BY <1>0, <1>1, <1>5, <1>6 DEF StreamInv, WritesKept
  <1> QED
    BY <1>7, <1>8, <1>9, <1>10, <1>11 DEF StreamInv

\* The worker goes back to its loop without a snapshot, or to a reconcile.
LEMMA BackKeeps ==
  ASSUME StreamInv, NEW pc \in {"loop", "again"}, worker.pc \in {"loop", "again"},
         worker' = NoSnapshot(pc), faults' \in 0..MaxFaults,
         UNCHANGED <<exch, socket, cache, engine, quiet, clean, trades>>
  PROVE  StreamInv'
  <1>1. /\ worker' \in [pc : Steps, orders : SUBSET SUBSET Ids, held : SUBSET BOOLEAN]
        /\ worker'.pc = pc /\ worker'.orders = {} /\ worker'.held = {}
    BY NoSnapshotIs DEF Steps
  <1>2. Types' /\ Shape'
    BY <1>1 DEF StreamInv, Types, Shape, Online, Anchoring, None
  <1>3. QueueTrue' /\ CacheTrue' /\ SnapshotTrue' /\ WritesKept'
    BY <1>1 DEF StreamInv, QueueTrue, CacheTrue, SnapshotTrue, WritesKept, Agrees, AgreesHeld
  <1> QED
    BY <1>2, <1>3 DEF StreamInv

LEMMA AnchorFailsKeeps ==
  ASSUME StreamInv, AnchorFails
  PROVE  StreamInv'
  <1>0. faults' \in 0..MaxFaults /\ UNCHANGED <<exch, engine, quiet, clean, trades>>
    BY FaultCounts DEF AnchorFails
  <1>1. CASE worker.pc = "anchor"
    <2>1. /\ worker' = NoSnapshot("key") /\ cache' = [cache EXCEPT !.connected = FALSE]
          /\ socket' = [up |-> FALSE, events |-> NoEvents]
      BY <1>1 DEF AnchorFails
    <2>2. /\ cache' \in CacheRecords /\ ~cache'.connected /\ cache'.orders = cache.orders
          /\ cache'.ordersOk = cache.ordersOk
      BY <2>1, OfflineCache
    <2> QED
      BY <1>0, <2>1, <2>2, DownSocket, DroppedKeeps
  <1>2. CASE worker.pc # "anchor"
    <2>1. worker.pc = "again" /\ worker' = NoSnapshot("loop") /\ UNCHANGED <<cache, socket>>
      BY <1>2 DEF AnchorFails, Anchoring
    <2> QED
      BY <1>0, <2>1, BackKeeps
  <1> QED
    BY <1>1, <1>2

LEMMA ReconcileTickKeeps ==
  ASSUME StreamInv, ReconcileTick
  PROVE  StreamInv'
  <1>1. faults' \in 0..MaxFaults
    BY DEF StreamInv, Types, ReconcileTick
  <1> QED
    BY <1>1, BackKeeps DEF ReconcileTick

\* An event about an order changes that order in the cache as it tells; one
\* about the position changes the position.
LEMMA Applied ==
  ASSUME NEW c \in CacheRecords, NEW e \in Event
  PROVE  /\ apply_event(c, e) \in CacheRecords
         /\ apply_event(c, e).connected = c.connected /\ apply_event(c, e).ordersOk = c.ordersOk
         /\ \A i \in Ids : /\ ~About(e, i) => (i \in apply_event(c, e).orders <=> i \in c.orders)
                           /\ About(e, i) => (i \in apply_event(c, e).orders <=> e.status # "gone")
         /\ ~Moved(e) => apply_event(c, e).held = c.held
         /\ Moved(e) => apply_event(c, e).held = e.held
  <1> DEFINE d == apply_event(c, e)
  <1>1. CASE e \in OrderEvents
    <2> DEFINE s == IF e.status = "gone" THEN c.orders \ {e.id} ELSE c.orders \cup {e.id}
    <2>1. e.type = "order" /\ e.id \in Ids /\ ~Moved(e) /\ \A i \in Ids : About(e, i) <=> e.id = i
      BY <1>1 DEF OrderEvents, Moved, About
    <2>2. d = [c EXCEPT !.orders = s]
      BY <2>1 DEF apply_event
    <2>3. s \in SUBSET Ids
      BY <2>1 DEF CacheRecords
    <2>4. \A i \in Ids : /\ e.id # i => (i \in s <=> i \in c.orders)
                         /\ e.id = i => (i \in s <=> e.status # "gone")
      OBVIOUS
    <2> HIDE DEF s, d
    <2>5. /\ d \in CacheRecords /\ d.connected = c.connected /\ d.ordersOk = c.ordersOk
          /\ d.orders = s /\ d.held = c.held
      BY <2>2, <2>3 DEF CacheRecords
    <2> QED
      BY <2>1, <2>4, <2>5 DEF d
  <1>2. CASE e \in HeldEvents
    <2>1. e.type = "account" /\ e.held \in BOOLEAN /\ Moved(e) /\ \A i \in Ids : ~About(e, i)
      BY <1>2 DEF HeldEvents, Moved, About
    <2>2. d = [c EXCEPT !.held = e.held]
      BY <2>1 DEF apply_event
    <2> HIDE DEF d
    <2>3. /\ d \in CacheRecords /\ d.connected = c.connected /\ d.ordersOk = c.ordersOk
          /\ d.orders = c.orders /\ d.held = e.held
      BY <2>1, <2>2 DEF CacheRecords
    <2> QED
      BY <2>1, <2>3 DEF d
  <1> QED
    BY <1>1, <1>2, EventKinds

LEMMA ReceiveKeeps ==
  ASSUME StreamInv, Receive
  PROVE  StreamInv'
  <1> DEFINE q == socket.events
             e == Head(q)
  <1>0. /\ socket \in [up : BOOLEAN, events : Seq(Event)] /\ q \in Seq(Event) /\ q # <<>>
        /\ cache \in CacheRecords /\ worker.pc = "loop"
        /\ UNCHANGED <<exch, worker, engine, quiet, clean, trades, faults>>
        /\ cache' = apply_event(cache, e) /\ socket' = [socket EXCEPT !.events = Tail(q)]
    BY DEF StreamInv, Types, CacheRecords, Receive, NoEvents
  <1>1. /\ Tail(q) \in Seq(Event) /\ Len(q) \in Nat \ {0} /\ Len(Tail(q)) = Len(q) - 1
        /\ e = q[1] /\ e \in Event
        /\ \A k \in 1..Len(Tail(q)) : Tail(q)[k] = q[k + 1]
    BY <1>0, Advanced
  <1>2. /\ socket' \in [up : BOOLEAN, events : Seq(Event)] /\ socket'.up = socket.up
        /\ socket'.events = Tail(q) /\ socket'.up
    <2>1. socket.up
      BY <1>0 DEF StreamInv, Shape, Online
    <2> QED
      BY <1>0, <1>1, <2>1
  <1>3. /\ cache' \in CacheRecords
        /\ cache'.connected = cache.connected /\ cache'.ordersOk = cache.ordersOk
        /\ \A i \in Ids : /\ ~About(e, i) => (i \in cache'.orders <=> i \in cache.orders)
                          /\ About(e, i) => (i \in cache'.orders <=> e.status # "gone")
        /\ ~Moved(e) => cache'.held = cache.held
        /\ Moved(e) => cache'.held = e.held
    BY <1>0, <1>1, Applied
  <1> HIDE DEF e
  <1>4. Types'
    BY <1>0, <1>2, <1>3 DEF StreamInv, Types, CacheRecords
  <1>5. Shape'
    BY <1>0, <1>2, <1>3 DEF StreamInv, Shape, Online, Anchoring
  <1>6. \A i \in Ids : /\ Tells(Tail(q), i, exch.orders[i])
                       /\ Silent(Tail(q), i) => \/ About(e, i) /\ e.status = exch.orders[i]
                                                \/ ~About(e, i) /\ Silent(q, i)
    <2> SUFFICES ASSUME NEW i \in Ids
                 PROVE  /\ Tells(Tail(q), i, exch.orders[i])
                        /\ Silent(Tail(q), i) => \/ About(e, i) /\ e.status = exch.orders[i]
                                                 \/ ~About(e, i) /\ Silent(q, i)
      OBVIOUS
    <2>1. Tells(q, i, exch.orders[i])
      BY DEF StreamInv, QueueTrue
    <2> QED
      BY <1>0, <2>1, TakenFirst DEF e
  <1>7. /\ TellsHeld(Tail(q), exch.held)
        /\ SilentHeld(Tail(q)) => \/ Moved(e) /\ e.held = exch.held
                                  \/ ~Moved(e) /\ SilentHeld(q)
    <2>1. TellsHeld(q, exch.held)
      BY DEF StreamInv, QueueTrue
    <2> QED
      BY <1>0, <2>1, TakenFirstHeld DEF e
  <1>8. QueueTrue'
    <2>1. GoneIsGone(Tail(q), exch.orders)
      BY <1>1 DEF StreamInv, QueueTrue, GoneIsGone
    <2> QED
      BY <1>0, <1>2, <1>6, <1>7, <2>1 DEF QueueTrue
  <1>9. CacheTrue'
    <2> SUFFICES ASSUME clean PROVE Agrees(cache.orders)' /\ AgreesHeld(cache.held)'
      BY <1>0 DEF CacheTrue
    <2>1. Agrees(cache.orders) /\ AgreesHeld(cache.held)
      BY <1>0 DEF StreamInv, CacheTrue
    <2>2. ASSUME NEW i \in Ids, Silent(Tail(q), i)
          PROVE  i \in cache'.orders <=> exch.orders[i] = "open"
      <3>1. CASE About(e, i)
        <4>1. e.status = exch.orders[i] /\ e.status \in {"open", "gone"}
          BY <1>1, <1>6, <2>2, <3>1 DEF About, Event
        <4> QED
          BY <1>3, <3>1, <4>1
      <3>2. CASE ~About(e, i)
        BY <1>3, <1>6, <2>1, <2>2, <3>2 DEF Agrees
      <3> QED
        BY <3>1, <3>2
    <2>3. SilentHeld(Tail(q)) => cache'.held = exch.held
      BY <1>3, <1>7, <2>1 DEF AgreesHeld
    <2> QED
      BY <1>0, <1>2, <2>2, <2>3 DEF Agrees, AgreesHeld
  <1>10. SnapshotTrue'
    BY <1>0 DEF StreamInv, Shape, Anchoring, SnapshotTrue, None
  <1>11. WritesKept'
    <2> SUFFICES ASSUME NEW i \in quiet, exch.orders[i] = "open", cache.ordersOk
                 PROVE  i \in cache'.orders
      BY <1>0, <1>3 DEF StreamInv, WritesKept
    <2>1. i \in cache.orders /\ i \in Ids
      BY DEF StreamInv, WritesKept, Types
    <2>2. ~(About(e, i) /\ e.status = "gone")
      <3>1. 1 \in 1..Len(q)
        BY <1>1
      <3>2. About(q[1], i) /\ q[1].status = "gone" => exch.orders[i] = "gone"
        BY <2>1, <3>1 DEF StreamInv, QueueTrue, GoneIsGone
      <3> QED
        BY <1>1, <3>2
    <2> QED
      BY <1>3, <2>1, <2>2
  <1> QED
    BY <1>4, <1>5, <1>8, <1>9, <1>10, <1>11 DEF StreamInv

(***************************************************************************)
(* The engine and time                                                     *)
(***************************************************************************)

\* A step that leaves the exchange, the socket and the worker alone.
LEMMA CacheOnlyKeeps ==
  ASSUME StreamInv, UNCHANGED <<exch, socket, worker, quiet, trades>>,
         cache' \in CacheRecords, cache'.connected = cache.connected, cache'.held = cache.held,
         engine' \in SUBSET SUBSET Ids, clean' \in BOOLEAN, faults' \in 0..MaxFaults,
         clean' => clean /\ cache'.orders = cache.orders,
         \A i \in quiet : exch.orders[i] = "open" =>
            (cache'.ordersOk => i \in cache'.orders) /\ (\A s \in engine' : i \in s)
  PROVE  StreamInv'
  <1>1. Types' /\ Shape'
    BY DEF StreamInv, Types, CacheRecords, Shape, Online, Anchoring
  <1>2. QueueTrue' /\ SnapshotTrue' /\ CacheTrue'
    BY DEF StreamInv, QueueTrue, SnapshotTrue, CacheTrue, Agrees, AgreesHeld
  <1>3. WritesKept'
    BY DEF StreamInv, WritesKept
  <1> QED
    BY <1>1, <1>2, <1>3 DEF StreamInv

LEMMA EngineKeeps ==
  ASSUME StreamInv, Engine
  PROVE  StreamInv'
  <1>0. /\ cache \in CacheRecords /\ engine \in SUBSET SUBSET Ids /\ clean \in BOOLEAN
        /\ faults \in 0..MaxFaults /\ quiet \subseteq Ids
        /\ UNCHANGED <<exch, socket, worker, quiet, trades>>
    BY DEF StreamInv, Types, CacheRecords, Engine, begin_rest_fallback, finish_rest_fallback
  <1>1. CASE begin_rest_fallback
    <2>1. engine' = {Open} /\ cache' = cache /\ clean' = clean /\ faults' = faults
      BY <1>1 DEF begin_rest_fallback
    <2>2. \A i \in quiet : exch.orders[i] = "open" =>
            (cache.ordersOk => i \in cache.orders) /\ (\A s \in engine' : i \in s)
      BY <1>0, <2>1 DEF StreamInv, WritesKept, Open
    <2>3. {Open} \in SUBSET SUBSET Ids
      BY DEF Open
    <2> QED
      BY <1>0, <2>1, <2>2, <2>3, CacheOnlyKeeps
  <1>2. CASE finish_rest_fallback
    <2>0. engine # None /\ engine' = {}
      BY <1>2 DEF finish_rest_fallback, None
    <2>1. CASE cache' = [replace_orders(cache, The(engine)) EXCEPT !.throttled = TRUE]
               /\ clean' = FALSE /\ faults' = faults
      <3> DEFINE s == The(engine)
      <3>1. s \in engine /\ s \in SUBSET Ids
        BY <1>0, <2>0, TheIsIn
      <3>2. cache' = [cache EXCEPT !.orders = s, !.ordersOk = TRUE, !.ordersAge = 0, !.throttled = TRUE]
        BY <1>0, <2>1 DEF replace_orders, CacheRecords
      <3>3. 0 \in 0..(StaleAfter + 1) /\ TRUE \in BOOLEAN /\ FALSE \in BOOLEAN
        BY StreamAssumption
      <3> HIDE DEF s
      <3>4. /\ cache' \in CacheRecords /\ cache'.connected = cache.connected
            /\ cache'.held = cache.held /\ cache'.orders = s
        BY <1>0, <3>1, <3>2, <3>3 DEF CacheRecords
      <3>5. \A i \in quiet : exch.orders[i] = "open" =>
              (cache'.ordersOk => i \in cache'.orders) /\ (\A x \in engine' : i \in x)
        BY <2>0, <3>1, <3>4 DEF StreamInv, WritesKept
      <3> QED
        BY <1>0, <2>0, <2>1, <3>3, <3>4, <3>5, CacheOnlyKeeps
    <2>2. CASE Fault /\ cache' = [cache EXCEPT !.throttled = TRUE] /\ clean' = clean
      <3>1. TRUE \in BOOLEAN
        OBVIOUS
      <3>2. /\ cache' \in CacheRecords /\ cache'.connected = cache.connected /\ cache'.held = cache.held
            /\ cache'.orders = cache.orders /\ cache'.ordersOk = cache.ordersOk
        BY <1>0, <2>2, <3>1 DEF CacheRecords
      <3>3. \A i \in quiet : exch.orders[i] = "open" =>
              (cache'.ordersOk => i \in cache'.orders) /\ (\A x \in engine' : i \in x)
        BY <2>0, <3>2 DEF StreamInv, WritesKept
      <3>4. faults' \in 0..MaxFaults /\ engine' \in SUBSET SUBSET Ids
        BY <2>0, <2>2, FaultCounts
      <3> QED
        BY <1>0, <2>2, <3>2, <3>3, <3>4, CacheOnlyKeeps
    <2> QED
      BY <1>2, <2>1, <2>2 DEF finish_rest_fallback
  <1> QED
    BY <1>1, <1>2 DEF Engine

LEMMA TickKeeps ==
  ASSUME StreamInv, Tick
  PROVE  StreamInv'
  <1> DEFINE a == Least(cache.ordersAge + 1, StaleAfter + 1)
  <1>0. /\ cache \in CacheRecords /\ UNCHANGED <<exch, socket, worker, engine, quiet, clean, trades, faults>>
        /\ cache' = [cache EXCEPT !.ordersAge = a, !.throttled = FALSE]
        /\ engine \in SUBSET SUBSET Ids /\ clean \in BOOLEAN /\ faults \in 0..MaxFaults
    BY DEF StreamInv, Types, CacheRecords, Tick
  <1>1. a \in 0..(StaleAfter + 1) /\ FALSE \in BOOLEAN
    BY <1>0, StreamAssumption DEF CacheRecords, Least
  <1> HIDE DEF a
  <1>2. /\ cache' \in CacheRecords /\ cache'.connected = cache.connected /\ cache'.held = cache.held
        /\ cache'.orders = cache.orders /\ cache'.ordersOk = cache.ordersOk
    BY <1>0, <1>1 DEF CacheRecords
  <1>3. \A i \in quiet : exch.orders[i] = "open" =>
          (cache'.ordersOk => i \in cache'.orders) /\ (\A x \in engine' : i \in x)
    BY <1>0, <1>2 DEF StreamInv, WritesKept
  <1> QED
    BY <1>0, <1>2, <1>3, CacheOnlyKeeps

(***************************************************************************)
(* The theorem                                                             *)
(***************************************************************************)

LEMMA StreamInvInit == Init => StreamInv
  <1> SUFFICES ASSUME Init PROVE StreamInv
    OBVIOUS
  <1>1. Types
    <2>1. exch \in [orders : [Ids -> {"none", "open", "gone"}], held : BOOLEAN]
      BY DEF Init
    <2>2. socket \in [up : BOOLEAN, events : Seq(Event)] /\ (socket.up \/ socket.events = NoEvents)
      <3>1. <<>> \in Seq(Event)
        OBVIOUS
      <3> QED
        BY <3>1 DEF Init, NoEvents
    <2>3. cache \in CacheRecords
      <3>1. StaleAfter + 1 \in 0..(StaleAfter + 1) /\ {} \in SUBSET Ids
        BY StreamAssumption
      <3> QED
        BY <3>1 DEF Init, CacheRecords
    <2>4. worker \in [pc : Steps, orders : SUBSET SUBSET Ids, held : SUBSET BOOLEAN]
      BY DEF Init, Steps, None
    <2>5. engine \in SUBSET SUBSET Ids /\ quiet \subseteq Ids /\ clean \in BOOLEAN
          /\ trades \in 0..MaxTrades /\ faults \in 0..MaxFaults
      BY StreamAssumption DEF Init, None
    <2> QED
      BY <2>1, <2>2, <2>3, <2>4, <2>5 DEF Types, CacheRecords
  <1>2. Shape /\ CacheTrue /\ SnapshotTrue /\ WritesKept
    BY DEF Init, Shape, CacheTrue, SnapshotTrue, WritesKept, Online, Anchoring, None
  <1>3. QueueTrue
    BY NothingTold DEF Init, QueueTrue
  <1> QED
    BY <1>1, <1>2, <1>3 DEF StreamInv

LEMMA StreamInvStep == StreamInv /\ [Next]_vars => StreamInv'
  <1> SUFFICES ASSUME StreamInv, [Next]_vars PROVE StreamInv'
    OBVIOUS
  <1>1. CASE Exchange
    BY <1>1, PlaceKeeps, OrderEndsKeeps, PositionMovesKeeps DEF Exchange
  <1>2. CASE Worker
    BY <1>2, StartKeeps, ReadKeeps, AnchorKeeps, AnchorFailsKeeps, ReceiveKeeps,
       ReconcileTickKeeps, StreamEndsKeeps DEF Worker
  <1>3. CASE Engine
    BY <1>3, EngineKeeps
  <1>4. CASE Tick
    BY <1>4, TickKeeps
  <1>5. CASE UNCHANGED vars
    BY <1>5 DEF vars, StreamInv, Types, Shape, QueueTrue, CacheTrue, SnapshotTrue, WritesKept,
       Online, Anchoring, Agrees, AgreesHeld
  <1> QED
    BY <1>1, <1>2, <1>3, <1>4, <1>5 DEF Next

LEMMA InvImpliesFresh == StreamInv => FreshIsTrue
  <1> SUFFICES ASSUME StreamInv PROVE FreshIsTrue
    OBVIOUS
  <1>1. TypeOK
    BY DEF StreamInv, Types, CacheRecords, Shape, Steps, TypeOK
  <1>2. StreamConverges
    <2> SUFFICES ASSUME clean, worker.pc = "loop", socket.events = NoEvents
                 PROVE  cache.orders = Open /\ cache.held = exch.held
      BY DEF StreamConverges
    <2>1. Agrees(cache.orders) /\ AgreesHeld(cache.held)
      BY DEF StreamInv, CacheTrue
    <2>2. \A i \in Ids : i \in cache.orders <=> exch.orders[i] = "open"
      BY <2>1, NothingTold DEF Agrees
    <2>3. cache.held = exch.held
      BY <2>1, NothingTold DEF AgreesHeld
    <2>4. cache.orders \subseteq Ids
      BY DEF StreamInv, Types, CacheRecords
    <2> QED
      BY <2>2, <2>3, <2>4 DEF Open
  <1>3. ReadYourWrites
    BY DEF StreamInv, WritesKept, ReadYourWrites, is_freshOrders
  <1> QED
    BY <1>1, <1>2, <1>3 DEF FreshIsTrue

\* account_stream.rs: for any orders, any lifetimes of the cache and any number
\* of failures, the view kept from the user data stream is the exchange's once
\* the events under way are applied, and the engine finds its own writes in every
\* fresh view.
THEOREM CacheIsTrue == Spec => []FreshIsTrue
  BY StreamInvInit, StreamInvStep, InvImpliesFresh, PTL DEF Spec

-----------------------------------------------------------------------------
(***************************************************************************)
(* The paper simulator                                                     *)
(***************************************************************************)
USE PaperAssumption

(***************************************************************************)
(* Chains                                                                  *)
(***************************************************************************)
\* A set of natural numbers has a least element.
LEMMA LeastOf ==
  ASSUME NEW S \in SUBSET Nat, S # {}
  PROVE  \E i \in S : \A j \in S : i <= j
  <1>1. IsWellFoundedOn(OpToRel(<, Nat), Nat)
    BY NatLessThanWellFounded, Zenon
  <1>2. PICK i \in S : \A j \in S : ~(<<j, i>> \in OpToRel(<, Nat))
    BY <1>1, WFMin, Zenon
  <1>3. \A j \in S : ~(j < i)
    BY <1>2 DEF OpToRel
  <1> QED
    BY <1>3

\* What holds at the start and is passed on holds up to the end.
LEMMA UpTo ==
  ASSUME NEW N \in Nat, NEW G, 0 \in G, \A n \in 1..N : n - 1 \in G => n \in G
  PROVE  \A n \in 0..N : n \in G
  <1> DEFINE Bad == {n \in 0..N : n \notin G}
  <1> SUFFICES ASSUME Bad # {} PROVE FALSE
    OBVIOUS
  <1>1. PICK i \in Bad : \A j \in Bad : i <= j
    <2>1. Bad \in SUBSET Nat
      OBVIOUS
    <2> HIDE DEF Bad
    <2> QED
      BY <2>1, LeastOf
  <1>2. i \in 1..N /\ i - 1 \in 0..N /\ ~(i <= i - 1)
    BY <1>1
  <1>3. i - 1 \in G
    BY <1>1, <1>2
  <1> QED
    BY <1>1, <1>2, <1>3

\* The chain of values that the steps lead to, from base on.
IsChain(f, base, step, N) == f[0] = base /\ \A n \in 1..N : f[n] = step[n][f[n - 1]]

\* Steps that stay in D make a chain of N values.
LEMMA Iterates ==
  ASSUME NEW N \in Nat, NEW D, NEW base \in D, NEW step \in [1..N -> [D -> D]]
  PROVE  \E f \in [0..N -> D] : IsChain(f, base, step, N)
  <1> DEFINE Chains(m) == {f \in [0..m -> D] : f[0] = base /\ \A n \in 1..m : f[n] = step[n][f[n - 1]]}
             G == {m \in 0..N : Chains(m) # {}}
  <1>1. 0 \in G
    <2>1. [n \in 0..0 |-> base] \in Chains(0)
      OBVIOUS
    <2> QED
      BY <2>1
  <1>2. ASSUME NEW m \in 1..N, m - 1 \in G
        PROVE  m \in G
    <2>1. PICK f \in [0..(m - 1) -> D] : f[0] = base /\ \A n \in 1..(m - 1) : f[n] = step[n][f[n - 1]]
      BY <1>2
    <2> DEFINE g == [n \in 0..m |-> IF n = m THEN step[m][f[m - 1]] ELSE f[n]]
    <2>2. f[m - 1] \in D
      BY <2>1
    <2>3. step[m][f[m - 1]] \in D
      BY <2>2
    <2>4. g \in [0..m -> D]
      BY <2>1, <2>3
    <2>5. g[0] = base
      BY <2>1
    <2>6. ASSUME NEW n \in 1..m PROVE g[n] = step[n][g[n - 1]]
      <3>1. CASE n = m
        <4>1. g[m - 1] = f[m - 1] /\ g[m] = step[m][f[m - 1]]
          BY <2>1
        <4> HIDE DEF g
        <4> QED
          BY <3>1, <4>1
      <3>2. CASE n # m
        <4>1. g[n] = f[n] /\ g[n - 1] = f[n - 1] /\ n \in 1..(m - 1)
          BY <3>2
        <4> QED
          BY <4>1, <2>1
      <3> QED
        BY <3>1, <3>2
    <2>7. g \in Chains(m)
      BY <2>4, <2>5, <2>6
    <2>8. m \in 0..N
      OBVIOUS
    <2> HIDE DEF Chains
    <2> QED
      BY <2>7, <2>8
  <1> HIDE DEF G
  <1>3. \A m \in 0..N : m \in G
    BY <1>1, <1>2, UpTo, Zenon
  <1> QED
    BY <1>3 DEF G, IsChain

-----------------------------------------------------------------------------
(***************************************************************************)
(* What a desk is: typed, its ids minted, every id with one fate.          *)
(***************************************************************************)
Closeds == Seq(FinalStates)
Desks == [wallet : Int, pos : {<<>>} \cup {<<p>> : p \in PaperPositions}, orders : SUBSET PaperOrders,
          closed : Closeds, mark : Prices \cup {0}]
Books == [desk : Desks, paid : Int, held : Int]

Ends(closed) == {closed[k] : k \in DOMAIN closed}
IdsOf(S) == {o.id : o \in S}
Unique(S) == \A a, b \in S : a.id = b.id => a = b

Sound(d, m) ==
    /\ d \in Desks
    /\ Unique(d.orders) /\ Unique(Ends(d.closed)) /\ IdsOf(d.orders) \cap IdsOf(Ends(d.closed)) = {}
    /\ \A i \in IdsOf(d.orders) \cup IdsOf(Ends(d.closed)) : i <= m
    /\ \A o \in d.orders : ~Protective(o) => o.qty > 0

\* What is finished, entry by entry.
LEMMA EndsOf == ASSUME NEW c \in Closeds PROVE Ends(c) \subseteq FinalStates
  BY DEF Ends, Closeds

\* closed.set replaces what is known of an id, or adds it.
LEMMA FinishIs ==
  ASSUME NEW c \in Closeds, NEW id \in 1..MaxIds, NEW st \in {"FILLED", "CANCELED"}
  PROVE  /\ Finish(c, id, st) \in Closeds
         /\ Ends(Finish(c, id, st)) = {e \in Ends(c) : e.id # id} \cup {[id |-> id, status |-> st]}
  <1> DEFINE new == [id |-> id, status |-> st]
  <1>0. new \in FinalStates /\ new.id = id
    BY DEF FinalStates
  <1>1. CASE \E k \in DOMAIN c : c[k].id = id
    <2> DEFINE f == [k \in DOMAIN c |-> IF c[k].id = id THEN [c[k] EXCEPT !.status = st] ELSE c[k]]
    <2>1. Finish(c, id, st) = f
      BY <1>1 DEF Finish
    <2>2. ASSUME NEW k \in DOMAIN c, c[k].id = id
          PROVE  [c[k] EXCEPT !.status = st] = new
      <3>1. c[k] \in FinalStates
        BY DEF Closeds
      <3> QED
        BY <2>2, <3>1 DEF FinalStates
    <2>3. \A k \in DOMAIN c : c[k] \in FinalStates /\ f[k] = (IF c[k].id = id THEN new ELSE c[k])
      BY <2>2 DEF Closeds
    <2>4. DOMAIN f = 1..Len(c) /\ DOMAIN c = 1..Len(c) /\ Len(c) \in Nat
      BY DEF Closeds
    <2> HIDE DEF f, new
    <2>5. f \in [1..Len(c) -> FinalStates]
      <3>1. \A k \in 1..Len(c) : f[k] \in FinalStates
        BY <2>3, <2>4, <1>0
      <3>2. f = [k \in 1..Len(c) |-> f[k]]
        BY <2>4 DEF f
      <3> QED
        BY <3>1, <3>2
    <2>6. f \in Closeds
      BY <2>4, <2>5 DEF Closeds
    <2>7. Ends(f) = {e \in Ends(c) : e.id # id} \cup {new}
      BY <2>3, <2>4, <1>0, <1>1 DEF Ends
    <2> QED
      BY <2>1, <2>6, <2>7 DEF new
  <1>2. CASE \A k \in DOMAIN c : c[k].id # id
    <2>1. Finish(c, id, st) = Append(c, new)
      BY <1>2 DEF Finish
    <2> HIDE DEF new
    <2>2. Append(c, new) \in Closeds
      BY <1>0 DEF Closeds
    <2>3. /\ DOMAIN Append(c, new) = 1..(Len(c) + 1) /\ DOMAIN c = 1..Len(c) /\ Len(c) \in Nat
          /\ \A k \in 1..Len(c) : Append(c, new)[k] = c[k]
          /\ Append(c, new)[Len(c) + 1] = new
      BY <1>0 DEF Closeds
    <2>4. Ends(Append(c, new)) = Ends(c) \cup {new}
      <3>1. ASSUME NEW e \in Ends(Append(c, new)) PROVE e \in Ends(c) \cup {new}
        <4>1. PICK k \in 1..(Len(c) + 1) : e = Append(c, new)[k]
          BY <2>3 DEF Ends
        <4> QED
          BY <4>1, <2>3 DEF Ends
      <3>2. ASSUME NEW e \in Ends(c) \cup {new} PROVE e \in Ends(Append(c, new))
        <4>1. CASE e = new
          BY <4>1, <2>3 DEF Ends
        <4>2. CASE e \in Ends(c)
          <5>1. PICK k \in 1..Len(c) : e = c[k]
            BY <4>2, <2>3 DEF Ends
          <5> QED
            BY <5>1, <2>3 DEF Ends
        <4> QED
          BY <4>1, <4>2
      <3> QED
        BY <3>1, <3>2
    <2>5. \A e \in Ends(c) : e.id # id
      BY <1>2 DEF Ends
    <2> QED
      BY <2>1, <2>2, <2>4, <2>5 DEF new
  <1> QED
    BY <1>1, <1>2

\* A cancellation finishes exactly the orders it is given.
LEMMA CanceledIs ==
  ASSUME NEW c \in Closeds, NEW S \in SUBSET PaperOrders
  PROVE  /\ CanceledIn(c, S) \in Closeds
         /\ Ends(CanceledIn(c, S)) = {e \in Ends(c) : e.id \notin IdsOf(S)}
                                     \cup {[id |-> i, status |-> "CANCELED"] : i \in IdsOf(S)}
  <1> DEFINE link(n, v) == IF WithId(S, n) = {} THEN v ELSE Finish(v, n, "CANCELED")
             chain(f) == [n \in 0..MaxIds |-> IF n = 0 THEN c
                              ELSE IF WithId(S, n) = {} THEN f[n - 1] ELSE Finish(f[n - 1], n, "CANCELED")]
             upTo == CHOOSE f : f = chain(f)
  <1>1. MaxIds \in Nat
    OBVIOUS
  <1>2. PICK step \in [1..MaxIds -> [Closeds -> Closeds]] :
                \A n \in 1..MaxIds : \A v \in Closeds : step[n][v] = link(n, v)
    <2> DEFINE st == [n \in 1..MaxIds |-> [v \in Closeds |-> link(n, v)]]
    <2>1. \A n \in 1..MaxIds : \A v \in Closeds : link(n, v) \in Closeds
      BY FinishIs
    <2> HIDE DEF link
    <2>2. st \in [1..MaxIds -> [Closeds -> Closeds]]
      BY <2>1
    <2>3. \A n \in 1..MaxIds : \A v \in Closeds : st[n][v] = link(n, v)
      OBVIOUS
    <2> QED
      BY <2>2, <2>3
  <1>3. PICK f \in [0..MaxIds -> Closeds] : IsChain(f, c, step, MaxIds)
    BY <1>1, <1>2, Iterates, Zenon
  <1>4. f = chain(f)
    <2>1. ASSUME NEW n \in 1..MaxIds PROVE f[n] = link(n, f[n - 1])
      <3>1. f[n - 1] \in Closeds
        BY <1>3
      <3>0. f[n] = step[n][f[n - 1]]
        BY <1>3 DEF IsChain
      <3>2. step[n][f[n - 1]] = link(n, f[n - 1])
        BY <1>2, <3>1
      <3> QED
        BY <3>0, <3>2
    <2>2. \A n \in 0..MaxIds : f[n] = chain(f)[n]
      BY <2>1, <1>3 DEF IsChain
    <2>3. f = [n \in 0..MaxIds |-> f[n]]
      BY <1>3
    <2> QED
      BY <2>2, <2>3
  <1>5. upTo = chain(upTo)
    BY <1>4
  <1>6. CanceledIn(c, S) = upTo[MaxIds]
    BY DEF CanceledIn
  <1> HIDE DEF upTo
  <1> DEFINE Done(n) == {i \in IdsOf(S) : i <= n}
             Right(n) == /\ upTo[n] \in Closeds
                         /\ Ends(upTo[n]) = {e \in Ends(c) : e.id \notin Done(n)}
                                            \cup {[id |-> i, status |-> "CANCELED"] : i \in Done(n)}
             G == {n \in 0..MaxIds : Right(n)}
  <1>7. IdsOf(S) \subseteq 1..MaxIds
    BY DEF IdsOf, PaperOrders
  <1>0. upTo[0] = c /\ \A n \in 1..MaxIds : upTo[n] = link(n, upTo[n - 1])
    <2>1. \A n \in 0..MaxIds : upTo[n] = chain(upTo)[n]
      BY <1>5
    <2> QED
      BY <2>1
  <1>8. 0 \in G
    <2>1. upTo[0] = c /\ 0 \in 0..MaxIds
      BY <1>0
    <2>2. Done(0) = {}
      BY <1>7
    <2> HIDE DEF Done
    <2>3. Right(0)
      BY <2>1, <2>2
    <2> QED
      BY <2>1, <2>3
  <1>9. ASSUME NEW n \in 1..MaxIds, n - 1 \in G PROVE n \in G
    <2>1. upTo[n] = link(n, upTo[n - 1])
      BY <1>0
    <2>2. Right(n - 1) /\ n \in 0..MaxIds
      <3> HIDE DEF Right
      <3> QED
        BY <1>9
    <2>3. CASE WithId(S, n) = {}
      <3>1. n \notin IdsOf(S)
        BY <2>3 DEF WithId, IdsOf
      <3>2. Done(n) = Done(n - 1)
        BY <3>1, <1>7
      <3>3. upTo[n] = upTo[n - 1]
        BY <2>1, <2>3
      <3> HIDE DEF Done
      <3> QED
        BY <3>2, <3>3, <2>2, Zenon
    <2>4. CASE WithId(S, n) # {}
      <3>1. n \in IdsOf(S)
        BY <2>4 DEF WithId, IdsOf
      <3>2. Done(n) = Done(n - 1) \cup {n} /\ n \notin Done(n - 1)
        BY <3>1, <1>7
      <3>3. upTo[n] = Finish(upTo[n - 1], n, "CANCELED")
        BY <2>1, <2>4
      <3> HIDE DEF Done
      <3>4. /\ upTo[n] \in Closeds
            /\ Ends(upTo[n]) = {e \in Ends(upTo[n - 1]) : e.id # n} \cup {[id |-> n, status |-> "CANCELED"]}
        <4>1. upTo[n - 1] \in Closeds
          BY <2>2
        <4> QED
          BY <3>3, <4>1, FinishIs
      <3>5. {e \in Ends(upTo[n - 1]) : e.id # n} = {e \in Ends(c) : e.id \notin Done(n)}
                \cup {[id |-> i, status |-> "CANCELED"] : i \in Done(n - 1)}
        BY <2>2, <3>2
      <3>6. Right(n)
        BY <3>2, <3>4, <3>5
      <3> QED
        BY <3>6, <2>2
    <2> QED
      BY <2>3, <2>4
  <1> HIDE DEF G
  <1>10. \A n \in 0..MaxIds : n \in G
    BY <1>1, <1>8, <1>9, UpTo, Zenon
  <1>11. Done(MaxIds) = IdsOf(S)
    BY <1>7
  <1> QED
    BY <1>6, <1>10, <1>11 DEF G

\* A snapshot keeps the latest finished orders, and one of a snapshot keeps all.
LEMMA KeptIs ==
  ASSUME NEW c \in Closeds
  PROVE  Kept(c) \in Closeds /\ Ends(Kept(c)) \subseteq Ends(c) /\ Kept(Kept(c)) = Kept(c)
  <1> DEFINE from == IF Len(c) > CLOSED_KEEP THEN Len(c) - CLOSED_KEEP + 1 ELSE 1
             n == Len(c) - from + 1
  <1>1. Len(c) \in Nat /\ from \in Nat \ {0} /\ from <= Len(c) + 1 /\ n \in Nat /\ n <= CLOSED_KEEP
    BY DEF Closeds
  <1>2. Kept(c) = SubSeq(c, from, Len(c))
    BY DEF Kept
  <1>3. /\ SubSeq(c, from, Len(c)) \in Closeds /\ Len(SubSeq(c, from, Len(c))) = n
        /\ \A i \in 1..n : SubSeq(c, from, Len(c))[i] = c[from + i - 1]
    <2>1. from \in 1..(Len(c) + 1) /\ Len(c) \in from - 1..Len(c)
      BY <1>1
    <2> HIDE DEF from
    <2> QED
      BY <2>1, SubSeqProperties DEF Closeds
  <1> DEFINE s == SubSeq(c, from, Len(c))
  <1> HIDE DEF s, n
  <1>4. Ends(s) \subseteq Ends(c)
    <2>1. DOMAIN s = 1..n /\ DOMAIN c = 1..Len(c)
      <3>1. s \in Closeds /\ Len(s) = n
        BY <1>3 DEF s
      <3> QED
        BY <3>1 DEF Closeds
    <2>2. \A i \in 1..n : from + i - 1 \in 1..Len(c)
      BY <1>1 DEF n
    <2> QED
      BY <2>1, <2>2, <1>3 DEF Ends, s
  <1>5. Kept(s) = s
    <2>1. s \in Closeds /\ Len(s) = n
      BY <1>3 DEF s
    <2>2. Kept(s) = SubSeq(s, 1, Len(s))
      BY <1>1, <2>1 DEF Kept
    <2>3. /\ SubSeq(s, 1, Len(s)) \in Closeds /\ Len(SubSeq(s, 1, Len(s))) = Len(s)
          /\ \A i \in 1..Len(s) : SubSeq(s, 1, Len(s))[i] = s[i]
      BY <2>1, SubSeqProperties DEF Closeds
    <2> QED
      BY <2>1, <2>2, <2>3, SeqEqual DEF Closeds
  <1> QED
    BY <1>2, <1>3, <1>4, <1>5 DEF s

-----------------------------------------------------------------------------
(***************************************************************************)
(* What a fill, a close and a cancellation make of a desk                  *)
(***************************************************************************)
\* The books balance: the wallet, with the position at cost, is the money moved.
Balanced(d, money, lots) ==
    IF d.pos = <<>> THEN d.wallet = money /\ lots = 0
    ELSE d.wallet = money + Sign(d.pos[1].side) * d.pos[1].cost /\ lots = Sign(d.pos[1].side) * d.pos[1].qty

\* Books that balance do so when the desk becomes e and a trade is reported.
StayBalanced(d, e, side, qty, price) ==
    \A money, lots \in Int :
        Balanced(d, money, lots) => Balanced(e, PaidWith(money, side, qty, price), HeldWith(lots, side, qty))

\* One side at a time, and no reduce-only order without a position.
OnSide(d, side) ==
    /\ \A o \in d.orders : o.side = side /\ (Protective(o) => d.pos # <<>>)
    /\ d.pos # <<>> => d.pos[1].side = side
Tidy(b, side) == Balanced(b.desk, b.paid, b.held) /\ OnSide(b.desk, side)

\* Whole shares of a cost, and all of it.
LEMMA Division ==
  ASSUME NEW a \in Int, NEW b \in Nat \ {0}
  PROVE  a \div b \in Int /\ (a * b) \div b = a
  <1>1. a \div b \in Int
    OBVIOUS
  <1> DEFINE c == a * b
             k == c \div b
  <1>2. c \in Int /\ k \in Int /\ b * k <= c /\ c < b * k + b
    OBVIOUS
  <1>3. ASSUME k < a PROVE FALSE
    <2>1. PICK d \in Nat : a = k + 1 + d
      <3>1. a - k - 1 \in Nat /\ a = k + 1 + (a - k - 1)
        BY <1>2, <1>3
      <3> QED
        BY <3>1
    <2>2. a * b = b * k + b + d * b /\ d * b >= 0
      BY <2>1, <1>2
    <2> QED
      BY <2>2, <1>2
  <1>4. ASSUME k > a PROVE FALSE
    <2>1. PICK d \in Nat : k = a + 1 + d
      <3>1. k - a - 1 \in Nat /\ k = a + 1 + (k - a - 1)
        BY <1>2, <1>4
      <3> QED
        BY <3>1
    <2>2. b * k = a * b + b + d * b /\ d * b >= 0
      BY <2>1, <1>2
    <2> QED
      BY <2>2, <1>2
  <1> QED
    BY <1>1, <1>2, <1>3, <1>4

\* A fee is a whole amount.
LEMMA FeeIs == ASSUME NEW price \in Nat, NEW qty \in Nat PROVE Fee(price, qty) \in Int
  <1>1. price * qty \in Int
    OBVIOUS
  <1> QED
    BY <1>1, Division DEF Fee

\* The position of a desk, if there is one.
LEMMA PosIs ==
  ASSUME NEW d \in Desks, d.pos # <<>>
  PROVE  d.pos = <<d.pos[1]>> /\ d.pos[1] \in PaperPositions
  BY DEF Desks

\* A sum of money moved is an amount.
LEMMA MoneyIs ==
  ASSUME NEW money \in Int, NEW lots \in Int, NEW side \in Directions, NEW qty \in Nat, NEW price \in Nat
  PROVE  PaidWith(money, side, qty, price) \in Int /\ HeldWith(lots, side, qty) \in Int
  <1>1. price * qty \in Int /\ Fee(price, qty) \in Int
    BY FeeIs
  <1> QED
    BY <1>1 DEF PaidWith, HeldWith, Sign

\* An order of the desk finishes: it is on record once and rests no longer.
LEMMA FinishedIs ==
  ASSUME NEW m, NEW d, Sound(d, m), NEW S \in SUBSET d.orders, NEW id \in 1..MaxIds, id <= m, id \notin IdsOf(S),
         NEW st \in {"FILLED", "CANCELED"}
  PROVE  Sound([d EXCEPT !.closed = Finish(@, id, st), !.orders = S], m)
  <1> DEFINE e == [d EXCEPT !.closed = Finish(@, id, st), !.orders = S]
  <1>1. d \in Desks /\ d.closed \in Closeds
    BY DEF Sound, Desks
  <1>2. /\ Finish(d.closed, id, st) \in Closeds
        /\ Ends(Finish(d.closed, id, st)) = {a \in Ends(d.closed) : a.id # id} \cup {[id |-> id, status |-> st]}
    BY <1>1, FinishIs
  <1>3. e \in Desks /\ e.orders = S /\ e.closed = Finish(d.closed, id, st)
    BY <1>1, <1>2 DEF Desks
  <1>4. Unique(S)
    BY DEF Sound, Unique
  <1>5. Unique(Ends(e.closed))
    BY <1>2, <1>3 DEF Sound, Unique
  <1>6. IdsOf(Ends(e.closed)) \subseteq IdsOf(Ends(d.closed)) \cup {id}
    BY <1>2, <1>3 DEF IdsOf
  <1>7. IdsOf(S) \subseteq IdsOf(d.orders)
    BY DEF IdsOf
  <1> QED
    BY <1>3, <1>4, <1>5, <1>6, <1>7 DEF Sound

\* Orders that leave as canceled are on record, and the rest of the desk stays.
LEMMA CancelIs ==
  ASSUME NEW m, NEW d, Sound(d, m), NEW S \in SUBSET d.orders
  PROVE  /\ Sound(CancelThose(d, S), m)
         /\ CancelThose(d, S).orders = d.orders \ S
         /\ CancelThose(d, S).pos = d.pos /\ CancelThose(d, S).wallet = d.wallet
  <1> DEFINE e == CancelThose(d, S)
  <1>1. d \in Desks /\ d.closed \in Closeds /\ S \in SUBSET PaperOrders
    BY DEF Sound, Desks
  <1>2. /\ CanceledIn(d.closed, S) \in Closeds
        /\ Ends(CanceledIn(d.closed, S)) = {a \in Ends(d.closed) : a.id \notin IdsOf(S)}
                                           \cup {[id |-> i, status |-> "CANCELED"] : i \in IdsOf(S)}
    BY <1>1, CanceledIs
  <1>3. e \in Desks /\ e.orders = d.orders \ S /\ e.closed = CanceledIn(d.closed, S) /\ e.pos = d.pos /\ e.wallet = d.wallet
    BY <1>1, <1>2 DEF Desks, CancelThose
  <1> HIDE DEF e
  <1>4. Unique(e.orders) /\ IdsOf(e.orders) \subseteq IdsOf(d.orders) \ IdsOf(S)
    BY <1>3 DEF Sound, Unique, IdsOf
  <1>5. Unique(Ends(e.closed))
    BY <1>2, <1>3 DEF Sound, Unique
  <1>6. IdsOf(Ends(e.closed)) \subseteq IdsOf(Ends(d.closed)) \cup IdsOf(S) /\ IdsOf(S) \subseteq IdsOf(d.orders)
    BY <1>2, <1>3 DEF IdsOf
  <1>7. \A o \in e.orders : ~Protective(o) => o.qty > 0
    BY <1>3 DEF Sound
  <1>8. Sound(e, m)
    BY <1>3, <1>4, <1>5, <1>6, <1>7 DEF Sound
  <1> QED
    BY <1>8, <1>3 DEF e

\* The sign of a side distributes over amounts.
LEMMA SignIs ==
  ASSUME NEW side \in Directions, NEW a \in Int, NEW b \in Int
  PROVE  /\ Sign(side) * a \in Int /\ Sign(side) * b \in Int
         /\ Sign(side) * (a + b) = Sign(side) * a + Sign(side) * b
         /\ Sign(side) * (a - b) = Sign(side) * a - Sign(side) * b
  <1>1. Sign(side) \in {1, -1}
    BY DEF Sign
  <1>2. CASE Sign(side) = 1
    BY <1>2
  <1>3. CASE Sign(side) = -1
    BY <1>3
  <1> QED
    BY <1>1, <1>2, <1>3

\* closeAt takes what it closes off the books, and with the position its
\* reduce-only orders.
LEMMA CloseIs ==
  ASSUME NEW m, NEW d, Sound(d, m), d.pos # <<>>, NEW price \in Nat, NEW qty \in Nat \ {0}
  PROVE  /\ AtMost(d, qty) \in Nat \ {0} /\ (qty = d.pos[1].qty => AtMost(d, qty) = d.pos[1].qty)
         /\ Sound(closeAt(d, price, qty), m)
         /\ closeAt(d, price, qty).orders \subseteq d.orders
         /\ closeAt(d, price, qty).pos = <<>> => \A o \in closeAt(d, price, qty).orders : ~Protective(o)
         /\ closeAt(d, price, qty).pos # <<>> => closeAt(d, price, qty).pos[1].side = d.pos[1].side
         /\ AtMost(d, qty) = d.pos[1].qty => closeAt(d, price, qty).pos = <<>>
         /\ StayBalanced(d, closeAt(d, price, qty), Against(d.pos[1].side), AtMost(d, qty), price)
  <1> DEFINE p == d.pos[1]
             q == AtMost(d, qty)
             fee == Fee(price, q)
             part == (p.cost * q) \div p.qty
             w == d.wallet + Sign(p.side) * (price * q - part) - fee
             left == IF q = p.qty THEN <<>> ELSE <<[p EXCEPT !.qty = @ - q, !.cost = @ - part]>>
             r == Realized(d, price, q, fee)
  <1>1. d \in Desks /\ p \in PaperPositions /\ d.wallet \in Int
    BY PosIs DEF Sound, Desks
  <1>2. p.side \in Directions /\ p.qty \in Nat \ {0} /\ p.cost \in Int
    BY <1>1 DEF PaperPositions
  <1>3. q \in Nat \ {0} /\ q <= p.qty /\ (qty = p.qty => q = p.qty)
    BY <1>2 DEF AtMost
  <1>4. price * q \in Int /\ fee \in Int /\ part \in Int /\ (q = p.qty => part = p.cost)
    <2>1. p.cost * q \in Int /\ price * q \in Int
      BY <1>2, <1>3
    <2> QED
      BY <2>1, <1>2, <1>3, FeeIs, Division
  <1> HIDE DEF fee, part, q
  <1>5. w \in Int
    BY <1>1, <1>2, <1>4 DEF Sign
  <1> DEFINE np == [p EXCEPT !.qty = @ - q, !.cost = @ - part]
  <1> HIDE DEF p
  <1>6. q # p.qty => np \in PaperPositions /\ np.side = p.side /\ np.qty = p.qty - q /\ np.cost = p.cost - part
    <2> SUFFICES ASSUME q # p.qty
                 PROVE  np \in PaperPositions /\ np.side = p.side /\ np.qty = p.qty - q /\ np.cost = p.cost - part
      OBVIOUS
    <2>1. p.qty - q \in Nat \ {0} /\ p.cost - part \in Int
      BY <1>2, <1>3, <1>4
    <2> QED
      BY <1>1, <2>1 DEF PaperPositions
  <1>7. /\ q = p.qty => left = <<>>
        /\ q # p.qty => left # <<>> /\ left[1] = np /\ left = <<np>>
    OBVIOUS
  <1>8. r = [d EXCEPT !.wallet = w, !.pos = left]
    BY DEF Realized, part, p
  <1> HIDE DEF w, left, np, r, p
  <1>9. r \in Desks /\ r.orders = d.orders /\ r.closed = d.closed /\ r.wallet = w /\ r.pos = left
    BY <1>1, <1>5, <1>6, <1>7, <1>8 DEF Desks
  <1>10. Sound(r, m)
    BY <1>9 DEF Sound
  <1> DEFINE e == closeAt(d, price, qty)
             P == {o \in r.orders : Protective(o)}
  <1>11. e = IF r.pos = <<>> THEN CancelThose(r, P) ELSE r
    BY DEF closeAt, r, q, fee
  <1>12. /\ Sound(CancelThose(r, P), m) /\ CancelThose(r, P).orders = r.orders \ P
         /\ CancelThose(r, P).pos = r.pos /\ CancelThose(r, P).wallet = r.wallet
    BY <1>10, CancelIs
  <1> HIDE DEF e
  <1>13. Sound(e, m) /\ e.orders \subseteq d.orders /\ e.pos = left /\ e.wallet = w
         /\ (e.pos = <<>> => \A o \in e.orders : ~Protective(o))
    BY <1>9, <1>10, <1>11, <1>12
  <1>14. ASSUME NEW money \in Int, NEW lots \in Int, Balanced(d, money, lots)
         PROVE  Balanced(e, PaidWith(money, Against(p.side), q, price), HeldWith(lots, Against(p.side), q))
    <2>1. d.wallet = money + Sign(p.side) * p.cost /\ lots = Sign(p.side) * p.qty
      BY <1>14 DEF Balanced, p
    <2>2. PaidWith(money, Against(p.side), q, price) = money + Sign(p.side) * (price * q) - fee
      BY <1>2, <1>4 DEF PaidWith, Against, Sign, Directions, fee
    <2>3. HeldWith(lots, Against(p.side), q) = lots - Sign(p.side) * q
      BY <1>2, <1>3, <2>1 DEF HeldWith, Against, Sign, Directions
    <2>4. w = money + Sign(p.side) * (price * q) - fee + Sign(p.side) * (p.cost - part)
      <3> DEFINE v == price * q
      <3>1. v \in Int /\ v - part \in Int /\ p.cost - part \in Int /\ p.cost \in Int
        BY <1>2, <1>4
      <3>2. w = d.wallet + Sign(p.side) * (v - part) - fee
        BY DEF w
      <3> HIDE DEF v
      <3>3. /\ Sign(p.side) * (v - part) = Sign(p.side) * v - Sign(p.side) * part
            /\ Sign(p.side) * (p.cost - part) = Sign(p.side) * p.cost - Sign(p.side) * part
            /\ Sign(p.side) * v \in Int /\ Sign(p.side) * part \in Int /\ Sign(p.side) * p.cost \in Int
        <4>1. /\ Sign(p.side) * v \in Int /\ Sign(p.side) * part \in Int
              /\ Sign(p.side) * (v - part) = Sign(p.side) * v - Sign(p.side) * part
          BY <3>1, <1>2, <1>4, SignIs
        <4>2. /\ Sign(p.side) * p.cost \in Int
              /\ Sign(p.side) * (p.cost - part) = Sign(p.side) * p.cost - Sign(p.side) * part
          BY <1>2, <1>4, SignIs, Zenon
        <4> QED
          BY <4>1, <4>2
      <3>5. w = money + Sign(p.side) * v - fee + Sign(p.side) * (p.cost - part)
        BY <3>2, <3>3, <2>1, <1>4
      <3> QED
        BY <3>5 DEF v
    <2>5. CASE q = p.qty
      <3>1. e.pos = <<>> /\ part = p.cost
        BY <2>5, <1>4, <1>7, <1>13
      <3>2. e.wallet = PaidWith(money, Against(p.side), q, price)
        BY <2>2, <2>4, <3>1, <1>2, <1>4, <1>13 DEF Sign
      <3>3. HeldWith(lots, Against(p.side), q) = 0
        BY <2>1, <2>3, <2>5, <1>2, <1>3 DEF Sign
      <3> QED
        BY <3>1, <3>2, <3>3 DEF Balanced
    <2>6. CASE q # p.qty
      <3>1. e.pos # <<>> /\ e.pos[1].side = p.side /\ e.pos[1].qty = p.qty - q /\ e.pos[1].cost = p.cost - part
        BY <2>6, <1>6, <1>7, <1>13
      <3>2. HeldWith(lots, Against(p.side), q) = Sign(p.side) * (p.qty - q)
        BY <2>1, <2>3, <1>2, <1>3 DEF Sign
      <3> QED
        BY <3>1, <3>2, <2>2, <2>4, <1>13 DEF Balanced
    <2> QED
      BY <2>5, <2>6
  <1>15. (e.pos # <<>> => e.pos[1].side = p.side) /\ (q = p.qty => e.pos = <<>>)
    BY <1>6, <1>7, <1>13
  <1> QED
    BY <1>3, <1>13, <1>14, <1>15 DEF e, p, q, StayBalanced

\* A payment leaves the rest of the desk.
LEMMA WalletMoves ==
  ASSUME NEW d \in Desks, NEW w \in Int
  PROVE  LET e == [d EXCEPT !.wallet = w]
         IN  e \in Desks /\ e.wallet = w /\ e.pos = d.pos /\ e.orders = d.orders /\ e.closed = d.closed
  BY DEF Desks

\* A fill opens or grows the position on its side; against a position it
\* reduces it.
LEMMA FillIs ==
  ASSUME NEW m, NEW d, Sound(d, m), NEW side \in Directions, NEW qty \in Nat \ {0}, NEW price \in Nat
  PROVE  /\ Sound(fill(d, side, qty, price), m) /\ fill(d, side, qty, price).orders \subseteq d.orders
         /\ d.pos = <<>> \/ d.pos[1].side = side =>
               /\ fill(d, side, qty, price).orders = d.orders
               /\ fill(d, side, qty, price).pos # <<>> /\ fill(d, side, qty, price).pos[1].side = side
               /\ StayBalanced(d, fill(d, side, qty, price), side, qty, price)
  <1> DEFINE e == fill(d, side, qty, price)
             fee == Fee(price, qty)
             charged == [d EXCEPT !.wallet = @ - fee]
             v == price * qty
  <1>1. d \in Desks /\ d.wallet \in Int
    BY DEF Sound, Desks
  <1>2. v \in Int /\ fee \in Int
    BY FeeIs
  <1> HIDE DEF fee, v
  <1>3. /\ charged \in Desks /\ charged.wallet = d.wallet - fee /\ charged.pos = d.pos
        /\ charged.orders = d.orders /\ charged.closed = d.closed
    <2>1. d \in Desks /\ d.wallet - fee \in Int
      BY <1>1, <1>2
    <2> QED
      BY <2>1, WalletMoves
  <1>4. Sound(charged, m)
    BY <1>3 DEF Sound
  <1> DEFINE at(q, c) == [charged EXCEPT !.pos = <<[side |-> side, qty |-> q, cost |-> c]>>]
  <1>5. ASSUME NEW q \in Nat \ {0}, NEW c \in Int
        PROVE  /\ Sound(at(q, c), m) /\ at(q, c).orders = d.orders /\ at(q, c).wallet = d.wallet - fee
               /\ at(q, c).pos # <<>> /\ at(q, c).pos[1].side = side /\ at(q, c).pos[1].qty = q /\ at(q, c).pos[1].cost = c
    <2> DEFINE np == [side |-> side, qty |-> q, cost |-> c]
               n == [charged EXCEPT !.pos = <<np>>]
    <2>1. np \in PaperPositions /\ np.side = side /\ np.qty = q /\ np.cost = c
      BY DEF PaperPositions
    <2> HIDE DEF np, charged
    <2>2. /\ n \in Desks /\ n.orders = d.orders /\ n.closed = d.closed /\ n.wallet = d.wallet - fee
          /\ n.pos = <<np>>
      BY <1>3, <2>1 DEF Desks
    <2>3. Sound(n, m)
      BY <2>2 DEF Sound
    <2> QED
      BY <2>1, <2>2, <2>3 DEF np
  <1>6. CASE d.pos = <<>>
    <2>1. e = at(qty, v)
      BY <1>6 DEF fill, v, fee
    <2> HIDE DEF e, at
    <2>2. ASSUME NEW money \in Int, NEW lots \in Int, Balanced(d, money, lots)
          PROVE  Balanced(e, PaidWith(money, side, qty, price), HeldWith(lots, side, qty))
      <3>1. d.wallet = money /\ lots = 0
        BY <2>2, <1>6 DEF Balanced
      <3>2. /\ e.pos # <<>> /\ e.pos[1].side = side /\ e.pos[1].qty = qty /\ e.pos[1].cost = v
            /\ e.wallet = d.wallet - fee
        BY <2>1, <1>2, <1>5
      <3>3. /\ PaidWith(money, side, qty, price) = money - Sign(side) * v - fee
            /\ HeldWith(lots, side, qty) = lots + Sign(side) * qty
        BY DEF PaidWith, HeldWith, v, fee
      <3> QED
        BY <3>1, <3>2, <3>3, <1>2 DEF Balanced, Sign
    <2>3. Sound(e, m) /\ e.orders = d.orders /\ e.pos # <<>> /\ e.pos[1].side = side
      BY <2>1, <1>2, <1>5
    <2> QED
      BY <2>2, <2>3 DEF e, StayBalanced
  <1>7. CASE d.pos # <<>> /\ d.pos[1].side = side
    <2> DEFINE p == d.pos[1]
    <2>0. p.qty \in Nat \ {0} /\ p.cost \in Int
      BY <1>1, <1>7, PosIs DEF PaperPositions
    <2>1. e = at(p.qty + qty, p.cost + v)
      BY <1>7 DEF fill, v, fee
    <2>4. p.qty + qty \in Nat \ {0} /\ p.cost + v \in Int
      BY <2>0, <1>2
    <2> HIDE DEF e, at
    <2>2. ASSUME NEW money \in Int, NEW lots \in Int, Balanced(d, money, lots)
          PROVE  Balanced(e, PaidWith(money, side, qty, price), HeldWith(lots, side, qty))
      <3>1. d.wallet = money + Sign(side) * p.cost /\ lots = Sign(side) * p.qty
        BY <2>2, <1>7 DEF Balanced
      <3>2. /\ e.pos # <<>> /\ e.pos[1].side = side /\ e.pos[1].qty = p.qty + qty /\ e.pos[1].cost = p.cost + v
            /\ e.wallet = d.wallet - fee
        BY <2>1, <2>4, <1>5
      <3>3. /\ PaidWith(money, side, qty, price) = money - Sign(side) * v - fee
            /\ HeldWith(lots, side, qty) = lots + Sign(side) * qty
        BY DEF PaidWith, HeldWith, v, fee
      <3> HIDE DEF p
      <3>4. /\ e.wallet = money - Sign(side) * v - fee + Sign(side) * (p.cost + v)
            /\ lots + Sign(side) * qty = Sign(side) * (p.qty + qty)
        <4>1. /\ Sign(side) * (p.cost + v) = Sign(side) * p.cost + Sign(side) * v
              /\ Sign(side) * p.cost \in Int /\ Sign(side) * v \in Int
          BY <2>0, <1>2, SignIs
        <4>2. Sign(side) * (p.qty + qty) = Sign(side) * p.qty + Sign(side) * qty
          <5>1. p.qty \in Int /\ qty \in Int
            BY <2>0
          <5> QED
            BY <5>1, SignIs, Zenon
        <4> QED
          BY <4>1, <4>2, <3>1, <3>2, <1>2
      <3> QED
        BY <3>2, <3>3, <3>4 DEF Balanced
    <2>3. Sound(e, m) /\ e.orders = d.orders /\ e.pos # <<>> /\ e.pos[1].side = side
      BY <2>1, <2>4, <1>5
    <2> QED
      BY <2>2, <2>3 DEF e, StayBalanced
  <1>8. CASE d.pos # <<>> /\ d.pos[1].side # side
    <2>1. e = closeAt(charged, price, qty)
      BY <1>8 DEF fill, fee
    <2> HIDE DEF charged, e
    <2>2. Sound(closeAt(charged, price, qty), m) /\ closeAt(charged, price, qty).orders \subseteq charged.orders
      BY <1>3, <1>4, <1>8, CloseIs
    <2>3. Sound(e, m) /\ e.orders \subseteq d.orders
      BY <2>1, <2>2, <1>3
    <2> QED
      BY <2>3, <1>8 DEF e
  <1> QED
    BY <1>6, <1>7, <1>8

-----------------------------------------------------------------------------
(***************************************************************************)
(* What a tick makes of the books                                          *)
(***************************************************************************)
SoundBooks(b, m) == b \in Books /\ Sound(b.desk, m)
Limits(m) == {o \in PaperOrders : ~Protective(o) /\ o.qty > 0 /\ o.id <= m}

\* Prices are amounts.
LEMMA OrderIs ==
  ASSUME NEW o \in PaperOrders
  PROVE  o.id \in 1..MaxIds /\ o.side \in Directions /\ o.qty \in Nat /\ o.price \in Nat /\ o.price \in Prices
  BY DEF PaperOrders

\* A resting entry that fills at its price is finished, and the books balance.
LEMMA FilledIs ==
  ASSUME NEW m, NEW b, SoundBooks(b, m), NEW o \in Limits(m)
  PROVE  /\ SoundBooks(FilledAtItsPrice(b, o), m)
         /\ Tidy(b, o.side) => Tidy(FilledAtItsPrice(b, o), o.side)
  <1> DEFINE d == fill(b.desk, o.side, o.qty, o.price)
             S == d.orders \ WithId(d.orders, o.id)
             e == [d EXCEPT !.closed = Finish(@, o.id, "FILLED"), !.orders = S]
             money == PaidWith(b.paid, o.side, o.qty, o.price)
             lots == HeldWith(b.held, o.side, o.qty)
             c == FilledAtItsPrice(b, o)
  <1>1. /\ o.id \in 1..MaxIds /\ o.side \in Directions /\ o.qty \in Nat \ {0} /\ o.price \in Nat /\ o.id <= m
    BY OrderIs DEF Limits
  <1>2. Sound(b.desk, m) /\ b.paid \in Int /\ b.held \in Int
    BY DEF SoundBooks, Books
  <1> HIDE DEF money, lots
  <1>3. /\ Sound(d, m)
        /\ b.desk.pos = <<>> \/ b.desk.pos[1].side = o.side =>
             /\ d.orders = b.desk.orders /\ d.pos # <<>> /\ d.pos[1].side = o.side
             /\ Balanced(b.desk, b.paid, b.held) => Balanced(d, money, lots)
    <2>1. Sound(d, m)
      BY <1>1, <1>2, FillIs
    <2>2. ASSUME b.desk.pos = <<>> \/ b.desk.pos[1].side = o.side
          PROVE  /\ d.orders = b.desk.orders /\ d.pos # <<>> /\ d.pos[1].side = o.side
                 /\ StayBalanced(b.desk, d, o.side, o.qty, o.price)
      <3>1. o.side \in Directions /\ o.qty \in Nat \ {0} /\ o.price \in Nat
        BY <1>1
      <3> HIDE DEF d
      <3>2. /\ fill(b.desk, o.side, o.qty, o.price).orders = b.desk.orders
            /\ fill(b.desk, o.side, o.qty, o.price).pos # <<>>
            /\ fill(b.desk, o.side, o.qty, o.price).pos[1].side = o.side
        BY <1>2, <3>1, <2>2, FillIs
      <3>3. StayBalanced(b.desk, fill(b.desk, o.side, o.qty, o.price), o.side, o.qty, o.price)
        BY <1>2, <3>1, <2>2, FillIs
      <3> QED
        BY <3>2, <3>3 DEF d
    <2> QED
      BY <2>1, <2>2, <1>2 DEF money, lots, StayBalanced
  <1>4. c.desk = e /\ c.paid = money /\ c.held = lots /\ c = [desk |-> e, paid |-> money, held |-> lots]
    BY DEF FilledAtItsPrice, money, lots
  <1>5. money \in Int /\ lots \in Int
    BY <1>1, <1>2, MoneyIs DEF money, lots
  <1> HIDE DEF d, c
  <1>6. S \subseteq d.orders /\ o.id \notin IdsOf(S)
    BY DEF WithId, IdsOf
  <1>7. Sound(e, m)
    <2> HIDE DEF S
    <2> QED
      BY <1>1, <1>3, <1>6, FinishedIs
  <1>8. e.pos = d.pos /\ e.wallet = d.wallet /\ e.orders = S
    BY <1>3 DEF Sound, Desks
  <1> HIDE DEF e
  <1>9. SoundBooks(c, m)
    BY <1>4, <1>5, <1>7 DEF SoundBooks, Books, Sound
  <1>10. ASSUME Tidy(b, o.side) PROVE Tidy(c, o.side)
    <2>1. /\ d.orders = b.desk.orders /\ d.pos # <<>> /\ d.pos[1].side = o.side
          /\ Balanced(d, money, lots)
      BY <1>3, <1>10 DEF Tidy, OnSide
    <2>2. Balanced(e, money, lots)
      BY <2>1, <1>8 DEF Balanced
    <2>3. OnSide(e, o.side)
      BY <2>1, <1>6, <1>8, <1>10 DEF OnSide, Tidy
    <2> QED
      BY <2>2, <2>3, <1>4 DEF Tidy
  <1> QED
    BY <1>9, <1>10 DEF c

\* The entries a mark crosses fill one after the other.
LEMMA EnteredIs ==
  ASSUME NEW m, NEW b, SoundBooks(b, m), NEW S \in SUBSET Limits(m)
  PROVE  /\ SoundBooks(Entered(b, S), m)
         /\ \A side \in Directions : Tidy(b, side) /\ (\A o \in S : o.side = side) => Tidy(Entered(b, S), side)
  <1> DEFINE Good == {v \in Books : Sound(v.desk, m)}
             First(n) == CHOOSE o \in WithId(S, n) : TRUE
             link(n, v) == IF WithId(S, n) = {} THEN v ELSE FilledAtItsPrice(v, First(n))
             chain(f) == [n \in 0..MaxIds |-> IF n = 0 THEN b
                              ELSE IF WithId(S, n) = {} THEN f[n - 1] ELSE FilledAtItsPrice(f[n - 1], First(n))]
             upTo == CHOOSE f : f = chain(f)
  <1>1. MaxIds \in Nat /\ b \in Good
    BY DEF SoundBooks
  <1>2. ASSUME NEW n, WithId(S, n) # {} PROVE First(n) \in S
    BY <1>2 DEF WithId
  <1>3. ASSUME NEW n, NEW v \in Good PROVE link(n, v) \in Good
    <2>1. CASE WithId(S, n) = {}
      BY <2>1
    <2>2. CASE WithId(S, n) # {}
      <3>1. First(n) \in Limits(m)
        BY <1>2, <2>2
      <3>2. SoundBooks(v, m)
        BY DEF SoundBooks
      <3> HIDE DEF First
      <3>3. SoundBooks(FilledAtItsPrice(v, First(n)), m)
        BY <3>1, <3>2, FilledIs
      <3> QED
        BY <3>3, <2>2 DEF SoundBooks
    <2> QED
      BY <2>1, <2>2
  <1> HIDE DEF Good, First
  <1>4. PICK step \in [1..MaxIds -> [Good -> Good]] : \A n \in 1..MaxIds : \A v \in Good : step[n][v] = link(n, v)
    <2> DEFINE st == [n \in 1..MaxIds |-> [v \in Good |-> link(n, v)]]
    <2> HIDE DEF link
    <2>1. st \in [1..MaxIds -> [Good -> Good]]
      BY <1>3
    <2>2. \A n \in 1..MaxIds : \A v \in Good : st[n][v] = link(n, v)
      OBVIOUS
    <2> QED
      BY <2>1, <2>2
  <1>5. PICK f \in [0..MaxIds -> Good] : IsChain(f, b, step, MaxIds)
    BY <1>1, <1>4, Iterates, Zenon
  <1>6. f = chain(f)
    <2>1. ASSUME NEW n \in 1..MaxIds PROVE f[n] = link(n, f[n - 1])
      <3>1. f[n - 1] \in Good
        BY <1>5
      <3>2. f[n] = step[n][f[n - 1]]
        BY <1>5 DEF IsChain
      <3>3. step[n][f[n - 1]] = link(n, f[n - 1])
        BY <1>4, <3>1
      <3> QED
        BY <3>2, <3>3
    <2>2. \A n \in 0..MaxIds : f[n] = chain(f)[n]
      BY <2>1, <1>5 DEF IsChain
    <2>3. f = [n \in 0..MaxIds |-> f[n]]
      BY <1>5
    <2> QED
      BY <2>2, <2>3
  <1>7. upTo = chain(upTo)
    BY <1>6
  <1>8. Entered(b, S) = upTo[MaxIds]
    BY DEF Entered, First
  <1> HIDE DEF upTo
  <1>9. upTo[0] = b /\ \A n \in 1..MaxIds : upTo[n] = link(n, upTo[n - 1])
    <2>1. \A n \in 0..MaxIds : upTo[n] = chain(upTo)[n]
      BY <1>7
    <2> QED
      BY <2>1
  <1> DEFINE Right(n) == /\ upTo[n] \in Good
                         /\ \A side \in Directions :
                              Tidy(b, side) /\ (\A o \in S : o.side = side) => Tidy(upTo[n], side)
             G == {n \in 0..MaxIds : Right(n)}
  <1>10. 0 \in G
    <2>1. Right(0)
      BY <1>1, <1>9
    <2> QED
      BY <2>1
  <1>11. ASSUME NEW n \in 1..MaxIds, n - 1 \in G PROVE n \in G
    <2>1. upTo[n] = link(n, upTo[n - 1])
      BY <1>9
    <2>2. Right(n - 1) /\ n \in 0..MaxIds
      <3> HIDE DEF Right
      <3> QED
        BY <1>11
    <2>3. upTo[n] \in Good
      <3> HIDE DEF link
      <3> QED
        BY <1>3, <2>1, <2>2
    <2>4. ASSUME NEW side \in Directions, Tidy(b, side), \A o \in S : o.side = side
          PROVE  Tidy(upTo[n], side)
      <3>1. Tidy(upTo[n - 1], side)
        BY <2>2, <2>4
      <3>2. CASE WithId(S, n) = {}
        BY <3>1, <3>2, <2>1
      <3>3. CASE WithId(S, n) # {}
        <4>1. First(n) \in S
          BY <1>2, <3>3
        <4>2. First(n) \in Limits(m) /\ First(n).side = side
          BY <4>1, <2>4
        <4>3. SoundBooks(upTo[n - 1], m)
          BY <2>2 DEF SoundBooks, Good
        <4>4. upTo[n] = FilledAtItsPrice(upTo[n - 1], First(n))
          BY <2>1, <3>3
        <4> HIDE DEF First
        <4> QED
          BY <3>1, <4>2, <4>3, <4>4, FilledIs
      <3> QED
        BY <3>2, <3>3
    <2>5. Right(n)
      BY <2>3, <2>4
    <2> HIDE DEF Right
    <2> QED
      BY <2>2, <2>5
  <1> HIDE DEF G
  <1>12. \A n \in 0..MaxIds : n \in G
    BY <1>1, <1>10, <1>11, UpTo, Zenon
  <1>13. Right(MaxIds)
    BY <1>12 DEF G
  <1> QED
    BY <1>8, <1>13 DEF SoundBooks, Good

\* The reduce-only order that is hit closes the position at its trigger.
LEMMA TriggeredIs ==
  ASSUME NEW m, NEW b, SoundBooks(b, m), b.desk.pos # <<>>, NEW o \in b.desk.orders, Protective(o)
  PROVE  /\ SoundBooks(TriggeredBy(b, o), m)
         /\ \A side \in Directions : Tidy(b, side) => Tidy(TriggeredBy(b, o), side)
  <1> DEFINE p == b.desk.pos[1]
             d == closeAt(b.desk, o.price, p.qty)
             e == [d EXCEPT !.closed = Finish(@, o.id, "FILLED"), !.orders = d.orders]
             money == PaidWith(b.paid, Against(p.side), p.qty, o.price)
             lots == HeldWith(b.held, Against(p.side), p.qty)
             c == TriggeredBy(b, o)
  <1>1. Sound(b.desk, m) /\ b.desk \in Desks /\ b.paid \in Int /\ b.held \in Int /\ o \in PaperOrders
    BY DEF SoundBooks, Books, Desks
  <1>2. p.qty \in Nat \ {0} /\ p.side \in Directions /\ Against(p.side) \in Directions
    BY <1>1, PosIs DEF PaperPositions, Against, Directions
  <1>3. o.id \in 1..MaxIds /\ o.price \in Nat /\ o.id <= m
    BY <1>1, OrderIs DEF Sound, IdsOf
  <1>4. AtMost(b.desk, p.qty) = p.qty
    BY DEF AtMost
  <1>5. /\ Sound(d, m) /\ d.orders \subseteq b.desk.orders /\ d.pos = <<>>
        /\ \A a \in d.orders : ~Protective(a)
        /\ Balanced(b.desk, b.paid, b.held) => Balanced(d, money, lots)
    <2> HIDE DEF p
    <2>1. /\ Sound(closeAt(b.desk, o.price, p.qty), m) /\ closeAt(b.desk, o.price, p.qty).orders \subseteq b.desk.orders
          /\ closeAt(b.desk, o.price, p.qty).pos = <<>>
      <3>1. Sound(closeAt(b.desk, o.price, p.qty), m)
        BY <1>1, <1>2, <1>3, CloseIs
      <3>2. closeAt(b.desk, o.price, p.qty).orders \subseteq b.desk.orders
        BY <1>1, <1>2, <1>3, CloseIs
      <3>3. closeAt(b.desk, o.price, p.qty).pos = <<>>
        BY <1>1, <1>2, <1>3, <1>4, CloseIs DEF p
      <3> QED
        BY <3>1, <3>2, <3>3
    <2>3. \A a \in closeAt(b.desk, o.price, p.qty).orders : ~Protective(a)
      BY <1>1, <1>2, <1>3, <2>1, CloseIs
    <2>2. StayBalanced(b.desk, closeAt(b.desk, o.price, p.qty), Against(p.side), p.qty, o.price)
      BY <1>1, <1>2, <1>3, <1>4, CloseIs DEF p
    <2> QED
      BY <2>1, <2>2, <2>3, <1>1 DEF StayBalanced
  <1>6. d \in Desks
    BY <1>5 DEF Sound
  <1>7. c.desk = [d EXCEPT !.closed = Finish(@, o.id, "FILLED")] /\ c.paid = money /\ c.held = lots
        /\ c = [desk |-> [d EXCEPT !.closed = Finish(@, o.id, "FILLED")], paid |-> money, held |-> lots]
    BY DEF TriggeredBy
  <1>8. money \in Int /\ lots \in Int
    BY <1>1, <1>2, <1>3, MoneyIs
  <1> HIDE DEF d, money, lots, c, p
  <1>9. e = [d EXCEPT !.closed = Finish(@, o.id, "FILLED")]
    BY <1>6 DEF Desks
  <1>10. o.id \notin IdsOf(d.orders)
    <2> SUFFICES ASSUME NEW a \in d.orders, a.id = o.id PROVE FALSE
      BY DEF IdsOf
    <2>1. a = o
      BY <1>1, <1>5 DEF Sound, Unique
    <2> QED
      BY <2>1, <1>5
  <1>11. Sound(e, m)
    BY <1>3, <1>5, <1>10, FinishedIs
  <1>12. e.pos = d.pos /\ e.wallet = d.wallet /\ e.orders = d.orders
    BY <1>6 DEF Desks
  <1> HIDE DEF e
  <1>13. SoundBooks(c, m)
    BY <1>7, <1>8, <1>9, <1>11 DEF SoundBooks, Books, Sound
  <1>14. ASSUME NEW side \in Directions, Tidy(b, side) PROVE Tidy(c, side)
    <2>1. Balanced(e, money, lots)
      BY <1>5, <1>12, <1>14 DEF Balanced, Tidy
    <2>2. OnSide(e, side)
      BY <1>5, <1>12, <1>14 DEF OnSide, Tidy
    <2> QED
      BY <2>1, <2>2, <1>7, <1>9 DEF Tidy
  <1> QED
    BY <1>13, <1>14 DEF c

-----------------------------------------------------------------------------
(***************************************************************************)
(* The invariant                                                           *)
(***************************************************************************)
Now == [desk |-> desk, paid |-> paid, held |-> held]

\* The desk is sound, and the store holds its snapshot.
PaperInv ==
    /\ minted \in 0..MaxIds /\ moves \in 0..MaxMoves /\ paid \in Int /\ held \in Int
    /\ Sound(desk, minted)
    /\ saved = snapshot(desk)

\* Callers that do not slip keep the desk on one side, and the books balance.
TidyNow == \E side \in Directions : Tidy(Now, side)

\* A snapshot is a sound desk and its own snapshot.
LEMMA SnapshotIs ==
  ASSUME NEW m, NEW d, Sound(d, m)
  PROVE  /\ Sound(snapshot(d), m) /\ snapshot(snapshot(d)) = snapshot(d)
         /\ snapshot(d).pos = d.pos /\ snapshot(d).orders = d.orders /\ snapshot(d).wallet = d.wallet
  <1> DEFINE k == Kept(d.closed)
             e == [d EXCEPT !.closed = k]
  <1>1. d \in Desks /\ d.closed \in Closeds
    BY DEF Sound, Desks
  <1>2. k \in Closeds /\ Ends(k) \subseteq Ends(d.closed) /\ Kept(k) = k
    BY <1>1, KeptIs
  <1>3. snapshot(d) = e
    BY DEF snapshot
  <1> HIDE DEF k
  <1>4. /\ e \in Desks /\ e.closed = k /\ e.pos = d.pos /\ e.orders = d.orders /\ e.wallet = d.wallet
    BY <1>1, <1>2 DEF Desks
  <1>5. Sound(e, m)
    BY <1>2, <1>4 DEF Sound, Unique, IdsOf
  <1>6. snapshot(e) = e
    BY <1>2, <1>4 DEF snapshot, Desks
  <1> QED
    BY <1>3, <1>4, <1>5, <1>6

\* More ids may have been minted.
LEMMA SoundLater == ASSUME NEW m \in Nat, NEW d, Sound(d, m) PROVE Sound(d, m + 1)
  <1>1. \A i \in IdsOf(d.orders) \cup IdsOf(Ends(d.closed)) : i \in Nat /\ i <= m
    <2>1. d.orders \subseteq PaperOrders /\ Ends(d.closed) \subseteq FinalStates
      BY EndsOf DEF Sound, Desks
    <2> QED
      BY <2>1 DEF Sound, IdsOf, PaperOrders, FinalStates
  <1> QED
    BY <1>1 DEF Sound

\* A new order has a new id.
LEMMA RestsIs ==
  ASSUME NEW m \in Nat, NEW d, Sound(d, m), NEW o \in PaperOrders, o.id = m + 1, ~Protective(o) => o.qty > 0
  PROVE  LET e == [d EXCEPT !.orders = @ \cup {o}] IN
         Sound(e, m + 1) /\ e.orders = d.orders \cup {o} /\ e.pos = d.pos /\ e.wallet = d.wallet
  <1> DEFINE e == [d EXCEPT !.orders = @ \cup {o}]
  <1>1. d \in Desks /\ e \in Desks /\ e.orders = d.orders \cup {o} /\ e.pos = d.pos /\ e.wallet = d.wallet /\ e.closed = d.closed
    BY DEF Sound, Desks
  <1>2. /\ \A i \in IdsOf(d.orders) \cup IdsOf(Ends(d.closed)) : i \in Nat /\ i <= m
    <2>1. d.orders \subseteq PaperOrders /\ Ends(d.closed) \subseteq FinalStates
      BY <1>1, EndsOf DEF Desks
    <2> QED
      BY <2>1 DEF Sound, IdsOf, PaperOrders, FinalStates
  <1> HIDE DEF e
  <1>3. IdsOf(e.orders) = IdsOf(d.orders) \cup {m + 1} /\ m + 1 \notin IdsOf(d.orders) \cup IdsOf(Ends(d.closed))
    BY <1>1, <1>2 DEF IdsOf
  <1>4. Unique(e.orders)
    BY <1>1, <1>3 DEF Unique, Sound, IdsOf
  <1>5. Sound(e, m + 1)
    <2>1. Unique(Ends(e.closed)) /\ IdsOf(e.orders) \cap IdsOf(Ends(e.closed)) = {}
      BY <1>1, <1>3 DEF Sound
    <2>2. \A i \in IdsOf(e.orders) \cup IdsOf(Ends(e.closed)) : i <= m + 1
      BY <1>1, <1>2, <1>3
    <2>3. \A a \in e.orders : ~Protective(a) => a.qty > 0
      BY <1>1 DEF Sound
    <2> QED
      BY <1>1, <1>4, <2>1, <2>2, <2>3 DEF Sound
  <1> QED
    BY <1>1, <1>5 DEF e

\* The desk of the present and what of it the books see.
LEMMA NowIs ==
  /\ Now.desk = desk /\ Now.paid = paid /\ Now.held = held
  /\ PaperInv => SoundBooks(Now, minted)
  /\ \A side : Tidy(Now, side) <=> Balanced(desk, paid, held) /\ OnSide(desk, side)
  <1>1. Now.desk = desk /\ Now.paid = paid /\ Now.held = held
    BY DEF Now
  <1>2. PaperInv => Now \in Books
    BY DEF PaperInv, Sound, Books, Now
  <1> QED
    BY <1>1, <1>2 DEF PaperInv, SoundBooks, Tidy

\* A desk of which some orders left is as tidy as before.
LEMMA FewerOrders ==
  ASSUME NEW d, NEW e, NEW side, OnSide(d, side), e.orders \subseteq d.orders,
         e.pos = d.pos \/ (e.pos = <<>> /\ \A o \in e.orders : ~Protective(o))
  PROVE  OnSide(e, side)
  BY DEF OnSide

\* What a step of the simulator has to show.
Keeps == PaperInv' /\ (Careless = {} /\ TidyNow => TidyNow')

\* The whole step follows from the desk it leaves.
LEMMA DeskStep ==
  ASSUME PaperInv, Move, save(desk'), minted' \in 0..MaxIds, Sound(desk', minted')
  PROVE  (paid' \in Int /\ held' \in Int) => PaperInv'
  BY DEF PaperInv, Move, save

\* Of the reduce-only orders that are hit the oldest is one of them.
LEMMA OldestIs == ASSUME NEW S \in SUBSET PaperOrders, S # {} PROVE Oldest(S) \in S
  <1>1. IdsOf(S) \in SUBSET Nat /\ IdsOf(S) # {}
    BY DEF IdsOf, PaperOrders
  <1>2. PICK i \in IdsOf(S) : \A j \in IdsOf(S) : i <= j
    BY <1>1, LeastOf
  <1>3. \E o \in S : \A p \in S : o.id <= p.id
    BY <1>2 DEF IdsOf
  <1> QED
    BY <1>3 DEF Oldest

\* An empty desk is sound, and tidy on either side.
LEMMA PaperStarts == PaperInit => PaperInv /\ TidyNow
  <1> SUFFICES ASSUME PaperInit PROVE PaperInv /\ TidyNow
    OBVIOUS
  <1>1. desk = Fresh /\ saved = Fresh /\ paid = 0 /\ held = 0 /\ minted = 0 /\ moves = 0
    BY DEF PaperInit
  <1>2. <<>> \in Closeds /\ Ends(<<>>) = {} /\ Len(<<>>) = 0
    BY DEF Closeds, Ends
  <1>3. /\ Fresh \in Desks /\ Fresh.orders = {} /\ Fresh.closed = <<>> /\ Fresh.pos = <<>> /\ Fresh.wallet = 0
    BY <1>2 DEF Fresh, Desks
  <1>4. Sound(Fresh, 0)
    BY <1>2, <1>3 DEF Sound, Unique, IdsOf
  <1>5. snapshot(Fresh) = Fresh
    <2>1. Kept(<<>>) = <<>>
      <3>1. Kept(<<>>) = SubSeq(<<>>, 1, 0)
        BY <1>2 DEF Kept
      <3> QED
        BY <3>1, SubSeqEmpty
    <2> QED
      BY <2>1 DEF snapshot, Fresh
  <1>6. PaperInv
    BY <1>1, <1>4, <1>5 DEF PaperInv
  <1>7. Balanced(desk, paid, held) /\ OnSide(desk, "long")
    BY <1>1, <1>3 DEF Balanced, OnSide
  <1> QED
    BY <1>6, <1>7, NowIs DEF TidyNow, Directions

-----------------------------------------------------------------------------
(***************************************************************************)
(* The steps                                                               *)
(***************************************************************************)
\* The types of the present.
LEMMA NowTypes ==
  ASSUME PaperInv
  PROVE  /\ Sound(desk, minted) /\ desk \in Desks /\ paid \in Int /\ held \in Int
         /\ minted \in Nat /\ minted <= MaxIds /\ desk.mark \in Nat
  <1>1. Sound(desk, minted) /\ desk \in Desks /\ paid \in Int /\ held \in Int /\ minted \in 0..MaxIds
    BY DEF PaperInv, Sound
  <1>2. desk.mark \in Prices \cup {0}
    BY <1>1 DEF Desks
  <1>3. desk.mark \in Nat
    <2>1. \A p \in Prices \cup {0} : p \in Nat
      OBVIOUS
    <2> QED
      BY <1>2, <2>1, Zenon
  <1>4. minted \in Nat /\ minted <= MaxIds
    BY <1>1
  <1> QED
    BY <1>1, <1>3, <1>4

\* An order that is asked for has the next id.
LEMMA MintIs == ASSUME PaperInv, Mint PROVE minted' = minted + 1 /\ minted' \in 1..MaxIds /\ minted' \in 0..MaxIds /\ Move
  BY NowTypes DEF Mint

\* A mark changes neither orders nor books.
LEMMA MarkIs ==
  ASSUME NEW m, NEW d, Sound(d, m), NEW mark \in Prices
  PROVE  LET e == [d EXCEPT !.mark = mark] IN
         Sound(e, m) /\ e.orders = d.orders /\ e.pos = d.pos /\ e.wallet = d.wallet
  <1> DEFINE e == [d EXCEPT !.mark = mark]
  <1>1. e \in Desks /\ e.orders = d.orders /\ e.pos = d.pos /\ e.wallet = d.wallet /\ e.closed = d.closed
    BY DEF Sound, Desks
  <1> QED
    BY <1>1 DEF Sound

\* A new price (setMark).
LEMMA SetMarkKeeps == ASSUME PaperInv, NEW mark \in Prices, setMark(mark) PROVE Keeps
  <1>1. /\ Sound(desk', minted) /\ desk'.orders = desk.orders /\ desk'.pos = desk.pos /\ desk'.wallet = desk.wallet
        /\ paid' = paid /\ held' = held /\ minted' = minted
    BY MarkIs DEF PaperInv, setMark, NothingReported, SameIds
  <1>2. PaperInv'
    BY <1>1, DeskStep DEF PaperInv, setMark
  <1>3. ASSUME NEW side \in Directions, Tidy(Now, side) PROVE Tidy(Now, side)'
    <2>1. Balanced(desk, paid, held) /\ OnSide(desk, side)
      BY <1>3, NowIs
    <2>2. Balanced(desk', paid', held') /\ OnSide(desk', side)
      BY <1>1, <2>1 DEF Balanced, OnSide
    <2> QED
      BY <2>2 DEF Tidy, Now
  <1> QED
    BY <1>2, <1>3 DEF Keeps, TidyNow

\* A tick: the entries it fills, and then the order it triggers.
LEMMA TickKeepsBooks == ASSUME PaperInv, NEW mark \in Prices, tick(mark) PROVE Keeps
  <1> DEFINE crossed == {o \in desk.orders : ~Protective(o) /\ Crosses(o.side, mark, o.price)}
             d == [desk EXCEPT !.mark = mark]
             b0 == [desk |-> d, paid |-> paid, held |-> held]
             b == Entered(b0, crossed)
             hits == {o \in b.desk.orders : Protective(o) /\ Hit(o, b.desk.pos[1].side, mark)}
             out == IF b.desk.pos = <<>> \/ hits = {} THEN b ELSE TriggeredBy(b, Oldest(hits))
  <1>1. desk' = out.desk /\ paid' = out.paid /\ held' = out.held /\ Move /\ save(desk') /\ minted' = minted
    BY DEF tick, SameIds
  <1>2. Sound(desk, minted) /\ paid \in Int /\ held \in Int
    BY DEF PaperInv
  <1>3. Sound(d, minted) /\ d.orders = desk.orders /\ d.pos = desk.pos /\ d.wallet = desk.wallet
    BY <1>2, MarkIs
  <1> HIDE DEF d
  <1>4. SoundBooks(b0, minted)
    BY <1>2, <1>3 DEF SoundBooks, Books, Sound
  <1>5. crossed \in SUBSET Limits(minted)
    <2>1. desk.orders \subseteq PaperOrders /\ \A o \in desk.orders : o.id <= minted /\ (~Protective(o) => o.qty > 0)
      BY <1>2 DEF Sound, Desks, IdsOf
    <2> QED
      BY <2>1 DEF Limits
  <1>6. /\ SoundBooks(b, minted)
        /\ \A side \in Directions : Tidy(b0, side) /\ (\A o \in crossed : o.side = side) => Tidy(b, side)
    <2> HIDE DEF b0, crossed
    <2> QED
      BY <1>4, <1>5, EnteredIs
  <1>7. ASSUME NEW side \in Directions, Tidy(Now, side) PROVE Tidy(b0, side) /\ \A o \in crossed : o.side = side
    <2>1. Balanced(desk, paid, held) /\ OnSide(desk, side)
      BY <1>7, NowIs
    <2>2. Balanced(d, paid, held) /\ OnSide(d, side)
      BY <1>3, <2>1 DEF Balanced, OnSide
    <2> QED
      BY <2>1, <2>2 DEF Tidy, OnSide
  <1> HIDE DEF b, b0, crossed
  <1>8. /\ SoundBooks(out, minted)
        /\ \A side \in Directions : Tidy(b, side) => Tidy(out, side)
    <2>1. CASE b.desk.pos = <<>> \/ hits = {}
      BY <2>1, <1>6
    <2>2. CASE ~(b.desk.pos = <<>> \/ hits = {})
      <3>1. hits \in SUBSET PaperOrders /\ hits # {}
        BY <1>6, <2>2 DEF SoundBooks, Sound, Desks
      <3>2. Oldest(hits) \in hits
        <4> HIDE DEF hits
        <4> QED
          BY <3>1, OldestIs
      <3>3. Oldest(hits) \in b.desk.orders /\ Protective(Oldest(hits))
        BY <3>2
      <3>4. out = TriggeredBy(b, Oldest(hits)) /\ b.desk.pos # <<>>
        BY <2>2
      <3> HIDE DEF hits, out
      <3> QED
        BY <1>6, <3>3, <3>4, TriggeredIs
    <2> QED
      BY <2>1, <2>2
  <1> HIDE DEF out, hits
  <1>9. Sound(desk', minted') /\ paid' \in Int /\ held' \in Int
    BY <1>1, <1>8 DEF SoundBooks, Books
  <1>10. PaperInv'
    BY <1>1, <1>9, DeskStep DEF PaperInv
  <1>11. ASSUME NEW side \in Directions, Tidy(Now, side) PROVE Tidy(Now, side)'
    <2>1. Tidy(out, side)
      BY <1>6, <1>7, <1>8, <1>11
    <2> QED
      BY <2>1, <1>1 DEF Tidy, Now
  <1> QED
    BY <1>10, <1>11 DEF Keeps, TidyNow

\* Callers that do not slip enter with the position and the orders there are.
LEMMA WithTheDeskIs ==
  ASSUME PaperInv, TidyNow, NEW side \in Directions, WithTheDesk(side)
  PROVE  Tidy(Now, side) /\ (desk.pos = <<>> \/ desk.pos[1].side = side)
  <1>1. desk.pos # <<>> => desk.pos[1].side = side
    <2> SUFFICES ASSUME desk.pos # <<>> PROVE desk.pos[1].side = side
      OBVIOUS
    <2>1. desk.pos = <<desk.pos[1]>>
      BY PosIs DEF PaperInv, Sound
    <2>2. 1 \in DOMAIN desk.pos
      BY <2>1
    <2> QED
      BY <2>2 DEF WithTheDesk
  <1>2. \A o \in desk.orders : o.side = side
    BY DEF WithTheDesk
  <1>3. PICK s \in Directions : Balanced(desk, paid, held) /\ OnSide(desk, s)
    BY NowIs DEF TidyNow
  <1> QED
    BY <1>1, <1>2, <1>3, NowIs DEF OnSide

\* An entry that fills at the mark or rests.
LEMMA PlaceEntryKeeps ==
  ASSUME PaperInv, NEW side \in Directions, NEW qty \in Sizes, NEW type, NEW price \in Prices,
         placeEntry(side, qty, type, price)
  PROVE  Keeps
  <1>0. qty \in Nat \ {0} /\ price \in Nat
    OBVIOUS
  <1>1. Sound(desk, minted) /\ paid \in Int /\ held \in Int /\ minted \in Nat /\ desk.mark \in Nat
    BY NowTypes
  <1>2. minted' = minted + 1 /\ minted' \in 1..MaxIds /\ minted' \in 0..MaxIds /\ Move /\ save(desk')
    BY MintIs DEF placeEntry
  <1>3. Careless = {} => WithTheDesk(side)
    BY DEF placeEntry
  <1>4. CASE type = "market" \/ Crosses(side, desk.mark, price)
    <2>1. /\ desk' = fill(desk, side, qty, desk.mark)
          /\ paid' = PaidWith(paid, side, qty, desk.mark) /\ held' = HeldWith(held, side, qty)
      BY <1>4 DEF placeEntry, Reported
    <2>2. Sound(desk', minted)
      BY <1>0, <1>1, <2>1, FillIs
    <2>3. Sound(desk', minted')
      BY <1>1, <1>2, <2>2, SoundLater
    <2>4. paid' \in Int /\ held' \in Int
      BY <1>0, <1>1, <2>1, MoneyIs
    <2>5. PaperInv'
      BY <1>2, <2>3, <2>4, DeskStep
    <2>6. ASSUME Careless = {}, TidyNow PROVE TidyNow'
      <3>1. Tidy(Now, side) /\ (desk.pos = <<>> \/ desk.pos[1].side = side)
        BY <1>3, <2>6, WithTheDeskIs
      <3>2. fill(desk, side, qty, desk.mark).orders = desk.orders
        BY <1>0, <1>1, <3>1, FillIs
      <3>3. fill(desk, side, qty, desk.mark).pos # <<>> /\ fill(desk, side, qty, desk.mark).pos[1].side = side
        <4>1. fill(desk, side, qty, desk.mark).pos # <<>>
          BY <1>0, <1>1, <3>1, FillIs
        <4>2. fill(desk, side, qty, desk.mark).pos[1].side = side
          BY <1>0, <1>1, <3>1, FillIs
        <4> QED
          BY <4>1, <4>2
      <3>4. StayBalanced(desk, fill(desk, side, qty, desk.mark), side, qty, desk.mark)
        BY <1>0, <1>1, <3>1, FillIs
      <3>5. Balanced(desk', paid', held')
        BY <3>1, <3>4, <2>1, <1>1, NowIs DEF StayBalanced
      <3>6. OnSide(desk', side)
        BY <3>1, <3>2, <3>3, <2>1, NowIs DEF OnSide
      <3> QED
        BY <3>5, <3>6 DEF TidyNow, Tidy, Now
    <2> QED
      BY <2>5, <2>6 DEF Keeps
  <1>5. CASE ~(type = "market" \/ Crosses(side, desk.mark, price))
    <2> DEFINE o == [id |-> minted', type |-> "LIMIT", side |-> side, qty |-> qty, price |-> price]
    <2>1. desk' = [desk EXCEPT !.orders = @ \cup {o}] /\ paid' = paid /\ held' = held
      BY <1>5 DEF placeEntry, NothingReported
    <2>2. o \in PaperOrders /\ o.id = minted + 1 /\ o.qty > 0 /\ o.side = side /\ ~Protective(o)
      BY <1>0, <1>2 DEF PaperOrders, Protective
    <2> HIDE DEF o
    <2>3. Sound(desk', minted') /\ desk'.orders = desk.orders \cup {o} /\ desk'.pos = desk.pos /\ desk'.wallet = desk.wallet
      BY <1>1, <1>2, <2>1, <2>2, RestsIs
    <2>4. PaperInv'
      BY <1>1, <1>2, <2>1, <2>3, DeskStep
    <2>5. ASSUME Careless = {}, TidyNow PROVE TidyNow'
      <3>1. Balanced(desk, paid, held) /\ OnSide(desk, side)
        BY <1>3, <2>5, WithTheDeskIs, NowIs
      <3>2. Balanced(desk', paid', held') /\ OnSide(desk', side)
        BY <3>1, <2>1, <2>2, <2>3 DEF Balanced, OnSide
      <3> QED
        BY <3>2 DEF TidyNow, Tidy, Now
    <2> QED
      BY <2>4, <2>5 DEF Keeps
  <1> QED
    BY <1>4, <1>5

\* A stop or take-profit that rests.
LEMMA ProtectiveKeeps ==
  ASSUME PaperInv, NEW side \in Directions, NEW type \in {"STOP_MARKET", "TAKE_PROFIT_MARKET"}, NEW price \in Prices,
         protective(side, type, price)
  PROVE  Keeps
  <1> DEFINE o == [id |-> minted', type |-> type, side |-> side, qty |-> 0, price |-> price]
  <1>1. Sound(desk, minted) /\ paid \in Int /\ held \in Int /\ minted \in Nat
    BY NowTypes
  <1>2. minted' = minted + 1 /\ minted' \in 1..MaxIds /\ minted' \in 0..MaxIds /\ Move /\ save(desk')
    BY MintIs DEF protective
  <1>3. desk' = [desk EXCEPT !.orders = @ \cup {o}] /\ paid' = paid /\ held' = held
    BY DEF protective, NothingReported
  <1>4. o \in PaperOrders /\ o.id = minted + 1 /\ o.side = side /\ Protective(o)
    BY <1>2 DEF PaperOrders, Protective
  <1> HIDE DEF o
  <1>5. Sound(desk', minted') /\ desk'.orders = desk.orders \cup {o} /\ desk'.pos = desk.pos /\ desk'.wallet = desk.wallet
    BY <1>1, <1>2, <1>3, <1>4, RestsIs
  <1>6. PaperInv'
    BY <1>1, <1>2, <1>3, <1>5, DeskStep
  <1>7. ASSUME Careless = {}, TidyNow PROVE TidyNow'
    <2>1. desk.pos # <<>> /\ desk.pos[1].side = side
      BY <1>7 DEF protective
    <2>2. Balanced(desk, paid, held) /\ OnSide(desk, side)
      BY <1>7, <2>1, NowIs DEF TidyNow, OnSide
    <2>3. Balanced(desk', paid', held') /\ OnSide(desk', side)
      BY <2>1, <2>2, <1>3, <1>4, <1>5 DEF Balanced, OnSide
    <2> QED
      BY <2>3 DEF TidyNow, Tidy, Now
  <1> QED
    BY <1>6, <1>7 DEF Keeps

\* A reduction at the mark, up to all that is held.
LEMMA ReduceKeeps == ASSUME PaperInv, NEW qty \in Nat \ {0}, reducePosition(qty) PROVE Keeps
  <1> DEFINE p == desk.pos[1]
             q == AtMost(desk, qty)
             e == closeAt(desk, desk.mark, qty)
  <1>1. Sound(desk, minted) /\ desk \in Desks /\ paid \in Int /\ held \in Int /\ minted \in Nat /\ desk.mark \in Nat
    BY NowTypes
  <1>2. /\ desk.pos # <<>> /\ Move /\ save(desk') /\ minted' = minted /\ desk' = e
        /\ paid' = PaidWith(paid, Against(p.side), q, desk.mark) /\ held' = HeldWith(held, Against(p.side), q)
    BY DEF reducePosition, Reported, SameIds
  <1>3. q \in Nat \ {0}
    BY <1>1, <1>2, CloseIs
  <1>4. Sound(e, minted) /\ e.orders \subseteq desk.orders
    BY <1>1, <1>2, CloseIs
  <1>5. (e.pos = <<>> => \A o \in e.orders : ~Protective(o)) /\ (e.pos # <<>> => e.pos[1].side = p.side)
    BY <1>1, <1>2, CloseIs
  <1>6. StayBalanced(desk, e, Against(p.side), q, desk.mark)
    BY <1>1, <1>2, CloseIs
  <1>7. Against(p.side) \in Directions
    BY DEF Against, Directions
  <1> HIDE DEF q, e, p
  <1>8. paid' \in Int /\ held' \in Int
    BY <1>1, <1>2, <1>3, <1>7, MoneyIs
  <1>9. PaperInv'
    BY <1>1, <1>2, <1>4, <1>8, DeskStep DEF PaperInv
  <1>10. ASSUME NEW side \in Directions, Tidy(Now, side) PROVE Tidy(Now, side)'
    <2>1. Balanced(desk, paid, held) /\ OnSide(desk, side)
      BY <1>10, NowIs
    <2>2. Balanced(desk', paid', held')
      BY <1>1, <1>2, <1>6, <2>1 DEF StayBalanced
    <2>3. OnSide(desk', side)
      BY <1>2, <1>4, <1>5, <2>1 DEF OnSide, p
    <2> QED
      BY <2>2, <2>3 DEF Tidy, Now
  <1> QED
    BY <1>9, <1>10 DEF Keeps, TidyNow

\* Both cancellations.
LEMMA CancelKeeps ==
  ASSUME PaperInv, NEW S \in SUBSET desk.orders, Move, desk' = CancelThose(desk, S), save(desk'), NothingReported, SameIds
  PROVE  Keeps
  <1>1. /\ Sound(desk', minted') /\ desk'.orders \subseteq desk.orders /\ desk'.pos = desk.pos /\ desk'.wallet = desk.wallet
        /\ paid' = paid /\ held' = held /\ minted' = minted
    BY CancelIs DEF PaperInv, NothingReported, SameIds
  <1>2. PaperInv'
    BY <1>1, DeskStep DEF PaperInv
  <1>3. ASSUME NEW side \in Directions, Tidy(Now, side) PROVE Tidy(Now, side)'
    <2>1. Balanced(desk, paid, held) /\ OnSide(desk, side)
      BY <1>3, NowIs
    <2>2. Balanced(desk', paid', held') /\ OnSide(desk', side)
      BY <1>1, <2>1 DEF Balanced, OnSide
    <2> QED
      BY <2>2 DEF Tidy, Now
  <1> QED
    BY <1>2, <1>3 DEF Keeps, TidyNow

\* A restart finds the desk as it was left.
LEMMA RestoreKeeps == ASSUME PaperInv, restore PROVE Keeps
  <1>1. /\ Sound(snapshot(desk), minted) /\ snapshot(snapshot(desk)) = snapshot(desk)
        /\ snapshot(desk).pos = desk.pos /\ snapshot(desk).orders = desk.orders /\ snapshot(desk).wallet = desk.wallet
    BY SnapshotIs DEF PaperInv
  <1>2. desk' = snapshot(desk) /\ saved' = saved /\ paid' = paid /\ held' = held /\ minted' = minted
    BY DEF restore, PaperInv, NothingReported, SameIds
  <1>3. PaperInv'
    BY <1>1, <1>2 DEF PaperInv, restore, Move
  <1>4. ASSUME NEW side \in Directions, Tidy(Now, side) PROVE Tidy(Now, side)'
    <2>1. Balanced(desk, paid, held) /\ OnSide(desk, side)
      BY <1>4, NowIs
    <2>2. Balanced(desk', paid', held') /\ OnSide(desk', side)
      BY <1>1, <1>2, <2>1 DEF Balanced, OnSide
    <2> QED
      BY <2>2 DEF Tidy, Now
  <1> QED
    BY <1>3, <1>4 DEF Keeps, TidyNow

\* Every step of the simulator keeps its invariant, and a tidy desk tidy.
LEMMA PaperSteps == PaperInv /\ [PaperNext]_paperVars => Keeps
  <1> SUFFICES ASSUME PaperInv, [PaperNext]_paperVars PROVE Keeps
    OBVIOUS
  <1>1. CASE \E m \in Prices : setMark(m) \/ tick(m)
    BY <1>1, SetMarkKeeps, TickKeepsBooks
  <1>2. CASE \E side \in Directions, q \in Sizes, p \in Prices, t \in {"market", "limit"} : placeEntry(side, q, t, p)
    BY <1>2, PlaceEntryKeeps
  <1>3. CASE \E side \in Directions, t \in {"STOP_MARKET", "TAKE_PROFIT_MARKET"}, p \in Prices : protective(side, t, p)
    BY <1>3, ProtectiveKeeps
  <1>4. CASE \E q \in Sizes : reducePosition(q)
    BY <1>4, ReduceKeeps
  <1>5. CASE closePosition
    <2>1. desk.pos[1].qty \in Nat \ {0}
      BY <1>5, PosIs DEF closePosition, PaperInv, Sound, PaperPositions
    <2> QED
      BY <1>5, <2>1, ReduceKeeps DEF closePosition
  <1>6. CASE cancelAll
    BY <1>6, CancelKeeps DEF cancelAll
  <1>7. CASE \E id \in 1..MaxIds : cancelOrder(id)
    <2>1. PICK id \in 1..MaxIds : cancelOrder(id)
      BY <1>7
    <2>2. WithId(desk.orders, id) \in SUBSET desk.orders
      BY DEF WithId
    <2> QED
      BY <2>1, <2>2, CancelKeeps DEF cancelOrder
  <1>8. CASE restore
    BY <1>8, RestoreKeeps
  <1>9. CASE UNCHANGED paperVars
    BY <1>9 DEF paperVars, Keeps, PaperInv, TidyNow, Now
  <1> QED
    BY <1>1, <1>2, <1>3, <1>4, <1>5, <1>6, <1>7, <1>8, <1>9 DEF PaperNext

-----------------------------------------------------------------------------
(***************************************************************************)
(* What holds of the simulator                                             *)
(***************************************************************************)
\* What the store holds is part of the invariant.
LEMMA PaperInvSeamless == PaperInv => RestartIsSeamless
  BY DEF PaperInv, RestartIsSeamless

\* The invariant, with a desk on one side, is what the run checks.
LEMMA PaperInvSound == PaperInv /\ TidyNow => PaperSound
  <1> SUFFICES ASSUME PaperInv, TidyNow PROVE PaperSound
    OBVIOUS
  <1>1. Sound(desk, minted) /\ desk \in Desks
    BY DEF PaperInv, Sound
  <1>2. PICK side \in Directions : Balanced(desk, paid, held) /\ OnSide(desk, side)
    BY NowIs DEF TidyNow
  <1>3. PaperTypeOK
    <2>1. Len(desk.pos) <= 1 /\ \A k \in DOMAIN desk.pos : desk.pos[k] \in PaperPositions
      <3>1. CASE desk.pos = <<>>
        BY <3>1
      <3>2. CASE desk.pos # <<>>
        <4>1. desk.pos = <<desk.pos[1]>> /\ desk.pos[1] \in PaperPositions
          BY <1>1, <3>2, PosIs
        <4>2. Len(desk.pos) = 1 /\ DOMAIN desk.pos = {1}
          BY <4>1
        <4> QED
          BY <4>1, <4>2
      <3> QED
        BY <3>1, <3>2
    <2>2. \A k \in DOMAIN desk.closed : desk.closed[k] \in FinalStates
      BY <1>1 DEF Desks, Closeds
    <2> QED
      BY <1>1, <2>1, <2>2 DEF PaperTypeOK, PaperInv, Desks
  <1>4. Ledger
    BY <1>2 DEF Balanced, Ledger
  <1>5. NoStrayStop
    BY <1>2 DEF OnSide, NoStrayStop
  <1>6. OneFate
    <2> SUFFICES ASSUME NEW id \in 1..MaxIds, NEW a \in Fates(id), NEW b \in Fates(id) PROVE a = b
      BY DEF OneFate
    <2>1. /\ \A j, k \in DOMAIN desk.closed : desk.closed[j].id = desk.closed[k].id => desk.closed[j] = desk.closed[k]
          /\ \A o \in desk.orders, k \in DOMAIN desk.closed : o.id # desk.closed[k].id
      BY <1>1 DEF Sound, Unique, Ends, IdsOf
    <2> QED
      BY <2>1 DEF Fates, WithId
  <1> QED
    BY <1>3, <1>4, <1>5, <1>6 DEF PaperSound

\* Whatever is placed, canceled, reduced, closed or triggered, the store holds what
\* the simulator holds, so that restore() rebuilds it (execution.ts:217, save()).
THEOREM RestartsAreSeamless == PaperSpec => []RestartIsSeamless
  <1>1. PaperInit => PaperInv
    BY PaperStarts
  <1>2. PaperInv /\ [PaperNext]_paperVars => PaperInv'
    BY PaperSteps DEF Keeps
  <1> QED
    BY <1>1, <1>2, PaperInvSeamless, PTL DEF PaperSpec

\* For callers that neither enter against what is open nor place a stop without a
\* position, the wallet of the simulator is the sum of its trades and fees, no stop
\* survives its position and every order has one fate (fill, closeAt, tick).
THEOREM PaperStaysSound == ASSUME Careless = {} PROVE PaperSpec => []PaperSound
  <1>1. PaperInit => PaperInv /\ TidyNow
    BY PaperStarts
  <1>2. PaperInv /\ TidyNow /\ [PaperNext]_paperVars => PaperInv' /\ TidyNow'
    BY PaperSteps DEF Keeps
  <1> QED
    BY <1>1, <1>2, PaperInvSound, PTL DEF PaperSpec
=============================================================================
