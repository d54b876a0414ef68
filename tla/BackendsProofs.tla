--------------------------- MODULE BackendsProofs ---------------------------
(***************************************************************************)
(* What the demo, cli and agent backends answer, for any scripts of calls, *)
(* any faults and any number of tasks.                                     *)
(*                                                                         *)
(* A receipt is decided by a program of requests, each of which may be     *)
(* lost, refused, torn or late.  Sane ties each call (Pending) and each    *)
(* entry of the history (Receipt) to what is on the wire and what has      *)
(* taken effect.  GoneInv follows an entry that rests to the cancellation  *)
(* that reports it gone, and FreshInv what an account read has seen.       *)
(* Removing a line, an effect and a new line are judged as values, and     *)
(* each step then says which of them it is.                                *)
(***************************************************************************)
EXTENDS Backends, TLAPS, FiniteSetTheorems, SequenceTheorems

(***************************************************************************)
(* The wire                                                                *)
(***************************************************************************)
Reqs == {"new", "algo", "close", "closeq", "reduce", "pos", "orders", "algos", "acct", "query", "seek",
         "cancel", "cancelAlgo", "cancelOld", "cancelAll", "cancelPlain", "cancelAlgos", "openprot", "protect"}
LineSet == [task : Tasks, n : Nat, req : Reqs, view : {<<>>} \cup {<<v>> : v \in Views}]
Wires == Seq(LineSet)

\* A write of call n of t: one is on its way, at most one is.
Of(l, t, n) == l.task = t /\ l.n = n /\ l.req \in Writing
Way(w, t, n) == \E i \in DOMAIN w : Of(w[i], t, n)
Few(w, t, n) == \A i, j \in DOMAIN w : Of(w[i], t, n) /\ Of(w[j], t, n) => i = j

LEMMA RemoveAtIs ==
  ASSUME NEW S, NEW w \in Seq(S), NEW i \in 1..Len(w)
  PROVE  /\ RemoveAt(w, i) \in Seq(S) /\ Len(RemoveAt(w, i)) = Len(w) - 1
         /\ \A j \in 1..(Len(w) - 1) : RemoveAt(w, i)[j] = w[IF j < i THEN j ELSE j + 1]
  <1> DEFINE a == SubSeq(w, 1, i - 1)  b == SubSeq(w, i + 1, Len(w))
  <1>1. a \in Seq(S) /\ Len(a) = i - 1 /\ \A j \in 1..(i - 1) : a[j] = w[j]
    BY SubSeqProperties
  <1>2. b \in Seq(S) /\ Len(b) = Len(w) - i /\ \A j \in 1..(Len(w) - i) : b[j] = w[i + j]
    BY SubSeqProperties
  <1> HIDE DEF a, b
  <1>3. a \o b \in Seq(S) /\ Len(a \o b) = Len(w) - 1
    <2>1. a \o b \in Seq(S) /\ Len(a \o b) = Len(a) + Len(b)
      BY <1>1, <1>2, ConcatProperties
    <2> QED
      BY <1>1, <1>2, <2>1
  <1>4. ASSUME NEW j \in 1..(Len(w) - 1) PROVE (a \o b)[j] = w[IF j < i THEN j ELSE j + 1]
    <2>1. (a \o b)[j] = IF j <= Len(a) THEN a[j] ELSE b[j - Len(a)]
      BY <1>1, <1>2, ConcatProperties, SMTT(30)
    <2> QED
      BY <1>1, <1>2, <2>1
  <1> QED
    BY <1>3, <1>4 DEF RemoveAt, a, b

\* What leaves the wire leaves the rest as it is.
LEMMA RemoveIs ==
  ASSUME NEW w \in Wires, NEW i \in DOMAIN w
  PROVE  /\ RemoveAt(w, i) \in Wires
         /\ \A j \in DOMAIN RemoveAt(w, i) : \E k \in DOMAIN w \ {i} : RemoveAt(w, i)[j] = w[k]
         /\ \A t, n : Few(w, t, n) => Few(RemoveAt(w, i), t, n)
         /\ \A t, n : Few(w, t, n) /\ Of(w[i], t, n) => ~Way(RemoveAt(w, i), t, n)
  <1> DEFINE v == RemoveAt(w, i)
             at(j) == IF j < i THEN j ELSE j + 1
  <1>1. i \in 1..Len(w) /\ DOMAIN w = 1..Len(w) /\ Len(w) \in Nat
    BY DEF Wires
  <1>2. v \in Wires /\ Len(v) = Len(w) - 1 /\ \A j \in 1..(Len(w) - 1) : v[j] = w[at(j)]
    BY <1>1, RemoveAtIs, Zenon DEF Wires
  <1> HIDE DEF v
  <1>3. DOMAIN v = 1..(Len(w) - 1)
    BY <1>2 DEF Wires
  <1>4. /\ \A j \in 1..(Len(w) - 1) : at(j) \in DOMAIN w \ {i}
        /\ \A j, k \in 1..(Len(w) - 1) : at(j) = at(k) => j = k
    BY <1>1
  <1> HIDE DEF at
  <1>5. \A j \in DOMAIN v : at(j) \in DOMAIN w \ {i} /\ v[j] = w[at(j)]
    BY <1>2, <1>3, <1>4
  <1>6. ASSUME NEW t, NEW n, Few(w, t, n) PROVE Few(v, t, n)
    BY <1>3, <1>4, <1>5, <1>6 DEF Few
  <1>7. ASSUME NEW t, NEW n, Few(w, t, n), Of(w[i], t, n) PROVE ~Way(v, t, n)
    BY <1>5, <1>7 DEF Few, Way
  <1> QED
    BY <1>2, <1>5, <1>6, <1>7 DEF v

LEMMA SetToSeqIs ==
  ASSUME NEW S, IsFiniteSet(S)
  PROVE  /\ SetToSeq(S) \in Seq(S)
         /\ \A i, j \in 1..Len(SetToSeq(S)) : SetToSeq(S)[i] = SetToSeq(S)[j] => i = j
  <1>1. Cardinality(S) \in Nat /\ \E f \in [1..Cardinality(S) -> S] : IsInjective(f)
    BY FS_CardinalityType DEF ExistsBijection, Bijection, Injection, IsInjective
  <1>2. SetToSeq(S) \in [1..Cardinality(S) -> S] /\ IsInjective(SetToSeq(S))
    BY <1>1 DEF SetToSeq
  <1>3. SetToSeq(S) \in Seq(S) /\ Len(SetToSeq(S)) = Cardinality(S)
    BY <1>1, <1>2
  <1> QED
    BY <1>2, <1>3 DEF IsInjective

\* A stage of call n of t goes on the wire behind what is there.
New(t, n, r) == [task |-> t, n |-> n, req |-> r, view |-> <<>>]
LEMMA AddIs ==
  ASSUME NEW w \in Wires, NEW t \in Tasks, NEW n \in Nat, NEW rs \in SUBSET Reqs, IsFiniteSet(rs)
  PROVE  /\ w \o Lines(t, n, rs) \in Wires
         /\ \A j \in DOMAIN (w \o Lines(t, n, rs)) :
               \/ \E k \in DOMAIN w : (w \o Lines(t, n, rs))[j] = w[k]
               \/ \E r \in rs : (w \o Lines(t, n, rs))[j] = New(t, n, r)
         /\ \A u, m : (u # t \/ m # n) /\ Few(w, u, m) => Few(w \o Lines(t, n, rs), u, m)
         /\ ~Way(w, t, n) /\ (\A p, q \in rs \cap Writing : p = q) => Few(w \o Lines(t, n, rs), t, n)
  <1> DEFINE S == {New(t, n, r) : r \in rs}
             b == Lines(t, n, rs)
             v == w \o b
  <1>1. IsFiniteSet(S)
    <2> DEFINE f == [r \in rs |-> New(t, n, r)]
    <2>1. f \in Surjection(rs, S)
      BY DEF Surjection
    <2> QED
      BY <2>1, FS_Surjection
  <1>2. b = SetToSeq(S)
    BY DEF Lines, New
  <1>3. S \subseteq LineSet
    BY DEF New, LineSet
  <1>4. /\ b \in Seq(S) /\ \A i, j \in 1..Len(b) : b[i] = b[j] => i = j
    BY <1>1, <1>2, SetToSeqIs
  <1> HIDE DEF S, b
  <1>5. w \in Seq(LineSet) /\ b \in Seq(LineSet)
    BY <1>3, <1>4 DEF Wires
  <1>6. v \in Seq(LineSet) /\ Len(v) = Len(w) + Len(b) /\ Len(w) \in Nat /\ Len(b) \in Nat
    BY <1>5, ConcatProperties
  <1>7. \A j \in 1..Len(v) : v[j] = IF j <= Len(w) THEN w[j] ELSE b[j - Len(w)]
    BY <1>5, <1>6, ConcatProperties
  <1>8. \A j \in 1..Len(b) : \E r \in rs : b[j] = New(t, n, r)
    BY <1>4 DEF S
  <1> HIDE DEF v
  <1>9. DOMAIN w = 1..Len(w) /\ DOMAIN v = 1..Len(v)
    BY <1>5, <1>6
  <1>10. ASSUME NEW j \in DOMAIN v
         PROVE  \/ j \in DOMAIN w /\ v[j] = w[j]
                \/ j \notin DOMAIN w /\ j - Len(w) \in 1..Len(b) /\ v[j] = b[j - Len(w)]
    BY <1>6, <1>7, <1>9
  <1>11. ASSUME NEW j \in DOMAIN v
         PROVE  (\E k \in DOMAIN w : v[j] = w[k]) \/ (\E r \in rs : v[j] = New(t, n, r))
    BY <1>8, <1>10
  <1>12. ASSUME NEW u, NEW m, u # t \/ m # n, Few(w, u, m) PROVE Few(v, u, m)
    <2>1. ASSUME NEW j \in DOMAIN v, Of(v[j], u, m) PROVE j \in DOMAIN w /\ v[j] = w[j]
      <3>1. SUFFICES ASSUME j \notin DOMAIN w PROVE FALSE
        BY <1>10
      <3>2. PICK r \in rs : v[j] = New(t, n, r)
        BY <1>8, <1>10, <3>1
      <3> QED
        BY <1>12, <2>1, <3>2 DEF Of, New
    <2> QED
      BY <1>12, <2>1 DEF Few
  <1>13. ASSUME ~Way(w, t, n), \A p, q \in rs \cap Writing : p = q PROVE Few(v, t, n)
    <2>1. ASSUME NEW j \in DOMAIN v, Of(v[j], t, n)
          PROVE  /\ j - Len(w) \in 1..Len(b) /\ v[j] = b[j - Len(w)]
                 /\ \E r \in rs \cap Writing : v[j] = New(t, n, r)
      <3>1. j \notin DOMAIN w
        BY <1>10, <1>13, <2>1 DEF Way
      <3>2. PICK r \in rs : v[j] = New(t, n, r)
        BY <1>8, <1>10, <3>1
      <3>3. r \in Writing
        BY <2>1, <3>2 DEF Of, New
      <3> QED
        BY <1>10, <3>1, <3>2, <3>3
    <2>2. ASSUME NEW i \in DOMAIN v, NEW j \in DOMAIN v, Of(v[i], t, n), Of(v[j], t, n) PROVE i = j
      <3>1. i - Len(w) \in 1..Len(b) /\ j - Len(w) \in 1..Len(b) /\ b[i - Len(w)] = b[j - Len(w)]
        BY <1>13, <2>1, <2>2
      <3>2. i - Len(w) = j - Len(w)
        BY <1>4, <3>1
      <3> QED
        BY <1>6, <1>9, <3>2
    <2> QED
      BY <2>2 DEF Few
  <1> QED
    BY <1>6, <1>11, <1>12, <1>13 DEF v, b, Wires

\* A line that changes neither its call nor whether it writes.
Alike(w, v) ==
    /\ \A t, n : Few(w, t, n) => Few(v, t, n)
    /\ \A t, n : Way(v, t, n) => Way(w, t, n)
LEMMA EditIs ==
  ASSUME NEW w \in Wires, NEW i \in DOMAIN w, NEW l \in LineSet,
         l.task = w[i].task, l.n = w[i].n, l.req \in Writing <=> w[i].req \in Writing,
         NEW v, v = [w EXCEPT ![i] = l]
  PROVE  v \in Wires /\ Alike(w, v)
  <1>1. v \in Wires
    BY DEF Wires
  <1>2. DOMAIN v = DOMAIN w /\ \A j \in DOMAIN w : v[j] = IF j = i THEN l ELSE w[j]
    BY DEF Wires
  <1>3. \A t, n : \A j \in DOMAIN w : Of(v[j], t, n) => Of(w[j], t, n)
    BY <1>2 DEF Of
  <1>4. \A t, n : Few(w, t, n) => Few(v, t, n)
    BY <1>2, <1>3 DEF Few
  <1>5. \A t, n : Way(v, t, n) => Way(w, t, n)
    BY <1>2, <1>3 DEF Way
  <1> QED
    BY <1>1, <1>4, <1>5 DEF Alike

(***************************************************************************)
(* Receipts: what is known of a call that sends an order                   *)
(***************************************************************************)
OrderOps == {"entry", "stop", "reduce", "openprot"}
EffectSet == Tasks \X Nat \X (Reqs \cup {"boast"})
Took(E, t, n) == \E z \in E : z[1] = t /\ z[2] = n
StopTook(E, t, n) == \E z \in E : z[1] = t /\ z[2] = n /\ z[3] \in {"protect", "boast"}

\* While it is busy: its write is on the wire once, and nothing has come of it but
\* the entry of the two legs.
Pending(t, c, w, E) ==
    c.op \in OrderOps =>
      /\ Few(w, t, c.n)
      /\ \A i \in DOMAIN w : Of(w[i], t, c.n) =>
            IF w[i].req = "protect" THEN c.op = "openprot" /\ Took(E, t, c.n) /\ ~StopTook(E, t, c.n)
            ELSE ~Took(E, t, c.n) /\ (w[i].req = "openprot" => c.op = "openprot")
      /\ c.op = "reduce" /\ c.stage = 1 => ~Took(E, t, c.n) /\ ~Way(w, t, c.n)

\* When it has returned.
Receipt(e, w, E) ==
    e.op \in OrderOps =>
      /\ e.out.word \in {"filled", "submitted"} => Took(E, e.task, e.n)
      /\ e.out.word = "failed" => ~Took(E, e.task, e.n) /\ ~Way(w, e.task, e.n)
      /\ e.op = "openprot" =>
            /\ e.out.leg = "submitted" => StopTook(E, e.task, e.n)
            /\ e.out.leg \in {"failed", "skipped"} => ~StopTook(E, e.task, e.n) /\ ~Way(w, e.task, e.n)

\* Nothing new comes of call n of t unless it was on its way.
Calm(w, E, v, F, t, n) ==
    /\ Took(E, t, n) => Took(F, t, n)
    /\ StopTook(E, t, n) => StopTook(F, t, n)
    /\ ~Way(w, t, n) => /\ ~Way(v, t, n)
                        /\ Took(F, t, n) => Took(E, t, n)
                        /\ StopTook(F, t, n) => StopTook(E, t, n)

\* Of every call.
AllCalm(w, E, v, F) == \A t, n : Calm(w, E, v, F, t, n)
AllPending(w, E, v, F) == \A t, c : Pending(t, c, w, E) => Pending(t, c, v, F)

LEMMA CalmReceipt ==
  ASSUME NEW e, NEW w, NEW E, NEW v, NEW F, Calm(w, E, v, F, e.task, e.n), Receipt(e, w, E)
  PROVE  Receipt(e, v, F)
  BY DEF Calm, Receipt

LEMMA StillCalm == ASSUME NEW w, NEW E, NEW t, NEW n PROVE Calm(w, E, w, E, t, n)
  BY DEF Calm

\* What the exchange may do with line l.
Follows(l, E, F) == F = E \/ (l.req \in Writing /\ \E r \in Reqs \cup {"boast"} : F = E \cup {<<l.task, l.n, r>>})

LEMMA FollowsIs ==
  ASSUME NEW l \in LineSet, NEW E \in SUBSET EffectSet, NEW F, Follows(l, E, F)
  PROVE  /\ F \in SUBSET EffectSet /\ E \subseteq F
         /\ \A z \in F \ E : z[1] = l.task /\ z[2] = l.n /\ l.req \in Writing
  BY DEF Follows, LineSet, EffectSet

LEMMA RemoveCalm ==
  ASSUME NEW w \in Wires, NEW i \in DOMAIN w, NEW E \in SUBSET EffectSet, NEW F, Follows(w[i], E, F), NEW t, NEW n
  PROVE  Calm(w, E, RemoveAt(w, i), F, t, n)
  <1>1. w[i] \in LineSet
    BY DEF Wires
  <1>2. E \subseteq F /\ \A z \in F \ E : z[1] = w[i].task /\ z[2] = w[i].n /\ w[i].req \in Writing
    BY <1>1, FollowsIs
  <1>3. ~Way(w, t, n) => \A z \in F \ E : ~(z[1] = t /\ z[2] = n)
    BY <1>2 DEF Way, Of
  <1>4. ~Way(w, t, n) => ~Way(RemoveAt(w, i), t, n)
    BY RemoveIs DEF Way
  <1> QED
    BY <1>2, <1>3, <1>4 DEF Calm, Took, StopTook

LEMMA RemovePending ==
  ASSUME NEW w \in Wires, NEW i \in DOMAIN w, NEW E \in SUBSET EffectSet, NEW F, Follows(w[i], E, F),
         NEW t, NEW c, Pending(t, c, w, E)
  PROVE  Pending(t, c, RemoveAt(w, i), F)
  <1> DEFINE v == RemoveAt(w, i)
  <1>1. SUFFICES ASSUME c.op \in OrderOps
                 PROVE  /\ Few(v, t, c.n)
                        /\ \A j \in DOMAIN v : Of(v[j], t, c.n) =>
                              IF v[j].req = "protect" THEN c.op = "openprot" /\ Took(F, t, c.n) /\ ~StopTook(F, t, c.n)
                              ELSE ~Took(F, t, c.n) /\ (v[j].req = "openprot" => c.op = "openprot")
                        /\ c.op = "reduce" /\ c.stage = 1 => ~Took(F, t, c.n) /\ ~Way(v, t, c.n)
    BY DEF Pending
  <1>2. Calm(w, E, v, F, t, c.n)
    BY RemoveCalm
  <1>3. Few(w, t, c.n) /\ Few(v, t, c.n)
    BY <1>1, RemoveIs DEF Pending
  <1>4. CASE Of(w[i], t, c.n)
    <2>1. ~Way(v, t, c.n)
      BY <1>3, <1>4, RemoveIs
    <2>2. ~(c.op = "reduce" /\ c.stage = 1)
      BY <1>1, <1>4 DEF Pending, Way
    <2> QED
      BY <1>3, <2>1, <2>2 DEF Way
  <1>5. CASE ~Of(w[i], t, c.n)
    <2>1. w[i] \in LineSet
      BY DEF Wires
    <2>2. E \subseteq F /\ \A z \in F \ E : ~(z[1] = t /\ z[2] = c.n)
      BY <1>5, <2>1, FollowsIs DEF Of
    <2>3. (Took(F, t, c.n) <=> Took(E, t, c.n)) /\ (StopTook(F, t, c.n) <=> StopTook(E, t, c.n))
      BY <2>2 DEF Took, StopTook
    <2>4. \A j \in DOMAIN v : \E k \in DOMAIN w : v[j] = w[k]
      BY RemoveIs
    <2> HIDE DEF v
    <2>5. ASSUME NEW j \in DOMAIN v, Of(v[j], t, c.n)
          PROVE  IF v[j].req = "protect" THEN c.op = "openprot" /\ Took(F, t, c.n) /\ ~StopTook(F, t, c.n)
                 ELSE ~Took(F, t, c.n) /\ (v[j].req = "openprot" => c.op = "openprot")
      <3>1. PICK k \in DOMAIN w : v[j] = w[k]
        BY <2>4
      <3> QED
        BY <1>1, <2>3, <2>5, <3>1 DEF Pending
    <2> QED
      BY <1>1, <1>2, <1>3, <2>3, <2>5 DEF Pending, Calm
  <1> QED
    BY <1>4, <1>5

\* The first of two legs: the line stays and becomes the stop.
LegLine(w, i) == [w EXCEPT ![i].req = "protect"]
LegTook(w, i, E) == E \cup {<<w[i].task, w[i].n, "openprot">>}
LEMMA FirstLeg ==
  ASSUME NEW w \in Wires, NEW i \in DOMAIN w, w[i].req = "openprot", NEW E \in SUBSET EffectSet,
         NEW v, v = LegLine(w, i), NEW F, F = LegTook(w, i, E)
  PROVE  /\ v \in Wires /\ F \in SUBSET EffectSet
         /\ AllCalm(w, E, v, F) /\ AllPending(w, E, v, F)
  <1> DEFINE l == [w[i] EXCEPT !.req = "protect"]
  <1> USE DEF LegLine, LegTook
  <1>1. w[i] \in LineSet
    BY DEF Wires
  <1>2. /\ l \in LineSet /\ l.task = w[i].task /\ l.n = w[i].n /\ l.req = "protect"
        /\ l.req \in Writing <=> w[i].req \in Writing
    BY <1>1 DEF LineSet, Reqs, Writing
  <1>3. v = [w EXCEPT ![i] = l]
    BY <1>1 DEF Wires
  <1>4. /\ v \in Wires /\ \A t, n : Few(w, t, n) => Few(v, t, n)
        /\ \A t, n : Way(v, t, n) => Way(w, t, n)
    <2> HIDE DEF l
    <2> QED
      BY <1>2, <1>3, EditIs, ZenonT(40) DEF Alike
  <1>5. DOMAIN v = DOMAIN w /\ v[i] = l /\ \A j \in DOMAIN w \ {i} : v[j] = w[j]
    BY <1>3 DEF Wires
  <1> HIDE DEF l
  <1>6. F \in SUBSET EffectSet
    BY <1>1 DEF EffectSet, LineSet, Reqs
  <1>7. \A t, n : StopTook(F, t, n) <=> StopTook(E, t, n)
    BY DEF StopTook
  <1>8. \A t, n : Took(F, t, n) <=> Took(E, t, n) \/ (t = w[i].task /\ n = w[i].n)
    <2> DEFINE z == <<w[i].task, w[i].n, "openprot">>
    <2>1. z \in F /\ z[1] = w[i].task /\ z[2] = w[i].n /\ \A y \in F : y \in E \/ y = z
      OBVIOUS
    <2> HIDE DEF z
    <2> QED
      BY <2>1 DEF Took
  <1>9. ASSUME NEW t, NEW n PROVE Calm(w, E, v, F, t, n)
    <2>1. ~Way(w, t, n) => ~(t = w[i].task /\ n = w[i].n)
      BY DEF Way, Of, Writing
    <2> QED
      BY <1>4, <1>7, <1>8, <2>1 DEF Calm
  <1>10. ASSUME NEW t, NEW c, Pending(t, c, w, E), c.op \in OrderOps
         PROVE  /\ Few(v, t, c.n)
                /\ \A j \in DOMAIN v : Of(v[j], t, c.n) =>
                      IF v[j].req = "protect" THEN c.op = "openprot" /\ Took(F, t, c.n) /\ ~StopTook(F, t, c.n)
                      ELSE ~Took(F, t, c.n) /\ (v[j].req = "openprot" => c.op = "openprot")
                /\ c.op = "reduce" /\ c.stage = 1 => ~Took(F, t, c.n) /\ ~Way(v, t, c.n)
    <2>1. Few(w, t, c.n) /\ Few(v, t, c.n)
      BY <1>4, <1>10 DEF Pending
    <2>2. CASE Of(w[i], t, c.n)
      <3>1. t = w[i].task /\ c.n = w[i].n /\ c.op = "openprot" /\ ~Took(E, t, c.n)
        BY <1>10, <2>2 DEF Of, Pending
      <3>2. Took(F, t, c.n) /\ ~StopTook(F, t, c.n)
        BY <1>7, <1>8, <3>1 DEF Took, StopTook
      <3>3. \A j \in DOMAIN v : Of(v[j], t, c.n) => j = i
        BY <1>2, <1>5, <2>1, <2>2 DEF Few, Of
      <3> QED
        BY <1>2, <1>5, <2>1, <3>1, <3>2, <3>3
    <2>3. CASE ~Of(w[i], t, c.n)
      <3>1. ~(t = w[i].task /\ c.n = w[i].n)
        BY <2>3 DEF Of, Writing
      <3>2. \A j \in DOMAIN v : Of(v[j], t, c.n) => j # i /\ v[j] = w[j]
        BY <1>2, <1>5, <3>1 DEF Of
      <3> QED
        BY <1>4, <1>5, <1>7, <1>8, <1>10, <2>1, <3>1, <3>2 DEF Pending
    <2> QED
      BY <2>2, <2>3
  <1>11. ASSUME NEW t, NEW c, Pending(t, c, w, E) PROVE Pending(t, c, v, F)
    BY <1>10, <1>11 DEF Pending
  <1> QED
    BY <1>4, <1>6, <1>9, <1>11 DEF AllCalm, AllPending

\* A read that has looked.
LEMMA LookedLeg ==
  ASSUME NEW w \in Wires, NEW i \in DOMAIN w, NEW y \in Views, NEW v, v = [w EXCEPT ![i].view = <<y>>], NEW E
  PROVE  /\ v \in Wires
         /\ AllCalm(w, E, v, E) /\ AllPending(w, E, v, E)
  <1> DEFINE l == [w[i] EXCEPT !.view = <<y>>]
  <1>1. w[i] \in LineSet
    BY DEF Wires
  <1>2. l \in LineSet /\ l.task = w[i].task /\ l.n = w[i].n /\ l.req = w[i].req
    BY <1>1 DEF LineSet
  <1>3. v = [w EXCEPT ![i] = l]
    BY <1>1 DEF Wires
  <1>4. /\ v \in Wires /\ \A t, n : Few(w, t, n) => Few(v, t, n)
        /\ \A t, n : Way(v, t, n) => Way(w, t, n)
    <2> HIDE DEF l
    <2> QED
      BY <1>2, <1>3, EditIs DEF Alike
  <1>5. DOMAIN v = DOMAIN w /\ v[i] = l /\ \A j \in DOMAIN w \ {i} : v[j] = w[j]
    BY <1>3 DEF Wires
  <1> HIDE DEF l
  <1>6. \A j \in DOMAIN w : v[j].task = w[j].task /\ v[j].n = w[j].n /\ v[j].req = w[j].req
    BY <1>2, <1>5
  <1>7. ASSUME NEW t, NEW c, Pending(t, c, w, E) PROVE Pending(t, c, v, E)
    <2>1. \A j \in DOMAIN w : Of(v[j], t, c.n) => Of(w[j], t, c.n)
      BY <1>6 DEF Of
    <2>2. \A j \in DOMAIN v : Of(v[j], t, c.n) => Of(w[j], t, c.n) /\ v[j].req = w[j].req
      BY <1>5, <1>6, <2>1
    <2>3. c.op \in OrderOps => Few(v, t, c.n)
      BY <1>4, <1>7 DEF Pending
    <2>4. Way(v, t, c.n) => Way(w, t, c.n)
      BY <1>4
    <2>5. ASSUME c.op \in OrderOps, NEW j \in DOMAIN v, Of(v[j], t, c.n)
          PROVE  IF v[j].req = "protect" THEN c.op = "openprot" /\ Took(E, t, c.n) /\ ~StopTook(E, t, c.n)
                 ELSE ~Took(E, t, c.n) /\ (v[j].req = "openprot" => c.op = "openprot")
      <3>1. j \in DOMAIN w /\ Of(w[j], t, c.n) /\ v[j].req = w[j].req
        BY <1>5, <2>2, <2>5
      <3> QED
        BY <1>7, <2>5, <3>1 DEF Pending
    <2> QED
      BY <1>7, <2>3, <2>4, <2>5 DEF Pending
  <1>8. \A t, n : Calm(w, E, v, E, t, n)
    BY <1>4 DEF Calm
  <1> QED
    BY <1>4, <1>7, <1>8 DEF AllCalm, AllPending

\* A stage that is sent is news of its own call only.
LEMMA AddCalm ==
  ASSUME NEW w \in Wires, NEW t \in Tasks, NEW n \in Nat, NEW rs \in SUBSET Reqs, IsFiniteSet(rs), NEW E,
         NEW u, NEW m, u # t \/ m # n
  PROVE  Calm(w, E, w \o Lines(t, n, rs), E, u, m)
  <1> DEFINE v == w \o Lines(t, n, rs)
  <1>1. \A j \in DOMAIN v : (\E k \in DOMAIN w : v[j] = w[k]) \/ (\E r \in rs : v[j] = New(t, n, r))
    BY AddIs
  <1> HIDE DEF v
  <1>2. Way(v, u, m) => Way(w, u, m)
    BY <1>1 DEF Way, Of, New
  <1> QED
    BY <1>2 DEF Calm, v

LEMMA AddPending ==
  ASSUME NEW w \in Wires, NEW t \in Tasks, NEW n \in Nat, NEW rs \in SUBSET Reqs, IsFiniteSet(rs), NEW E,
         NEW u, NEW c, u # t \/ c.n # n, Pending(u, c, w, E)
  PROVE  Pending(u, c, w \o Lines(t, n, rs), E)
  <1> DEFINE v == w \o Lines(t, n, rs)
  <1>1. \A j \in DOMAIN v : (\E k \in DOMAIN w : v[j] = w[k]) \/ (\E r \in rs : v[j] = New(t, n, r))
    BY AddIs
  <1>2. Few(w, u, c.n) => Few(v, u, c.n)
    BY AddIs
  <1>3. Calm(w, E, v, E, u, c.n)
    BY AddCalm
  <1> HIDE DEF v
  <1>4. \A j \in DOMAIN v : Of(v[j], u, c.n) => \E k \in DOMAIN w : v[j] = w[k]
    BY <1>1 DEF Of, New
  <1> QED
    BY <1>2, <1>3, <1>4 DEF Pending, Calm, v

\* A write that is sent for the first time.
LEMMA SentPending ==
  ASSUME NEW w \in Wires, NEW t \in Tasks, NEW n \in Nat, NEW rs \in SUBSET Reqs, IsFiniteSet(rs), NEW E, NEW c,
         c.n = n, ~Way(w, t, n), ~Took(E, t, n), "protect" \notin rs, "openprot" \in rs => c.op = "openprot",
         c.op = "reduce" /\ c.stage = 1 => rs \cap Writing = {},
         \A p, q \in rs \cap Writing : p = q
  PROVE  Pending(t, c, w \o Lines(t, n, rs), E)
  <1> DEFINE v == w \o Lines(t, n, rs)
  <1>1. \A j \in DOMAIN v : (\E k \in DOMAIN w : v[j] = w[k]) \/ (\E r \in rs : v[j] = New(t, n, r))
    BY AddIs, SMTT(30)
  <1>2. Few(v, t, n)
    BY AddIs
  <1> HIDE DEF v
  <1>3. \A j \in DOMAIN v : Of(v[j], t, n) => \E r \in rs \cap Writing : v[j] = New(t, n, r)
    BY <1>1 DEF Of, New, Way
  <1>4. \A j \in DOMAIN v : Of(v[j], t, n) => v[j].req # "protect" /\ (v[j].req = "openprot" => c.op = "openprot")
    BY <1>3 DEF New
  <1>5. c.op = "reduce" /\ c.stage = 1 => ~Way(v, t, n)
    BY <1>3 DEF Way
  <1> QED
    BY <1>2, <1>4, <1>5 DEF Pending, v

(***************************************************************************)
(* Programs and verdicts                                                   *)
(***************************************************************************)
ReadOps == {"account", "netCheck", "reduce"}
TwoStage(op) == op = "reduce" \/ (kind = "cli" /\ op \in {"close", "cancelAll", "cancelOrder"})

\* What is sent is one request, but for the reads.
Single(op) ==
    CASE op = "entry" -> "new" [] op = "stop" -> "algo" [] op = "openprot" -> "openprot"
      [] op = "close" -> IF kind = "cli" THEN "pos" ELSE "close"
      [] op = "cancelAll" -> IF kind = "cli" THEN "cancelPlain" ELSE "cancelAll"
      [] op = "cancelOrder" -> "cancel" [] op = "cancelAlgo" -> "cancelAlgo" [] op = "cancelStale" -> "cancelOld"
      [] op = "getOrder" -> "query" [] op = "algoExists" -> "seek" [] op = "listAlgos" -> "algos"
Second(op) ==
    CASE op = "reduce" -> "reduce" [] op = "close" -> "closeq" [] op = "cancelAll" -> "cancelAlgos"
      [] op = "cancelOrder" -> "cancelAlgo"
Reads == IF kind = "demo" THEN {"pos", "orders"} ELSE IF kind = "cli" THEN {"pos", "orders", "algos"} ELSE {"acct"}

LEMMA ProgramIs ==
  ASSUME kind \in Kinds, NEW op \in OpsOf(kind)
  PROVE  /\ op \in ReadOps => Program(op)[1] = Reads
         /\ op \notin ReadOps => Program(op)[1] = {Single(op)}
         /\ TwoStage(op) => Program(op)[2] = {Second(op)}
  <1>1. CASE kind = "demo"
    <2>1. op \in CommonOps
      BY <1>1 DEF OpsOf
    <2>2. Program(op) = DemoProgram(op)
      BY <1>1 DEF Program
    <2> QED
      BY <1>1, <2>1, <2>2 DEF CommonOps, DemoProgram, TwoStage, Single, Second, Reads, ReadOps
  <1>2. CASE kind = "cli"
    <2>1. op \in CommonOps
      BY <1>2 DEF OpsOf
    <2>2. Program(op) = CliProgram(op)
      BY <1>2 DEF Program
    <2> QED
      BY <1>2, <2>1, <2>2 DEF CommonOps, CliProgram, TwoStage, Single, Second, Reads, ReadOps
  <1>3. CASE kind = "agent"
    <2>1. op \in AgentOps
      BY <1>3 DEF OpsOf
    <2>2. Program(op) = AgentProgram(op)
      BY <1>3 DEF Program
    <2> QED
      BY <1>3, <2>1, <2>2 DEF AgentOps, CommonOps, AgentProgram, TwoStage, Single, Second, Reads, ReadOps
  <1> QED
    BY <1>1, <1>2, <1>3 DEF Kinds

\* What both stages of a program are.
Stage(rs) ==
    /\ rs \in SUBSET Reqs /\ rs # {} /\ IsFiniteSet(rs) /\ "protect" \notin rs /\ "join" \notin rs
    /\ \A p, q \in rs \cap Writing : p = q

LEMMA StagesAre ==
  ASSUME kind \in Kinds, NEW op \in OpsOf(kind)
  PROVE  /\ Stage(Program(op)[1])
         /\ TwoStage(op) => Stage(Program(op)[2]) /\ Program(op)[1] \cap Program(op)[2] = {}
  <1>1. IsFiniteSet({"pos", "orders"}) /\ IsFiniteSet({"pos", "orders", "algos"}) /\ \A r : IsFiniteSet({r})
    <2>1. \A r : IsFiniteSet({r})
      BY FS_Singleton
    <2>2. IsFiniteSet({"pos"} \cup {"orders"})
      BY <2>1, FS_Union
    <2>3. IsFiniteSet({"pos"} \cup {"orders"} \cup {"algos"})
      BY <2>1, <2>2, FS_Union
    <2>4. {"pos", "orders"} = {"pos"} \cup {"orders"} /\ {"pos", "orders", "algos"} = {"pos"} \cup {"orders"} \cup {"algos"}
      OBVIOUS
    <2> QED
      BY <2>1, <2>2, <2>3, <2>4
  <1>2. op \in AgentOps
    BY DEF OpsOf, AgentOps
  <1>3. Stage(Reads)
    BY <1>1 DEF Stage, Reads, Reqs, Writing, NewOrders
  <1>4. \A r \in Reqs \ {"protect"} : Stage({r})
    BY <1>1 DEF Stage, Reqs
  <1>5. op \notin ReadOps => Single(op) \in Reqs \ {"protect"}
    BY <1>2 DEF AgentOps, CommonOps, ReadOps, Single, Reqs
  <1>6. TwoStage(op) => Second(op) \in Reqs \ {"protect"}
    BY DEF TwoStage, Second, Reqs
  <1>7. TwoStage(op) => /\ op \in ReadOps => Second(op) \notin Reads
                        /\ op \notin ReadOps => Second(op) # Single(op)
    BY DEF TwoStage, Second, Single, Reads, ReadOps
  <1>8. Stage(Program(op)[1])
    BY <1>3, <1>4, <1>5, ProgramIs
  <1>9. TwoStage(op) => Stage(Program(op)[2]) /\ Program(op)[1] \cap Program(op)[2] = {}
    BY <1>4, <1>6, <1>7, ProgramIs
  <1> QED
    BY <1>8, <1>9

\* The one request of a stage.
Sole(op, stage) == IF stage = 1 THEN Single(op) ELSE Second(op)
LEMMA SoleIs ==
  ASSUME kind \in Kinds, NEW op \in OpsOf(kind), NEW stage \in {1, 2}, stage = 2 => TwoStage(op),
         stage = 1 => op \notin ReadOps
  PROVE  /\ Program(op)[stage] = {Sole(op, stage)}
         /\ (CHOOSE r \in Program(op)[stage] : TRUE) = Sole(op, stage)
  <1>1. Program(op)[stage] = {Sole(op, stage)}
    BY ProgramIs DEF Sole
  <1> QED
    BY <1>1

\* The three kinds of verdict.
Rules(v) == v = <<"wait">> \/ v = <<"next">> \/ (v = <<"done", v[2]>> /\ v[2] = Result(v[2].word, v[2].leg, v[2]))

LEMMA DoneIs ==
  ASSUME NEW word, NEW leg, NEW view
  PROVE  /\ Rules(Done(word)) /\ Done(word)[1] = "done" /\ Done(word)[2].word = word /\ Done(word)[2].leg = "none"
         /\ Rules(DoneView(view)) /\ DoneView(view)[1] = "done" /\ DoneView(view)[2].word = "view"
         /\ DoneView(view)[2].pos = view.pos /\ DoneView(view)[2].stop = view.stop
         /\ Rules(DoneLegs(word, leg)) /\ DoneLegs(word, leg)[1] = "done" /\ DoneLegs(word, leg)[2].word = word
         /\ DoneLegs(word, leg)[2].leg = leg
         /\ Rules(Next_) /\ Next_[1] = "next" /\ Rules(<<"wait">>) /\ <<"wait">>[1] = "wait"
  BY DEF Rules, Done, DoneView, DoneLegs, Result, NoView, Next_

\* Reads: of an account, of a net check, and the first stage of a reduction.
LEMMA ReadVerdictIs ==
  ASSUME NEW op, NEW want, NEW got, NEW v, v = ReadVerdict(op, want, got)
  PROVE  /\ Rules(v)
         /\ v[1] = "wait" => want # {} /\ ~ReadFailed(got)
         /\ v[1] = "next" => op = "reduce"
         /\ v[1] = "done" => \/ v[2].word = "throw"
                             \/ op = "reduce" /\ v[2].word = "failed"
                             \/ op # "reduce" /\ want = {} /\ ~ReadFailed(got) /\ v[2].word = "view" /\ v[2].pos = ViewOf(got).pos /\ v[2].stop = ViewOf(got).stop
  <1>1. CASE ReadFailed(got)
    <2>1. v = Done("throw")
      BY <1>1 DEF ReadVerdict
    <2> QED
      BY <2>1, DoneIs
  <1>2. CASE ~ReadFailed(got) /\ want # {}
    <2>1. v = <<"wait">>
      BY <1>2 DEF ReadVerdict
    <2> QED
      BY <1>2, <2>1, DoneIs
  <1>3. CASE ~ReadFailed(got) /\ want = {} /\ op # "reduce"
    <2>1. v = DoneView(ViewOf(got))
      BY <1>3 DEF ReadVerdict
    <2> QED
      BY <1>3, <2>1, DoneIs
  <1>4. CASE ~ReadFailed(got) /\ want = {} /\ op = "reduce"
    <2>1. v = Next_ \/ v = Done("failed")
      BY <1>4 DEF ReadVerdict
    <2> QED
      BY <1>4, <2>1, DoneIs
  <1> QED
    BY <1>1, <1>2, <1>3, <1>4

\* Every other stage has one answer, and what is done with it.
Plain(op, stage) == op \notin ReadOps \/ stage = 2

LEMMA VerdictIs ==
  ASSUME kind \in Kinds, NEW op \in OpsOf(kind), NEW stage \in {1, 2}, stage = 2 => TwoStage(op), NEW want, NEW got
  PROVE  /\ ~Plain(op, stage) => Verdict(op, stage, want, got) = ReadVerdict(op, want, got)
         /\ op = "close" => Verdict(op, stage, want, got) = CloseVerdict(stage, got[Sole(op, stage)])
         /\ op = "cancelAll" => Verdict(op, stage, want, got) = CancelAllVerdict(stage, got[Sole(op, stage)], got)
         /\ op \in {"cancelOrder", "cancelAlgo", "cancelStale"} =>
               Verdict(op, stage, want, got) = CancelVerdict(op, stage, got[Sole(op, stage)])
         /\ op = "getOrder" => Verdict(op, stage, want, got) = GetOrderVerdict(got[Sole(op, stage)])
         /\ op \in {"algoExists", "listAlgos"} => \E word : Verdict(op, stage, want, got) = Done(word)
         /\ op = "openprot" => Verdict(op, stage, want, got) = OpenVerdict(Sole(op, stage), got[Sole(op, stage)])
         /\ op \in {"entry", "stop"} \/ (op = "reduce" /\ stage = 2) =>
               \E leg : Verdict(op, stage, want, got) = DoneLegs(receipt(Sole(op, stage), got[Sole(op, stage)]), leg)
  <1> DEFINE sole == CHOOSE r \in Program(op)[stage] : TRUE
  <1>1. Plain(op, stage) => sole = Sole(op, stage)
    BY SoleIs DEF Plain, TwoStage, ReadOps
  <1>2. TwoStage(op) => op \in {"reduce", "close", "cancelAll", "cancelOrder"}
    BY DEF TwoStage
  <1>3. CASE ~Plain(op, stage)
    <2>1. op \in {"account", "netCheck", "reduce"} /\ stage = 1
      BY <1>3 DEF Plain, ReadOps
    <2>2. Verdict(op, stage, want, got) = ReadVerdict(op, want, got)
      BY <2>1 DEF Verdict
    <2> QED
      BY <2>1, <2>2, <1>3
  <1>4. CASE Plain(op, stage)
    <2>1. ~(op \in {"account", "netCheck", "reduce"} /\ stage = 1)
      BY <1>4 DEF Plain, ReadOps
    <2> DEFINE s == Sole(op, stage)
    <2>2. sole = s
      BY <1>1, <1>4
    <2> HIDE DEF s
    <2>3. CASE op = "close"
      BY <2>1, <2>2, <2>3, <1>4 DEF Verdict, s
    <2>4. CASE op = "cancelAll"
      BY <2>1, <2>2, <2>4, <1>4 DEF Verdict, s
    <2>5. CASE op \in {"cancelOrder", "cancelAlgo", "cancelStale"}
      BY <2>1, <2>2, <2>5, <1>4 DEF Verdict, s
    <2>6. CASE op = "getOrder"
      BY <2>1, <2>2, <2>6, <1>4 DEF Verdict, s
    <2>7. CASE op \in {"algoExists", "listAlgos"}
      BY <2>1, <2>2, <2>7, <1>4 DEF Verdict, s
    <2>8. CASE op = "openprot"
      BY <2>1, <2>2, <2>8, <1>4 DEF Verdict, s
    <2>9. CASE op \in {"entry", "stop"} \/ (op = "reduce" /\ stage = 2)
      <3>1. Verdict(op, stage, want, got)
              = DoneLegs(receipt(s, got[s]), IF got[s].kind = "rejected" /\ got[s].val THEN "refused" ELSE "none")
        BY <2>1, <2>2, <2>9 DEF Verdict
      <3> QED
        BY <3>1, <2>9, <1>4 DEF s
    <2>10. CASE op \in {"account", "netCheck"}
      <3>1. stage = 2
        BY <2>1, <2>10
      <3> QED
        BY <3>1, <1>2, <2>10
    <2>11. op \in AgentOps
      BY DEF OpsOf, AgentOps
    <2> QED
      BY <2>3, <2>4, <2>5, <2>6, <2>7, <2>8, <2>9, <2>10, <2>11, <2>1 DEF AgentOps, CommonOps
  <1> QED
    BY <1>3, <1>4

\* What every verdict is: only a read waits, only a first stage goes on.
LEMMA VerdictRules ==
  ASSUME kind \in Kinds, NEW op \in OpsOf(kind), NEW stage \in {1, 2}, stage = 2 => TwoStage(op), NEW want, NEW got,
         NEW v, v = Verdict(op, stage, want, got)
  PROVE  /\ Rules(v)
         /\ v[1] = "wait" => want # {} /\ stage = 1 /\ op \in ReadOps
         /\ v[1] = "next" => stage = 1 /\ TwoStage(op)
  <1>1. CASE ~Plain(op, stage)
    <2>1. v = ReadVerdict(op, want, got) /\ op \in ReadOps /\ stage = 1
      BY <1>1, VerdictIs DEF Plain
    <2> QED
      BY <2>1, ReadVerdictIs DEF TwoStage
  <1> DEFINE a == got[Sole(op, stage)]
  <1>2. CASE Plain(op, stage)
    <2>1. CASE op = "close"
      <3>1. v = CloseVerdict(stage, a)
        BY <2>1, VerdictIs
      <3>2. (v = Next_ /\ kind = "cli" /\ stage = 1) \/ \E word : v = Done(word)
        BY <3>1 DEF CloseVerdict, Kinds
      <3> QED
        BY <2>1, <3>2, DoneIs DEF TwoStage
    <2>2. CASE op = "cancelAll"
      <3>1. v = CancelAllVerdict(stage, a, got)
        BY <2>2, VerdictIs
      <3>2. (v = Next_ /\ kind = "cli" /\ stage = 1) \/ \E word : v = Done(word)
        BY <3>1 DEF CancelAllVerdict
      <3> QED
        BY <2>2, <3>2, DoneIs DEF TwoStage
    <2>3. CASE op \in {"cancelOrder", "cancelAlgo", "cancelStale"}
      <3>1. v = CancelVerdict(op, stage, a)
        BY <2>3, VerdictIs
      <3>2. (v = Next_ /\ op = "cancelOrder" /\ kind = "cli" /\ stage = 1) \/ \E word : v = Done(word)
        BY <3>1 DEF CancelVerdict
      <3> QED
        BY <3>2, DoneIs DEF TwoStage
    <2>4. CASE op = "getOrder"
      <3>1. v = GetOrderVerdict(a)
        BY <2>4, VerdictIs
      <3>2. \E word : v = Done(word)
        BY <3>1 DEF GetOrderVerdict
      <3> QED
        BY <3>2, DoneIs
    <2>5. CASE op \in {"algoExists", "listAlgos"}
      <3>1. \E word : v = Done(word)
        BY <2>5, VerdictIs
      <3> QED
        BY <3>1, DoneIs
    <2>6. CASE op = "openprot"
      <3>1. v = OpenVerdict(Sole(op, stage), a)
        BY <2>6, VerdictIs
      <3>2. \E word, leg : v = DoneLegs(word, leg)
        BY <3>1 DEF OpenVerdict
      <3> QED
        BY <3>2, DoneIs
    <2>7. CASE op \in {"entry", "stop"} \/ (op = "reduce" /\ stage = 2)
      <3>1. \E word, leg : v = DoneLegs(word, leg)
        BY <2>7, VerdictIs
      <3> QED
        BY <3>1, DoneIs
    <2>8. CASE op \in {"account", "netCheck"}
      BY <1>2, <2>8 DEF Plain, ReadOps, TwoStage
    <2>9. op \in AgentOps
      BY DEF OpsOf, AgentOps
    <2> QED
      BY <2>1, <2>2, <2>3, <2>4, <2>5, <2>6, <2>7, <2>8, <2>9, <1>2 DEF AgentOps, CommonOps, Plain, ReadOps
  <1> QED
    BY <1>1, <1>2

(***************************************************************************)
(* Receipts of calls that return                                           *)
(***************************************************************************)
AnswerKinds == {"ok", "rejected", "gone", "local", "lost", "torn", "garbled"}

\* What an answer to the write of call n of t tells of the exchange.
Told(a, op, t, n, w, E) ==
    /\ a.kind \in AnswerKinds /\ (a.kind = "garbled" => kind = "cli")
    /\ a.kind = "ok" =>
         /\ Took(E, t, n)
         /\ IF op = "openprot"
            THEN /\ a.val.entry \in {"filled", "submitted"}
                 /\ a.val.stop = "submitted" => StopTook(E, t, n)
                 /\ a.val.stop \in {"failed", "skipped"} => ~StopTook(E, t, n) /\ ~Way(w, t, n)
            ELSE a.val \in {"filled", "submitted"}
    /\ a.kind \in {"local", "rejected", "gone"} => ~Took(E, t, n) /\ ~Way(w, t, n)

Orders(op, stage) ==
    op \in OpsOf(kind) \cap OrderOps /\ stage \in {1, 2} /\ (stage = 2 => TwoStage(op)) /\ Plain(op, stage)
Answers(op, stage, want, got, v, a) == v = Verdict(op, stage, want, got) /\ a = got[Sole(op, stage)]
Entered(e, op, t, n, out) == e.op = op /\ e.task = t /\ e.n = n /\ e.out = out
LEMMA OrderReceipt ==
  ASSUME kind \in Kinds, NEW op, NEW stage, Orders(op, stage), NEW want, NEW got, NEW v, NEW a, Answers(op, stage, want, got, v, a),
         NEW t, NEW n, NEW w, NEW E, Told(a, op, t, n, w, E),
         NEW e, Entered(e, op, t, n, v[2])
  PROVE  v[1] = "done" /\ Receipt(e, w, E)
  <1> USE DEF Orders, Answers, Entered
  <1> DEFINE r == Sole(op, stage)
  <1>1. r \in Writing /\ (op # "openprot" => r \in NewOrders) /\ (op = "openprot" => kind = "agent")
    <2>1. op = "reduce" => stage = 2
      BY DEF Plain, ReadOps
    <2>2. op # "reduce" => stage = 1
      BY DEF TwoStage, OrderOps
    <2>3. op \in {"entry", "stop", "reduce", "openprot"}
      BY DEF OrderOps
    <2>4. /\ op = "entry" => r = "new"
          /\ op = "stop" => r = "algo"
          /\ op = "openprot" => r = "openprot"
      BY <2>2 DEF Sole, Single
    <2>6. op = "reduce" => r = "reduce"
      BY <2>1 DEF Sole, Second
    <2>5. op = "openprot" => kind = "agent"
      BY DEF OpsOf, CommonOps
    <2> HIDE DEF r
    <2> QED
      BY <2>3, <2>4, <2>5, <2>6 DEF Writing, NewOrders
  <1> HIDE DEF r
  <1>2. Told(a, op, t, n, w, E) /\ a = got[r]
    BY DEF r
  <1>3. StopTook(E, t, n) => Took(E, t, n)
    BY DEF StopTook, Took
  <1>4. CASE a.kind = "ok"
    <2>1. CASE op = "openprot"
      <3>1. v = DoneLegs(a.val.entry, a.val.stop)
        BY <1>4, <2>1, VerdictIs DEF OpenVerdict, r
      <3>2. v[1] = "done" /\ v[2].word = a.val.entry /\ v[2].leg = a.val.stop
        BY <3>1, DoneIs
      <3> QED
        BY <1>2, <1>4, <2>1, <3>2 DEF Told, Receipt
    <2>2. CASE op # "openprot"
      <3>1. PICK leg : v = DoneLegs(receipt(r, a), leg)
        BY <2>2, VerdictIs DEF Plain, ReadOps, OrderOps, r
      <3>2. receipt(r, a) = a.val
        BY <1>4 DEF receipt
      <3>3. v[1] = "done" /\ v[2].word = a.val
        BY <3>1, <3>2, DoneIs
      <3> QED
        BY <1>2, <1>4, <2>2, <3>3 DEF Told, Receipt
    <2> QED
      BY <2>1, <2>2
  <1>5. CASE a.kind # "ok"
    <2>1. receipt(r, a) = IF Ambiguous(r, a.kind) THEN "unknown" ELSE "failed"
      BY <1>5 DEF receipt
    <2>2. ~Ambiguous(r, a.kind) => a.kind \in {"local", "rejected", "gone"}
      BY <1>1, <1>2, <1>5 DEF Told, AnswerKinds, Ambiguous, DemoAmbiguous, CliAmbiguous, AgentAmbiguous, isTransportError, Kinds
    <2>3. v[1] = "done" /\ v[2].word = receipt(r, a) /\ (op = "openprot" => v[2].leg = IF a.kind = "local" THEN "skipped" ELSE "unknown")
      <3>1. CASE op = "openprot"
        <4>1. v = DoneLegs(receipt(r, a), IF a.kind = "local" THEN "skipped" ELSE "unknown")
          BY <1>5, <3>1, VerdictIs DEF OpenVerdict, r
        <4> QED
          BY <4>1, DoneIs
      <3>2. CASE op # "openprot"
        <4>1. PICK leg : v = DoneLegs(receipt(r, a), leg)
          BY <3>2, VerdictIs DEF Plain, ReadOps, OrderOps, r
        <4> QED
          BY <3>2, <4>1, DoneIs
      <3> QED
        BY <3>1, <3>2
    <2> QED
      BY <1>2, <1>3, <2>1, <2>2, <2>3 DEF Told, Receipt
  <1> QED
    BY <1>4, <1>5

\* A reduction that ends with its reads has sent nothing.
LEMMA ReadReceipt ==
  ASSUME kind \in Kinds, NEW op \in OpsOf(kind), ~Plain(op, 1), NEW want, NEW got, NEW v, v = Verdict(op, 1, want, got), v[1] = "done",
         NEW t, NEW n, NEW w, NEW E, op = "reduce" => ~Took(E, t, n) /\ ~Way(w, t, n),
         NEW e, Entered(e, op, t, n, v[2])
  PROVE  Receipt(e, w, E)
  <1> USE DEF Entered
  <1>1. v = ReadVerdict(op, want, got) /\ op \in ReadOps
    BY VerdictIs DEF Plain
  <1>2. v[2].word \in {"throw", "failed"} \/ op # "reduce"
    BY <1>1, ReadVerdictIs
  <1> QED
    BY <1>1, <1>2 DEF Receipt, ReadOps, OrderOps

(***************************************************************************)
(* Calls, lines, effects and what the calls returned                       *)
(***************************************************************************)
Sane(C, L, w, E) ==
    /\ \A i \in DOMAIN w : w[i].n \in 1..C[w[i].task].n
    /\ \A z \in E : z[2] <= C[z[1]].n
    /\ \A e \in L : /\ e.task \in Tasks /\ e.n \in 1..C[e.task].n /\ (C[e.task].op # "none" => e.n < C[e.task].n)
                    /\ Receipt(e, w, E)
    /\ \A t \in Tasks : C[t].op # "none" => Pending(t, C[t], w, E)

LEMMA RemoveSane ==
  ASSUME NEW C, NEW L, NEW w \in Wires, NEW i \in DOMAIN w, NEW E \in SUBSET EffectSet, NEW F, Follows(w[i], E, F),
         Sane(C, L, w, E)
  PROVE  Sane(C, L, RemoveAt(w, i), F)
  <1> DEFINE v == RemoveAt(w, i)
  <1>1. w[i] \in LineSet
    BY DEF Wires
  <1>2. \A j \in DOMAIN v : \E k \in DOMAIN w : v[j] = w[k]
    BY RemoveIs
  <1>3. \A t, n : Calm(w, E, v, F, t, n)
    BY RemoveCalm
  <1>4. \A t, c : Pending(t, c, w, E) => Pending(t, c, v, F)
    BY RemovePending
  <1>5. \A z \in F \ E : z[1] = w[i].task /\ z[2] = w[i].n
    BY <1>1, FollowsIs
  <1> HIDE DEF v
  <1>6. \A j \in DOMAIN v : v[j].n \in 1..C[v[j].task].n
    BY <1>2 DEF Sane
  <1>7. ASSUME NEW z \in F PROVE z[2] <= C[z[1]].n
    <2>1. CASE z \in E
      BY <2>1 DEF Sane
    <2>2. CASE z \notin E
      <3>1. w[i].n \in 1..C[w[i].task].n
        BY DEF Sane
      <3> QED
        BY <1>1, <1>5, <2>2, <3>1
    <2> QED
      BY <2>1, <2>2
  <1>8. \A e \in L : Receipt(e, v, F)
    BY <1>3, CalmReceipt DEF Sane
  <1> QED
    BY <1>4, <1>6, <1>7, <1>8 DEF Sane, v

LEMMA FirstSane ==
  ASSUME NEW C, NEW L, NEW w \in Wires, NEW i \in DOMAIN w, w[i].req = "openprot", NEW E \in SUBSET EffectSet,
         NEW v, v = LegLine(w, i), NEW F, F = LegTook(w, i, E), Sane(C, L, w, E)
  PROVE  v \in Wires /\ F \in SUBSET EffectSet /\ Sane(C, L, v, F)
  <1>1. w[i] \in LineSet /\ DOMAIN v = DOMAIN w
    BY DEF Wires, LegLine
  <1>2. \A j \in DOMAIN w : v[j].task = w[j].task /\ v[j].n = w[j].n
    BY <1>1 DEF Wires, LineSet, LegLine
  <1>3. /\ v \in Wires /\ F \in SUBSET EffectSet
        /\ AllCalm(w, E, v, F) /\ AllPending(w, E, v, F)
    BY FirstLeg
  <1>4. \A j \in DOMAIN v : v[j].n \in 1..C[v[j].task].n
    BY <1>1, <1>2 DEF Sane
  <1>5. ASSUME NEW z \in F PROVE z[2] <= C[z[1]].n
    <2>1. w[i].n \in 1..C[w[i].task].n
      BY DEF Sane
    <2> QED
      BY <1>1, <2>1 DEF Sane, LegTook
  <1>6. ASSUME NEW e \in L PROVE Receipt(e, v, F)
    <2>1. Calm(w, E, v, F, e.task, e.n) /\ Receipt(e, w, E)
      BY <1>3 DEF Sane, AllCalm
    <2> QED
      BY <2>1, CalmReceipt
  <1> QED
    BY <1>3, <1>4, <1>5, <1>6 DEF Sane, AllPending

LookLine(w, i, y) == [w EXCEPT ![i].view = <<y>>]
LEMMA LookSane ==
  ASSUME NEW C, NEW L, NEW w \in Wires, NEW i \in DOMAIN w, NEW E, NEW y \in Views,
         NEW v, v = LookLine(w, i, y), Sane(C, L, w, E)
  PROVE  v \in Wires /\ Sane(C, L, v, E)
  <1>1. w[i] \in LineSet /\ DOMAIN v = DOMAIN w
    BY DEF Wires, LookLine
  <1>2. \A j \in DOMAIN w : v[j].task = w[j].task /\ v[j].n = w[j].n
    BY <1>1 DEF Wires, LineSet, LookLine
  <1>3. /\ v \in Wires
        /\ AllCalm(w, E, v, E) /\ AllPending(w, E, v, E)
    BY LookedLeg DEF LookLine
  <1>4. \A j \in DOMAIN v : v[j].n \in 1..C[v[j].task].n
    BY <1>1, <1>2 DEF Sane
  <1>5. ASSUME NEW e \in L PROVE Receipt(e, v, E)
    <2>1. Calm(w, E, v, E, e.task, e.n) /\ Receipt(e, w, E)
      BY <1>3 DEF Sane, AllCalm
    <2> QED
      BY <2>1, CalmReceipt
  <1> QED
    BY <1>3, <1>4, <1>5 DEF Sane, AllPending

\* The child is gone, and what it had not sent with it.
LEMMA EmptySane ==
  ASSUME NEW C, NEW L, NEW w, NEW E, Sane(C, L, w, E)
  PROVE  <<>> \in Wires /\ Sane(C, L, <<>>, E) /\ \A t, n : ~Way(<<>>, t, n)
  <1>1. <<>> \in Wires /\ DOMAIN <<>> = {}
    BY DEF Wires
  <1>2. \A t, n : ~Way(<<>>, t, n) /\ Few(<<>>, t, n)
    BY <1>1 DEF Way, Few
  <1>3. \A t, n : Calm(w, E, <<>>, E, t, n)
    BY <1>2 DEF Calm
  <1>4. ASSUME NEW t, NEW c, Pending(t, c, w, E) PROVE Pending(t, c, <<>>, E)
    BY <1>1, <1>2, <1>4 DEF Pending
  <1>5. \A e \in L : Receipt(e, <<>>, E)
    BY <1>3, CalmReceipt DEF Sane
  <1> QED
    BY <1>1, <1>2, <1>4, <1>5 DEF Sane

(***************************************************************************)
(* The type invariant                                                      *)
(***************************************************************************)
Exchange == [pos : 0..2, entry : {"none", "NEW", "FILLED", "CANCELED"}, stop : BOOLEAN, old : BOOLEAN]
Record(c) ==
    /\ c = [op |-> c.op, n |-> c.n, stage |-> c.stage, want |-> c.want, got |-> c.got, since |-> c.since]
    /\ c.op \in OpsOf(kind) \cup {"none"} /\ c.n \in Nat /\ c.stage \in 0..2
    /\ c.want \in SUBSET (Reqs \cup {"join"}) /\ c.since \in SUBSET Views
BusyCall(c) ==
    /\ c.op \in OpsOf(kind) /\ c.n >= 1 /\ c.stage \in {1, 2} /\ (c.stage = 2 => TwoStage(c.op)) /\ c.want # {}
    /\ \/ c.want = {"join"} /\ c.op = "account"
       \/ c.want \in SUBSET Program(c.op)[c.stage]
    /\ DOMAIN c.got \cap c.want = {}
    /\ c.stage = 1 => DOMAIN c.got \subseteq Program(c.op)[1]
GoodCall(c) == Record(c) /\ IF c.op = "none" THEN c.want = {} ELSE BusyCall(c)
GoodCalls(C) == C = [t \in Tasks |-> C[t]] /\ \A t \in Tasks : GoodCall(C[t])
Looked(w) == \A i \in DOMAIN w : w[i].view # <<>> => w[i].req = "acct"
Runner(C, u) == u \in Tasks \cup {"none"} /\ (u # "none" => kind = "agent" /\ C[u].op = "account" /\ C[u].want # {"join"})
Slot(s) == s = <<>> \/ s = <<s[1]>>
TypeInv ==
    /\ script \in Scripts
    /\ x \in Exchange
    /\ wire \in Wires /\ Looked(wire)
    /\ GoodCalls(call) /\ Runner(call, running)
    /\ Slot(cache) /\ Slot(orderCache)
    /\ seen \in SUBSET Views /\ effects \in SUBSET EffectSet

LEMMA ScriptIs ==
  ASSUME script \in Scripts
  PROVE  /\ kind \in Kinds /\ \A t \in Tasks : script.ops[t] \in Seq(OpsOf(kind))
         /\ "none" \notin OpsOf(kind) /\ OpsOf(kind) \subseteq AgentOps
  BY BackendsAssumption DEF kind, OpsOf, AgentOps, CommonOps

\* Nothing changes the script.
LEMMA SameScript ==
  ASSUME script' = script, GoodCalls(call')
  PROVE  GoodCalls(call)'
  <1>1. kind' = kind
    BY DEF kind
  <1>2. ASSUME NEW t \in Tasks PROVE GoodCall(call[t])'
    <2>1. GoodCall(call'[t])
      BY DEF GoodCalls
    <2>2. Record(call[t])'
      BY <1>1, <2>1 DEF GoodCall, Record
    <2>3. call'[t].op # "none" => BusyCall(call[t])'
      BY <1>1, <2>1 DEF GoodCall, BusyCall, Program, TwoStage
    <2> QED
      BY <2>1, <2>2, <2>3 DEF GoodCall
  <1> QED
    BY <1>2 DEF GoodCalls

LEMMA SnapIs == ASSUME x \in Exchange PROVE Snap \in Views
  BY DEF Snap, Exchange, Views

LEMMA ApplyIs ==
  ASSUME NEW e \in Exchange, NEW r
  PROVE  /\ Apply(e, r) \in Exchange
         /\ e.entry # "none" => Apply(e, r).entry # "none"
         /\ e.entry \in {"FILLED", "CANCELED"} => Apply(e, r).entry \in {"FILLED", "CANCELED"}
  <1>1. CASE ~Accepts(e, r)
    BY <1>1 DEF Apply
  <1> DEFINE good(d) == /\ d \in Exchange
                        /\ e.entry # "none" => d.entry # "none"
                        /\ e.entry \in {"FILLED", "CANCELED"} => d.entry \in {"FILLED", "CANCELED"}
  <1>2. CASE Accepts(e, r)
    <2>1. CASE r \in {"new", "openprot"}
      <3>1. e.entry = "none"
        BY <1>2, <2>1 DEF Accepts
      <3>2. Apply(e, r) = IF Market THEN [e EXCEPT !.entry = "FILLED", !.pos = 2] ELSE [e EXCEPT !.entry = "NEW"]
        BY <1>2, <2>1 DEF Apply
      <3>3. good([e EXCEPT !.entry = "FILLED", !.pos = 2])
        <4> DEFINE f == [e EXCEPT !.entry = "FILLED"]
        <4>1. f \in Exchange /\ f.entry = "FILLED"
          BY DEF Exchange
        <4>2. [e EXCEPT !.entry = "FILLED", !.pos = 2] = [f EXCEPT !.pos = 2]
          OBVIOUS
        <4> HIDE DEF f
        <4>3. [f EXCEPT !.pos = 2] \in Exchange /\ [f EXCEPT !.pos = 2].entry = "FILLED"
          BY <4>1 DEF Exchange
        <4> QED
          BY <4>2, <4>3
      <3>4. good([e EXCEPT !.entry = "NEW"])
        BY <3>1 DEF Exchange
      <3> QED
        BY <3>2, <3>3, <3>4
    <2>2. CASE r \in {"algo", "protect"}
      <3>1. Apply(e, r) = [e EXCEPT !.stop = TRUE]
        BY <1>2, <2>2 DEF Apply
      <3> QED
        BY <3>1 DEF Exchange
    <2>3. CASE r \in {"close", "closeq"}
      <3>1. Apply(e, r) = [e EXCEPT !.pos = 0]
        BY <1>2, <2>3 DEF Apply
      <3> QED
        BY <3>1 DEF Exchange
    <2>4. CASE r = "reduce"
      <3>1. Apply(e, r) = [e EXCEPT !.pos = @ - 1] /\ e.pos > 0
        BY <1>2, <2>4 DEF Apply, Accepts
      <3> QED
        BY <3>1 DEF Exchange
    <2>5. CASE r = "cancel"
      <3>1. Apply(e, r) = [e EXCEPT !.entry = "CANCELED"]
        BY <1>2, <2>5 DEF Apply
      <3> QED
        BY <3>1 DEF Exchange
    <2>6. CASE r \in {"cancelAlgo", "cancelOld", "cancelAlgos"}
      <3>1. Apply(e, r) = [e EXCEPT !.stop = FALSE, !.old = FALSE]
        BY <1>2, <2>6 DEF Apply
      <3> QED
        BY <3>1 DEF Exchange
    <2>7. CASE r = "cancelPlain"
      <3>1. Apply(e, r) = [e EXCEPT !.entry = IF @ = "NEW" THEN "CANCELED" ELSE @]
        BY <1>2, <2>7 DEF Apply
      <3> QED
        BY <3>1 DEF Exchange
    <2>8. CASE r = "cancelAll"
      <3>1. Apply(e, r) = [e EXCEPT !.entry = IF @ = "NEW" THEN "CANCELED" ELSE @, !.stop = FALSE, !.old = FALSE]
        BY <1>2, <2>8 DEF Apply
      <3> QED
        BY <3>1 DEF Exchange
    <2>9. CASE r \notin NewOrders \cup {"close", "cancel", "cancelAlgo", "cancelOld", "cancelAll", "cancelPlain", "cancelAlgos", "openprot", "protect"}
      <3>1. Apply(e, r) = e
        BY <1>2, <2>9 DEF Apply, NewOrders
      <3> QED
        BY <3>1
    <2> QED
      BY <2>1, <2>2, <2>3, <2>4, <2>5, <2>6, <2>7, <2>8, <2>9 DEF NewOrders
  <1> QED
    BY <1>1, <1>2

(***************************************************************************)
(* Calls that begin, go on and return                                      *)
(***************************************************************************)
\* The same calls, whatever they await.
Same(c, d) == d.op = c.op /\ d.n = c.n /\ d.stage = c.stage

LEMMA SamePending ==
  ASSUME NEW t, NEW c, NEW d, Same(c, d), NEW w, NEW E, Pending(t, c, w, E)
  PROVE  Pending(t, d, w, E)
  BY DEF Same, Pending

LEMMA LineIs ==
  ASSUME NEW w \in Wires, NEW i \in DOMAIN w
  PROVE  /\ w[i] \in LineSet /\ w[i].task \in Tasks /\ w[i].n \in Nat /\ w[i].req \in Reqs
         /\ DOMAIN w = 1..Len(w) /\ Len(w) \in Nat
  <1>1. w[i] \in LineSet
    BY DEF Wires
  <1> QED
    BY <1>1 DEF Wires, LineSet

LEMMA SameSane ==
  ASSUME NEW C, NEW D, \A u \in Tasks : Same(C[u], D[u]), NEW L, NEW w \in Wires, NEW E \in SUBSET EffectSet, Sane(C, L, w, E)
  PROVE  Sane(D, L, w, E)
  <1>1. \A u \in Tasks : D[u].op = C[u].op /\ D[u].n = C[u].n
    BY DEF Same
  <1>2. \A i \in DOMAIN w : w[i].task \in Tasks
    BY LineIs
  <1>3. \A z \in E : z[1] \in Tasks
    BY DEF EffectSet
  <1>4. \A u \in Tasks : D[u].op # "none" => Pending(u, D[u], w, E)
    BY <1>1, SamePending DEF Sane
  <1>5. \A i \in DOMAIN w : w[i].n \in 1..D[w[i].task].n
    BY <1>1, <1>2 DEF Sane
  <1>6. \A z \in E : z[2] <= D[z[1]].n
    BY <1>1, <1>3 DEF Sane
  <1>7. \A e \in L : e.task \in Tasks /\ e.n \in 1..D[e.task].n /\ (D[e.task].op # "none" => e.n < D[e.task].n)
    BY <1>1 DEF Sane
  <1>8. \A e \in L : Receipt(e, w, E)
    BY DEF Sane
  <1> QED
    BY <1>4, <1>5, <1>6, <1>7, <1>8 DEF Sane

\* Calls ts return, M is the log with their entries.
Freed(C, D, ts) ==
    /\ \A u \in ts : D[u].op = "none" /\ D[u].n = C[u].n /\ C[u].op # "none" /\ C[u].n \in Nat /\ C[u].n >= 1
    /\ \A u \in Tasks \ ts : Same(C[u], D[u])
Logged(C, L, M, ts, w, E) == \A e \in M \ L : e.task \in ts /\ e.n = C[e.task].n /\ Receipt(e, w, E)
LEMMA ReturnSane ==
  ASSUME NEW C, NEW D, NEW ts \in SUBSET Tasks, Freed(C, D, ts),
         NEW L, NEW w \in Wires, NEW E \in SUBSET EffectSet, Sane(C, L, w, E),
         NEW M, Logged(C, L, M, ts, w, E)
  PROVE  Sane(D, M, w, E)
  <1> USE DEF Freed, Logged
  <1>1. \A u \in Tasks : D[u].n = C[u].n
    BY DEF Same
  <1>2. \A i \in DOMAIN w : w[i].task \in Tasks
    BY LineIs
  <1>3. \A z \in E : z[1] \in Tasks
    BY DEF EffectSet
  <1>4. ASSUME NEW u \in Tasks, D[u].op # "none" PROVE Pending(u, D[u], w, E)
    <2>1. u \notin ts
      BY <1>4
    <2>2. Same(C[u], D[u]) /\ Pending(u, C[u], w, E)
      BY <1>4, <2>1 DEF Same, Sane
    <2> QED
      BY <2>2, SamePending
  <1>5. \A i \in DOMAIN w : w[i].n \in 1..D[w[i].task].n
    BY <1>1, <1>2 DEF Sane
  <1>6. \A z \in E : z[2] <= D[z[1]].n
    BY <1>1, <1>3 DEF Sane
  <1>7. ASSUME NEW e \in M
        PROVE  /\ e.task \in Tasks /\ e.n \in 1..D[e.task].n /\ (D[e.task].op # "none" => e.n < D[e.task].n)
               /\ Receipt(e, w, E)
    <2>1. CASE e \in L
      <3>1. /\ e.task \in Tasks /\ e.n \in 1..C[e.task].n /\ (C[e.task].op # "none" => e.n < C[e.task].n)
            /\ Receipt(e, w, E)
        BY <2>1 DEF Sane
      <3>2. D[e.task].op # "none" => C[e.task].op # "none"
        BY <3>1 DEF Same
      <3> QED
        BY <1>1, <3>1, <3>2
    <2>2. CASE e \notin L
      BY <2>2, <1>1
    <2> QED
      BY <2>1, <2>2
  <1> QED
    BY <1>4, <1>5, <1>6, <1>7 DEF Sane

\* A stage rs of call t goes on the wire.
LEMMA NextSane ==
  ASSUME NEW C, NEW D, NEW t \in Tasks, C[t].op # "none", NEW n \in Nat, C[t].n = n, n >= 1,
         D[t].op = C[t].op, D[t].n = C[t].n, D[t].stage = 2,
         \A u \in Tasks \ {t} : Same(C[u], D[u]),
         NEW L, NEW w \in Wires, NEW E \in SUBSET EffectSet, Sane(C, L, w, E),
         NEW rs, Stage(rs), "openprot" \notin rs,
         C[t].op \in OrderOps => ~Way(w, t, n) /\ ~Took(E, t, n)
  PROVE  w \o Lines(t, n, rs) \in Wires /\ Sane(D, L, w \o Lines(t, n, rs), E)
  <1> DEFINE v == w \o Lines(t, n, rs)
  <1>1. rs \in SUBSET Reqs /\ IsFiniteSet(rs) /\ "protect" \notin rs /\ \A p, q \in rs \cap Writing : p = q
    BY DEF Stage
  <1>9. v \in Wires
    BY <1>1, AddIs
  <1>2. \A j \in DOMAIN v : (\E k \in DOMAIN w : v[j] = w[k]) \/ (\E r \in rs : v[j] = New(t, n, r))
    BY <1>1, AddIs, SMTT(30)
  <1>3. \A u \in Tasks : D[u].n = C[u].n /\ D[u].op = C[u].op
    BY DEF Same
  <1>4. \A u, m : u # t \/ m # n => Calm(w, E, v, E, u, m)
    BY <1>1, AddCalm
  <1>5. ASSUME NEW u \in Tasks, D[u].op # "none" PROVE Pending(u, D[u], v, E)
    <2>1. CASE u # t
      <3>1. Same(C[u], D[u]) /\ Pending(u, C[u], w, E)
        BY <2>1, <1>5 DEF Same, Sane
      <3>2. Pending(u, D[u], w, E)
        BY <3>1, SamePending
      <3> QED
        BY <1>1, <2>1, <3>2, AddPending
    <2>2. CASE u = t
      <3>1. CASE D[u].op \in OrderOps
        <4>1. ~Way(w, t, n) /\ ~Took(E, t, n) /\ D[u].n = n /\ ~(D[u].op = "reduce" /\ D[u].stage = 1)
          BY <2>2, <3>1
        <4> QED
          BY <1>1, <2>2, <4>1, SentPending
      <3> QED
        BY <3>1 DEF Pending
    <2> QED
      BY <2>1, <2>2
  <1>6. ASSUME NEW j \in DOMAIN v PROVE v[j].n \in 1..D[v[j].task].n
    <2>1. CASE \E k \in DOMAIN w : v[j] = w[k]
      <3>1. PICK k \in DOMAIN w : v[j] = w[k]
        BY <2>1
      <3>2. w[k].n \in 1..C[w[k].task].n /\ w[k].task \in Tasks
        BY LineIs DEF Sane
      <3> HIDE DEF v
      <3> QED
        BY <1>3, <3>1, <3>2
    <2>2. CASE \E r \in rs : v[j] = New(t, n, r)
      <3>1. v[j].task = t /\ v[j].n = n
        BY <2>2 DEF New
      <3>2. n >= 1
        OBVIOUS
      <3> HIDE DEF v
      <3> QED
        BY <1>3, <3>1, <3>2
    <2> QED
      BY <1>2, <2>1, <2>2
  <1>7. \A z \in E : z[2] <= D[z[1]].n
    BY <1>3 DEF Sane, EffectSet
  <1>8. ASSUME NEW e \in L
        PROVE  /\ e.task \in Tasks /\ e.n \in 1..D[e.task].n /\ (D[e.task].op # "none" => e.n < D[e.task].n)
               /\ Receipt(e, v, E)
    <2>1. /\ e.task \in Tasks /\ e.n \in 1..C[e.task].n /\ (C[e.task].op # "none" => e.n < C[e.task].n)
          /\ Receipt(e, w, E)
      BY DEF Sane
    <2>2. e.task # t \/ e.n # n
      BY <2>1
    <2>3. Calm(w, E, v, E, e.task, e.n)
      BY <1>4, <2>2
    <2> HIDE DEF v
    <2> QED
      BY <1>3, <2>1, <2>3, CalmReceipt
  <1> HIDE DEF v
  <1> QED
    BY <1>9, <1>5, <1>6, <1>7, <1>8 DEF Sane, v

\* Call n of t is new: nothing of it is on the wire, nothing came of it.
LEMMA NewIs ==
  ASSUME NEW C, NEW t \in Tasks, C[t].n \in Nat, NEW L, NEW w \in Wires, NEW E \in SUBSET EffectSet, Sane(C, L, w, E),
         NEW n, n = C[t].n + 1
  PROVE  /\ ~Way(w, t, n) /\ ~Took(E, t, n) /\ ~StopTook(E, t, n)
         /\ \A e \in L : e.task # t \/ e.n # n
  <1>1. ASSUME NEW i \in DOMAIN w, w[i].task = t, w[i].n = n PROVE FALSE
    <2>1. w[i].n \in 1..C[w[i].task].n
      BY DEF Sane
    <2> QED
      BY <1>1, <2>1
  <1>2. ASSUME NEW z \in E, z[1] = t, z[2] = n PROVE FALSE
    <2>1. z[2] <= C[z[1]].n
      BY DEF Sane
    <2> QED
      BY <1>2, <2>1
  <1>3. ASSUME NEW e \in L, e.task = t, e.n = n PROVE FALSE
    <2>1. e.n \in 1..C[e.task].n
      BY DEF Sane
    <2> QED
      BY <1>3, <2>1
  <1> QED
    BY <1>1, <1>2, <1>3 DEF Way, Of, Took, StopTook

\* The wire v has no news of other calls.
Elsewhere(w, v, E, t, n) ==
    /\ \A u, m : u # t \/ m # n => Calm(w, E, v, E, u, m)
    /\ \A u, c : (u # t \/ c.n # n) /\ Pending(u, c, w, E) => Pending(u, c, v, E)
    /\ \A j \in DOMAIN v : (\E k \in DOMAIN w : v[j] = w[k]) \/ (v[j].task = t /\ v[j].n = n)
Others(C, D, t) == \A u \in Tasks \ {t} : Same(C[u], D[u])
\* Only this call is logged.
Adds(L, M, t, n, v, E) == L \subseteq M /\ \A e \in M \ L : e.task = t /\ e.n = n /\ Receipt(e, v, E)

\* It is counted; what is pending of it is known.
LEMMA CountSane ==
  ASSUME NEW C, NEW D, NEW t \in Tasks, NEW n \in Nat, C[t].op = "none", C[t].n \in Nat, n = C[t].n + 1, D[t].n = n,
         Others(C, D, t),
         NEW L, NEW w \in Wires, NEW E \in SUBSET EffectSet, Sane(C, L, w, E),
         NEW v \in Wires, Elsewhere(w, v, E, t, n), D[t].op # "none" => Pending(t, D[t], v, E),
         NEW M, Adds(L, M, t, n, v, E), D[t].op # "none" => M = L
  PROVE  Sane(D, M, v, E)
  <1>1. \A u \in Tasks \ {t} : D[u].n = C[u].n /\ D[u].op = C[u].op
    BY DEF Same, Others
  <1>2. ASSUME NEW u \in Tasks, NEW m, m \in 1..C[u].n PROVE m \in 1..D[u].n
    BY <1>1, <1>2
  <1>3. ASSUME NEW u \in Tasks, D[u].op # "none" PROVE Pending(u, D[u], v, E)
    <2>1. CASE u # t
      <3>1. Same(C[u], D[u]) /\ Pending(u, C[u], w, E)
        BY <2>1, <1>3 DEF Same, Sane, Others
      <3>2. Pending(u, D[u], w, E)
        BY <3>1, SamePending
      <3> QED
        BY <2>1, <3>2 DEF Elsewhere
    <2> QED
      BY <1>3, <2>1
  <1>4. ASSUME NEW j \in DOMAIN v PROVE v[j].n \in 1..D[v[j].task].n
    <2>1. CASE \E k \in DOMAIN w : v[j] = w[k]
      <3>1. PICK k \in DOMAIN w : v[j] = w[k]
        BY <2>1
      <3>2. w[k].n \in 1..C[w[k].task].n /\ w[k].task \in Tasks
        BY LineIs DEF Sane
      <3> QED
        BY <1>2, <3>1, <3>2
    <2>2. CASE v[j].task = t /\ v[j].n = n
      BY <2>2
    <2> QED
      BY <2>1, <2>2 DEF Elsewhere
  <1>5. ASSUME NEW z \in E PROVE z[2] <= D[z[1]].n
    <2>1. z[2] <= C[z[1]].n /\ z[1] \in Tasks /\ z[2] \in Nat
      BY DEF Sane, EffectSet
    <2>2. CASE z[1] = t
      BY <2>1, <2>2
    <2>3. CASE z[1] # t
      BY <1>1, <2>1, <2>3
    <2> QED
      BY <2>2, <2>3
  <1>6. ASSUME NEW e \in M
        PROVE  /\ e.task \in Tasks /\ e.n \in 1..D[e.task].n /\ (D[e.task].op # "none" => e.n < D[e.task].n)
               /\ Receipt(e, v, E)
    <2>1. CASE e \in L
      <3>1. /\ e.task \in Tasks /\ e.n \in 1..C[e.task].n /\ (C[e.task].op # "none" => e.n < C[e.task].n)
            /\ Receipt(e, w, E)
        BY <2>1 DEF Sane
      <3>2. Calm(w, E, v, E, e.task, e.n)
        <4>1. e.task # t \/ e.n # n
          BY <3>1
        <4> QED
          BY <4>1 DEF Elsewhere
      <3>3. Receipt(e, v, E)
        BY <3>1, <3>2, CalmReceipt
      <3>4. e.n \in 1..D[e.task].n
        BY <1>2, <3>1
      <3>5. CASE e.task = t
        BY <3>1, <3>3, <3>4, <3>5
      <3>6. CASE e.task # t
        BY <1>1, <3>1, <3>3, <3>4, <3>6
      <3> QED
        BY <3>5, <3>6
    <2>2. CASE e \notin L
      BY <2>2 DEF Adds
    <2> QED
      BY <2>1, <2>2
  <1> QED
    BY <1>3, <1>4, <1>5, <1>6 DEF Sane

LEMMA AddElsewhere ==
  ASSUME NEW w \in Wires, NEW t \in Tasks, NEW n \in Nat, NEW rs, Stage(rs), NEW E
  PROVE  w \o Lines(t, n, rs) \in Wires /\ Elsewhere(w, w \o Lines(t, n, rs), E, t, n)
  <1> DEFINE v == w \o Lines(t, n, rs)
  <1>1. rs \in SUBSET Reqs /\ IsFiniteSet(rs)
    BY DEF Stage
  <1>2. v \in Wires
    BY <1>1, AddIs
  <1>3. \A j \in DOMAIN v : (\E k \in DOMAIN w : v[j] = w[k]) \/ (\E r \in rs : v[j] = New(t, n, r))
    BY <1>1, AddIs
  <1>4. \A u, m : u # t \/ m # n => Calm(w, E, v, E, u, m)
    BY <1>1, AddCalm
  <1>5. \A u, c : (u # t \/ c.n # n) /\ Pending(u, c, w, E) => Pending(u, c, v, E)
    BY <1>1, AddPending
  <1> HIDE DEF v
  <1>6. \A j \in DOMAIN v : (\E k \in DOMAIN w : v[j] = w[k]) \/ (v[j].task = t /\ v[j].n = n)
    BY <1>3 DEF New
  <1>7. Elsewhere(w, v, E, t, n)
    BY <1>4, <1>5, <1>6 DEF Elsewhere
  <1> QED
    BY <1>2, <1>7 DEF v

\* Its first requests are sent.
LEMMA BeginSane ==
  ASSUME NEW C, NEW D, NEW t \in Tasks, NEW n \in Nat, C[t].op = "none", C[t].n \in Nat, n = C[t].n + 1, D[t].n = n,
         D[t].op # "none", Others(C, D, t),
         NEW L, NEW w \in Wires, NEW E \in SUBSET EffectSet, Sane(C, L, w, E),
         NEW rs, Stage(rs), "openprot" \in rs => D[t].op = "openprot",
         D[t].op = "reduce" /\ D[t].stage = 1 => rs \cap Writing = {}
  PROVE  w \o Lines(t, n, rs) \in Wires /\ Sane(D, L, w \o Lines(t, n, rs), E)
  <1> DEFINE v == w \o Lines(t, n, rs)
  <1>1. rs \in SUBSET Reqs /\ IsFiniteSet(rs) /\ "protect" \notin rs /\ \A p, q \in rs \cap Writing : p = q
    BY DEF Stage
  <1>2. v \in Wires /\ Elsewhere(w, v, E, t, n)
    BY AddElsewhere
  <1>3. ~Way(w, t, n) /\ ~Took(E, t, n)
    BY NewIs
  <1>4. Pending(t, D[t], v, E)
    BY <1>1, <1>3, SentPending
  <1>5. Adds(L, L, t, n, v, E)
    BY DEF Adds
  <1> HIDE DEF v
  <1>6. Sane(D, L, v, E)
    BY <1>2, <1>4, <1>5, CountSane
  <1> QED
    BY <1>2, <1>6 DEF v

\* It joins a reader, or returns at once.
LEMMA QuietSane ==
  ASSUME NEW C, NEW D, NEW t \in Tasks, NEW n \in Nat, C[t].op = "none", C[t].n \in Nat, n = C[t].n + 1, D[t].n = n,
         D[t].op \notin OrderOps, Others(C, D, t),
         NEW L, NEW w \in Wires, NEW E \in SUBSET EffectSet, Sane(C, L, w, E),
         NEW M, Adds(L, M, t, n, w, E), D[t].op # "none" => M = L
  PROVE  Sane(D, M, w, E)
  <1>1. Elsewhere(w, w, E, t, n)
    BY StillCalm DEF Elsewhere
  <1>2. Pending(t, D[t], w, E)
    BY DEF Pending
  <1> QED
    BY <1>1, <1>2, CountSane

(***************************************************************************)
(* An answer reaches its call                                              *)
(***************************************************************************)
Six(op, n, stage, want, got, since) ==
    [op |-> op, n |-> n, stage |-> stage, want |-> want, got |-> got, since |-> since]
\* A call record, field by field.
Sixed(c) == c = Six(c.op, c.n, c.stage, c.want, c.got, c.since)

LEMMA FieldsOfSix ==
  ASSUME NEW p1, NEW p2, NEW p3, NEW p4, NEW p5, NEW p6, NEW q0, q0 = Six(p1, p2, p3, p4, p5, p6)
  PROVE  /\ q0.op = p1 /\ q0.n = p2 /\ q0.stage = p3 /\ q0.want = p4 /\ q0.got = p5 /\ q0.since = p6 /\ Sixed(q0)
  BY DEF Six, Sixed

LEMMA SetN == ASSUME NEW c, Sixed(c), NEW v PROVE [c EXCEPT !.n = v] = Six(c.op, v, c.stage, c.want, c.got, c.since)
  BY DEF Six, Sixed

LEMMA SetStage == ASSUME NEW c, Sixed(c), NEW v PROVE [c EXCEPT !.stage = v] = Six(c.op, c.n, v, c.want, c.got, c.since)
  BY DEF Six, Sixed

LEMMA SetWant == ASSUME NEW c, Sixed(c), NEW v PROVE [c EXCEPT !.want = v] = Six(c.op, c.n, c.stage, v, c.got, c.since)
  BY DEF Six, Sixed

LEMMA SetGot == ASSUME NEW c, Sixed(c), NEW v PROVE [c EXCEPT !.got = v] = Six(c.op, c.n, c.stage, c.want, v, c.since)
  BY DEF Six, Sixed

LEMMA SetSince == ASSUME NEW c, Sixed(c), NEW v PROVE [c EXCEPT !.since = v] = Six(c.op, c.n, c.stage, c.want, c.got, v)
  BY DEF Six, Sixed

Since(c, y) == [c EXCEPT !.since = @ \cup {y}]

LEMMA SinceFields ==
  ASSUME NEW c, Sixed(c), NEW y, NEW d, d = Since(c, y)
  PROVE  d.op = c.op /\ d.n = c.n /\ d.stage = c.stage /\ d.want = c.want /\ d.got = c.got /\ d.since = c.since \cup {y} /\ Sixed(d)
  <1>1. d = Six(c.op, c.n, c.stage, c.want, c.got, c.since \cup {y})
    BY SetSince DEF Since
  <1> QED
    BY <1>1, FieldsOfSix

After(c, r, a) == [c EXCEPT !.want = @ \ {r}, !.got = With(@, r, a)]

LEMMA WantFields ==
  ASSUME NEW c, Sixed(c), NEW v, NEW b, b = [c EXCEPT !.want = v]
  PROVE  Sixed(b) /\ b.op = c.op /\ b.n = c.n /\ b.stage = c.stage /\ b.want = v /\ b.got = c.got /\ b.since = c.since
  <1>1. b = Six(c.op, c.n, c.stage, v, c.got, c.since)
    BY SetWant
  <1> QED
    BY <1>1, FieldsOfSix

LEMMA GotFields ==
  ASSUME NEW c, Sixed(c), NEW v, NEW b, b = [c EXCEPT !.got = v]
  PROVE  Sixed(b) /\ b.op = c.op /\ b.n = c.n /\ b.stage = c.stage /\ b.want = c.want /\ b.got = v /\ b.since = c.since
  <1>1. b = Six(c.op, c.n, c.stage, c.want, v, c.since)
    BY SetGot
  <1> QED
    BY <1>1, FieldsOfSix

LEMMA StageFields ==
  ASSUME NEW c, Sixed(c), NEW v, NEW b, b = [c EXCEPT !.stage = v]
  PROVE  Sixed(b) /\ b.op = c.op /\ b.n = c.n /\ b.stage = v /\ b.want = c.want /\ b.got = c.got /\ b.since = c.since
  <1>1. b = Six(c.op, c.n, v, c.want, c.got, c.since)
    BY SetStage
  <1> QED
    BY <1>1, FieldsOfSix

Drop(c, r) == [c EXCEPT !.want = @ \ {r}]

LEMMA DropFields ==
  ASSUME NEW c, Sixed(c), NEW r, NEW b, b = Drop(c, r)
  PROVE  Sixed(b) /\ b.op = c.op /\ b.n = c.n /\ b.stage = c.stage /\ b.want = c.want \ {r} /\ b.got = c.got /\ b.since = c.since
  <1> SUFFICES ASSUME NEW want, want = c.want \ {r}
               PROVE  Sixed(b) /\ b.op = c.op /\ b.n = c.n /\ b.stage = c.stage /\ b.want = want /\ b.got = c.got /\ b.since = c.since
    OBVIOUS
  <1>1. b = [c EXCEPT !.want = want]
    BY DEF Drop
  <1> QED
    BY <1>1, WantFields

LEMMA AfterFields ==
  ASSUME NEW c, Sixed(c), NEW r, NEW a, NEW d, d = After(c, r, a)
  PROVE  /\ d.op = c.op /\ d.n = c.n /\ d.stage = c.stage /\ d.want = c.want \ {r} /\ d.got = With(c.got, r, a)
         /\ d.since = c.since /\ Sixed(d)
  <1>1. d = [Drop(c, r) EXCEPT !.got = With(Drop(c, r).got, r, a)]
    BY DEF After, Drop
  <1>2. ASSUME NEW b, b = Drop(c, r), NEW got, got = With(b.got, r, a)
        PROVE  LET f == [b EXCEPT !.got = got] IN
               Sixed(f) /\ f.op = c.op /\ f.n = c.n /\ f.stage = c.stage /\ f.want = c.want \ {r} /\ f.got = With(c.got, r, a) /\ f.since = c.since
    <2>1. Sixed(b) /\ b.op = c.op /\ b.n = c.n /\ b.stage = c.stage /\ b.want = c.want \ {r} /\ b.got = c.got /\ b.since = c.since
      BY <1>2, DropFields
    <2> QED
      BY <1>2, <2>1, GotFields
  <1> QED
    BY <1>1, <1>2

LEMMA WithDomain == ASSUME NEW got, NEW r, NEW a PROVE DOMAIN With(got, r, a) = DOMAIN got \cup {r}
  BY DEF With

LEMMA WithNew == ASSUME NEW got, NEW r, NEW a PROVE With(got, r, a)[r] = a
  BY DEF With

LEMMA WithOld == ASSUME NEW got, NEW r, NEW a, NEW q \in DOMAIN got \ {r} PROVE With(got, r, a)[q] = got[q]
  BY DEF With


LEMMA SixedIs == ASSUME NEW c, Record(c) PROVE Sixed(c)
  BY DEF Record, Six, Sixed

LEMMA SinceIs ==
  ASSUME NEW c, GoodCall(c), NEW y \in Views, NEW d, d = Since(c, y)
  PROVE  GoodCall(d) /\ Same(c, d) /\ d.want = c.want /\ d.got = c.got /\ d.since = c.since \cup {y}
  <1>1. Record(c)
    BY DEF GoodCall
  <1>2. /\ d.op = c.op /\ d.n = c.n /\ d.stage = c.stage /\ d.want = c.want /\ d.got = c.got /\ d.since = c.since \cup {y}
        /\ Sixed(d)
    BY <1>1, SixedIs, SinceFields
  <1>3. Record(d)
    BY <1>1, <1>2 DEF Record, Six, Sixed
  <1>4. GoodCall(d)
    BY <1>2, <1>3 DEF GoodCall, BusyCall
  <1> QED
    BY <1>2, <1>4 DEF Same

\* What a task awaits no more.
LEMMA FreeFields ==
  ASSUME NEW n, NEW d, d = [Idle EXCEPT !.n = n]
  PROVE  d.op = "none" /\ d.n = n /\ d.stage = 0 /\ d.want = {} /\ d.got = <<>> /\ d.since = {} /\ Sixed(d)
  <1>1. Idle = Six("none", 0, 0, {}, <<>>, {})
    BY DEF Idle, Six
  <1>2. Idle.op = "none" /\ Idle.n = 0 /\ Idle.stage = 0 /\ Idle.want = {} /\ Idle.got = <<>> /\ Idle.since = {} /\ Sixed(Idle)
    BY <1>1, FieldsOfSix
  <1>3. d = Six(Idle.op, n, Idle.stage, Idle.want, Idle.got, Idle.since)
    BY <1>2, SetN
  <1> QED
    BY <1>2, <1>3, FieldsOfSix

LEMMA FreeIs ==
  ASSUME NEW c, GoodCall(c), NEW d, d = [Idle EXCEPT !.n = c.n]
  PROVE  GoodCall(d) /\ d.op = "none" /\ d.n = c.n /\ d.want = {} /\ d.stage = 0
  <1>1. c.n \in Nat
    BY DEF GoodCall, Record
  <1>2. d.op = "none" /\ d.n = c.n /\ d.stage = 0 /\ d.want = {} /\ d.got = <<>> /\ d.since = {} /\ Sixed(d)
    <2>1. ASSUME NEW n, n = c.n
          PROVE  d.op = "none" /\ d.n = n /\ d.stage = 0 /\ d.want = {} /\ d.got = <<>> /\ d.since = {} /\ Sixed(d)
      <3>1. d = [Idle EXCEPT !.n = n]
        BY <2>1
      <3> QED
        BY <3>1, FreeFields
    <2> QED
      BY <2>1
  <1>3. Record(d)
    BY <1>1, <1>2 DEF Record, Six, Sixed
  <1> QED
    BY <1>2, <1>3 DEF GoodCall

LEMMA AfterIs ==
  ASSUME NEW c, Record(c), NEW r, NEW a, NEW d, d = After(c, r, a)
  PROVE  /\ Record(d) /\ Same(c, d)
         /\ d.want = c.want \ {r} /\ d.since = c.since /\ d.got = With(c.got, r, a)
  <1>1. Sixed(c)
    BY DEF Record, Six, Sixed
  <1>2. /\ d.op = c.op /\ d.n = c.n /\ d.stage = c.stage /\ d.want = c.want \ {r} /\ d.got = With(c.got, r, a)
        /\ d.since = c.since /\ Sixed(d)
    BY <1>1, AfterFields
  <1>3. d.op = c.op /\ d.n = c.n /\ d.stage = c.stage /\ d.want \in SUBSET (Reqs \cup {"join"}) /\ d.since = c.since
    BY <1>2 DEF Record
  <1>4. Record(d)
    BY <1>2, <1>3 DEF Record, Six, Sixed
  <1> QED
    BY <1>2, <1>4 DEF Same
\* An awaited request is one of its stage; of most stages the only one.
LEMMA AwaitedIs ==
  ASSUME script \in Scripts, NEW c, GoodCall(c), NEW r \in c.want \ {"join"}
  PROVE  /\ BusyCall(c) /\ c.op # "none" /\ Record(c)
         /\ r \in Program(c.op)[c.stage] /\ c.want \in SUBSET Program(c.op)[c.stage]
         /\ c.op \in OpsOf(kind) /\ c.n \in Nat /\ c.n >= 1 /\ c.stage \in {1, 2} /\ (c.stage = 2 => TwoStage(c.op))
         /\ Plain(c.op, c.stage) => r = Sole(c.op, c.stage) /\ c.want = {r}
  <1>1. Record(c) /\ BusyCall(c)
    BY DEF GoodCall
  <1>2. /\ r \in Program(c.op)[c.stage] /\ c.want \in SUBSET Program(c.op)[c.stage]
        /\ c.op \in OpsOf(kind) /\ c.n \in Nat /\ c.n >= 1 /\ c.stage \in {1, 2} /\ (c.stage = 2 => TwoStage(c.op))
    BY <1>1 DEF BusyCall, Record
  <1>3. c.op # "none"
    BY <1>2, ScriptIs
  <1>4. ASSUME Plain(c.op, c.stage)
        PROVE  r = Sole(c.op, c.stage) /\ c.want = {r}
    <2>1. Program(c.op)[c.stage] = {Sole(c.op, c.stage)}
      BY <1>2, <1>4, ScriptIs, SoleIs DEF Plain
    <2> QED
      BY <1>2, <2>1
  <1> QED
    BY <1>1, <1>2, <1>3, <1>4


\* It waits for more, or goes on to its second stage.
LEMMA WaitIs ==
  ASSUME script \in Scripts, NEW c, GoodCall(c), NEW r \in c.want \ {"join"}, NEW a, c.want \ {r} # {},
         NEW d, d = After(c, r, a)
  PROVE  GoodCall(d)
  <1>1. /\ BusyCall(c) /\ c.op # "none" /\ Record(c)
        /\ r \in Program(c.op)[c.stage] /\ c.want \in SUBSET Program(c.op)[c.stage]
    BY AwaitedIs
  <1>2. Record(d) /\ Same(c, d) /\ d.want = c.want \ {r} /\ d.got = With(c.got, r, a)
    BY <1>1, AfterIs
  <1>3. DOMAIN d.got = DOMAIN c.got \cup {r}
    <2>1. DOMAIN With(c.got, r, a) = DOMAIN c.got \cup {r}
      BY WithDomain
    <2> QED
      BY <1>2, <2>1
  <1>4. BusyCall(d)
    BY <1>1, <1>2, <1>3 DEF BusyCall, Same
  <1> QED
    BY <1>1, <1>2, <1>4 DEF GoodCall, Same

Onward(c) == [c EXCEPT !.stage = @ + 1, !.want = Program(c.op)[c.stage + 1]]

Stage2(c) == [c EXCEPT !.stage = @ + 1]

LEMMA StageTwoFields ==
  ASSUME NEW c, Sixed(c), c.stage = 1, NEW b, b = Stage2(c)
  PROVE  Sixed(b) /\ b.op = c.op /\ b.n = c.n /\ b.stage = 2 /\ b.want = c.want /\ b.got = c.got /\ b.since = c.since
  <1>1. b = [c EXCEPT !.stage = 2]
    BY DEF Stage2
  <1> QED
    BY <1>1, StageFields

LEMMA OnwardFields ==
  ASSUME NEW c, Sixed(c), c.stage = 1, NEW d, d = Onward(c)
  PROVE  Sixed(d) /\ d.op = c.op /\ d.n = c.n /\ d.stage = 2 /\ d.want = Program(c.op)[2] /\ d.got = c.got /\ d.since = c.since
  <1>1. d = [Stage2(c) EXCEPT !.want = Program(c.op)[2]]
    BY DEF Onward, Stage2
  <1>2. ASSUME NEW b, b = Stage2(c), NEW want, want = Program(c.op)[2]
        PROVE  LET f == [b EXCEPT !.want = want] IN
               Sixed(f) /\ f.op = c.op /\ f.n = c.n /\ f.stage = 2 /\ f.want = want /\ f.got = c.got /\ f.since = c.since
    <2>1. Sixed(b) /\ b.op = c.op /\ b.n = c.n /\ b.stage = 2 /\ b.want = c.want /\ b.got = c.got /\ b.since = c.since
      BY <1>2, StageTwoFields
    <2> QED
      BY <1>2, <2>1, WantFields
  <1> QED
    BY <1>1, <1>2

LEMMA OnwardIs ==
  ASSUME script \in Scripts, NEW c, GoodCall(c), NEW r \in c.want \ {"join"}, NEW a, c.stage = 1, TwoStage(c.op),
         NEW b, b = After(c, r, a), NEW d, d = Onward(b)
  PROVE  /\ GoodCall(d) /\ d.op = c.op /\ d.n = c.n /\ d.stage = 2 /\ d.want = Program(c.op)[2] /\ d.got = With(c.got, r, a)
         /\ d.since = c.since
         /\ Stage(Program(c.op)[2]) /\ "openprot" \notin Program(c.op)[2]
         /\ Program(b.op)[b.stage + 1] = Program(c.op)[2]
  <1>1. BusyCall(c) /\ c.op # "none" /\ Record(c) /\ r \in Program(c.op)[c.stage]
    BY AwaitedIs
  <1>2. Record(b) /\ Same(c, b) /\ b.want = c.want \ {r} /\ b.got = With(c.got, r, a) /\ b.since = c.since
    BY <1>1, AfterIs
  <1>3. /\ Stage(Program(c.op)[2]) /\ Program(c.op)[1] \cap Program(c.op)[2] = {} /\ Program(c.op)[2] = {Second(c.op)}
        /\ c.op \in OpsOf(kind)
    BY <1>1, ScriptIs, StagesAre, ProgramIs DEF BusyCall
  <1>4. Program(b.op)[b.stage + 1] = Program(c.op)[2]
    BY <1>2 DEF Same
  <1>5. Sixed(b) /\ b.stage = 1 /\ b.op = c.op /\ b.n = c.n
    BY <1>2, SixedIs DEF Same
  <1>6. Sixed(d) /\ d.op = c.op /\ d.n = c.n /\ d.stage = 2 /\ d.want = Program(c.op)[2] /\ d.got = b.got /\ d.since = b.since
    BY <1>5, OnwardFields
  <1>7. Record(d)
    BY <1>1, <1>2, <1>3, <1>6 DEF Record, Stage, Six, Sixed
  <1>8. DOMAIN d.got = DOMAIN c.got \cup {r}
    <2>1. DOMAIN With(c.got, r, a) = DOMAIN c.got \cup {r}
      BY WithDomain
    <2>2. d.got = With(c.got, r, a)
      BY <1>2, <1>6
    <2> QED
      BY <2>1, <2>2
  <1>9. BusyCall(d)
    BY <1>1, <1>3, <1>6, <1>8 DEF BusyCall, Stage
  <1>10. "openprot" \notin Program(c.op)[2]
    BY <1>3 DEF TwoStage, Second
  <1> QED
    BY <1>1, <1>2, <1>3, <1>4, <1>6, <1>7, <1>9, <1>10 DEF GoodCall

\* Every busy call sees the exchange as it is now.
ContinuedTo(D, t, c, y) ==
    /\ GoodCalls(D)
    /\ \A u \in Tasks : LET b == IF u = t THEN c ELSE call[u] IN
          /\ Same(b, D[u]) /\ D[u].want = b.want /\ D[u].got = b.got
          /\ D[u].since = IF b.op # "none" THEN b.since \cup {y} ELSE b.since
LEMMA ContinueIs ==
  ASSUME GoodCalls(call), Snap' \in Views, NEW t \in Tasks, NEW c, GoodCall(c), Continue(t, c)
  PROVE  /\ ContinuedTo(call', t, c, Snap')
         /\ seen' = seen \cup {Snap'} /\ log' = log /\ cache' = cache /\ running' = running /\ orderCache' = orderCache
  <1> DEFINE old(u) == IF u = t THEN c ELSE call[u]
             new(u) == IF old(u).op # "none" THEN Since(old(u), Snap') ELSE old(u)
  <1>1. call' = [u \in Tasks |-> new(u)]
    BY DEF Continue, Since
  <1>2. \A u \in Tasks : GoodCall(old(u))
    BY DEF GoodCalls
  <1> HIDE DEF old
  <1>3. ASSUME NEW u \in Tasks
        PROVE  /\ GoodCall(call'[u]) /\ Same(old(u), call'[u]) /\ call'[u].want = old(u).want /\ call'[u].got = old(u).got
               /\ call'[u].since = IF old(u).op # "none" THEN old(u).since \cup {Snap'} ELSE old(u).since
    <2>1. GoodCall(old(u))
      BY <1>2
    <2>2. CASE old(u).op # "none"
      <3>1. call'[u] = Since(old(u), Snap')
        BY <1>1, <2>2
      <3> QED
        BY <2>1, <2>2, <3>1, SinceIs
    <2>3. CASE old(u).op = "none"
      <3>1. call'[u] = old(u)
        BY <1>1, <2>3
      <3> QED
        BY <2>1, <2>3, <3>1 DEF Same
    <2> QED
      BY <2>2, <2>3
  <1>4. call' = [u \in Tasks |-> call'[u]]
    BY <1>1
  <1>5. GoodCalls(call')
    BY <1>3, <1>4 DEF GoodCalls
  <1>6. ContinuedTo(call', t, c, Snap')
    BY <1>3, <1>5 DEF ContinuedTo, old
  <1> QED
    BY <1>6 DEF Continue, cacheVars

\* The calls ts are free, the others go on.
ReturnedTo(D, ts, y) ==
    /\ GoodCalls(D)
    /\ \A u \in ts : D[u].op = "none" /\ D[u].n = call[u].n /\ D[u].want = {}
    /\ \A u \in Tasks \ ts :
          /\ Same(call[u], D[u]) /\ D[u].want = call[u].want /\ D[u].got = call[u].got
          /\ D[u].since = IF call[u].op # "none" THEN call[u].since \cup {y} ELSE call[u].since
Entries(L, ts, out) ==
    \A e \in L : /\ e.task \in ts /\ e.n = call[e.task].n /\ e.op = call[e.task].op /\ e.out = out
                 /\ (e.op \in {"account", "netCheck"} => Fresh_(out, call[e.task].since)) => e.fresh
LEMMA ReturnIs ==
  ASSUME GoodCalls(call), Snap' \in Views, NEW ts \in SUBSET Tasks, ts # {}, NEW op, \A u \in ts : call[u].op = op,
         NEW out, Return(ts, out)
  PROVE  /\ ReturnedTo(call', ts, Snap')
         /\ log \subseteq log' /\ Entries(log' \ log, ts, out)
         /\ seen' = IF op \in WriteOps THEN {Snap'} ELSE seen \cup {Snap'}
         /\ cache' = IF op \in {"account", "netCheck"} /\ kind = "agent" /\ out.word # "throw" THEN <<out>>
                     ELSE invalidateAccount(op, cache)
         /\ running' = IF running \in ts THEN "none" ELSE running
         /\ orderCache' \in {orderCache, <<>>, <<out>>}
  <1> DEFINE new(u) == IF u \in ts THEN [Idle EXCEPT !.n = call[u].n]
                       ELSE IF call[u].op # "none" THEN Since(call[u], Snap') ELSE call[u]
  <1>1. call' = [u \in Tasks |-> new(u)]
    BY DEF Return, Busy, Since
  <1>2. \A u \in Tasks : GoodCall(call[u])
    BY DEF GoodCalls
  <1>3. ASSUME NEW u \in ts
        PROVE  GoodCall(call'[u]) /\ call'[u].op = "none" /\ call'[u].n = call[u].n /\ call'[u].want = {}
    <2>1. call'[u] = [Idle EXCEPT !.n = call[u].n]
      BY <1>1
    <2>2. GoodCall(call[u])
      BY <1>2
    <2> QED
      BY <2>1, <2>2, FreeIs, ZenonT(40)
  <1>4. ASSUME NEW u \in Tasks \ ts
        PROVE  /\ GoodCall(call'[u]) /\ Same(call[u], call'[u]) /\ call'[u].want = call[u].want /\ call'[u].got = call[u].got
               /\ call'[u].since = IF call[u].op # "none" THEN call[u].since \cup {Snap'} ELSE call[u].since
    <2>1. GoodCall(call[u])
      BY <1>2
    <2>2. CASE call[u].op # "none"
      <3>1. call'[u] = Since(call[u], Snap')
        BY <1>1, <2>2
      <3> QED
        BY <2>1, <2>2, <3>1, SinceIs
    <2>3. CASE call[u].op = "none"
      <3>1. call'[u] = call[u]
        BY <1>1, <2>3
      <3> QED
        BY <2>1, <2>3, <3>1 DEF Same
    <2> QED
      BY <2>2, <2>3
  <1>5. call' = [u \in Tasks |-> call'[u]]
    BY <1>1
  <1>6. GoodCalls(call')
    BY <1>3, <1>4, <1>5 DEF GoodCalls
  <1>7. ReturnedTo(call', ts, Snap')
    BY <1>3, <1>4, <1>6 DEF ReturnedTo
  <1> DEFINE first == IF running \in ts THEN running ELSE CHOOSE u \in ts : TRUE
  <1>8. first \in ts /\ call[first].op = op
    OBVIOUS
  <1> DEFINE entry(u) == [task |-> u, n |-> call[u].n, op |-> call[u].op, out |-> out,
                          fresh |-> call[u].op \in {"account", "netCheck"} => Fresh_(out, call[u].since),
                          late |-> call[u].want = {"join"} /\ Crossed(first)]
  <1>9. log' = log \cup {entry(u) : u \in ts}
    BY DEF Return
  <1>10. ASSUME NEW u \in ts
         PROVE  /\ entry(u).task = u /\ entry(u).n = call[u].n /\ entry(u).op = call[u].op /\ entry(u).out = out
                /\ (call[u].op \in {"account", "netCheck"} => Fresh_(out, call[u].since)) => entry(u).fresh
    OBVIOUS
  <1> HIDE DEF entry
  <1>11. log \subseteq log' /\ Entries(log' \ log, ts, out)
    <2>1. ASSUME NEW e \in log' \ log
          PROVE  /\ e.task \in ts /\ e.n = call[e.task].n /\ e.op = call[e.task].op /\ e.out = out
                 /\ (e.op \in {"account", "netCheck"} => Fresh_(out, call[e.task].since)) => e.fresh
      <3>1. PICK u \in ts : e = entry(u)
        BY <1>9
      <3> QED
        BY <1>10, <3>1
    <2> QED
      BY <1>9, <2>1 DEF Entries
  <1>12. seen' = IF op \in WriteOps THEN {Snap'} ELSE seen \cup {Snap'}
    BY <1>8 DEF Return
  <1>13. cache' = IF op \in {"account", "netCheck"} /\ kind = "agent" /\ out.word # "throw" THEN <<out>>
                  ELSE invalidateAccount(op, cache)
    BY <1>8 DEF Return
  <1>14. running' = (IF running \in ts THEN "none" ELSE running) /\ orderCache' \in {orderCache, <<>>, <<out>>}
    BY DEF Return
  <1> QED
    BY <1>7, <1>11, <1>12, <1>13, <1>14

\* The three ways an answer is taken.
Waits(t, c, d, w) == wire' = w /\ Continue(t, d) /\ d.want # {} /\ c.stage = 1 /\ c.op \in ReadOps
Ends(t, w, out) == wire' = w /\ Return(Joined(t), out)
GoesOn(t, c, d, w) ==
    /\ c.stage = 1 /\ TwoStage(c.op)
    /\ wire' = w \o Lines(t, c.n, Program(c.op)[2]) /\ Continue(t, Onward(d))

LEMMA SettleIs ==
  ASSUME script \in Scripts, NEW t \in Tasks, NEW c, c = call[t], GoodCall(c), NEW r \in c.want \ {"join"}, NEW a, NEW w,
         Settle(t, r, a, w), NEW d, d = After(c, r, a), NEW v, v = Verdict(c.op, c.stage, d.want, d.got)
  PROVE  /\ Rules(v)
         /\ \/ v[1] = "wait" /\ Waits(t, c, d, w)
            \/ v[1] = "done" /\ Ends(t, w, v[2])
            \/ v[1] = "next" /\ GoesOn(t, c, d, w)
  <1>1. /\ c.op \in OpsOf(kind) /\ c.stage \in {1, 2} /\ (c.stage = 2 => TwoStage(c.op)) /\ Record(c) /\ kind \in Kinds
    BY AwaitedIs, ScriptIs
  <1>2. d.op = c.op /\ d.n = c.n /\ d.stage = c.stage
    BY <1>1, AfterIs DEF Same
  <1>3. /\ Rules(v) /\ (v[1] = "wait" => d.want # {} /\ c.stage = 1 /\ c.op \in ReadOps)
        /\ (v[1] = "next" => c.stage = 1 /\ TwoStage(c.op))
    BY <1>1, VerdictRules
  <1>4. v = Verdict(d.op, d.stage, d.want, d.got)
    BY <1>2
  <1>5. d = [call[t] EXCEPT !.want = @ \ {r}, !.got = With(@, r, a)]
    BY DEF After
  <1>6. CASE v[1] = "wait"
    <2>1. wire' = w /\ Continue(t, d)
      BY <1>4, <1>5, <1>6 DEF Settle
    <2> QED
      BY <1>3, <1>6, <2>1 DEF Waits
  <1>7. CASE v[1] = "done"
    <2>1. wire' = w /\ Return(Joined(t), v[2])
      BY <1>4, <1>5, <1>7 DEF Settle
    <2> QED
      BY <1>3, <1>7, <2>1 DEF Ends
  <1>8. CASE v[1] = "next"
    <2>1. /\ Continue(t, [d EXCEPT !.stage = @ + 1, !.want = Program(d.op)[d.stage + 1]])
          /\ wire' = w \o Lines(t, d.n, Program(d.op)[d.stage + 1])
      BY <1>4, <1>5, <1>8 DEF Settle
    <2>2. Continue(t, Onward(d))
      BY <2>1 DEF Onward
    <2>3. c.stage = 1 /\ TwoStage(c.op) /\ Program(d.op)[d.stage + 1] = Program(c.op)[2]
      BY <1>2, <1>3, <1>8
    <2> QED
      BY <1>2, <1>3, <1>8, <2>1, <2>2, <2>3 DEF GoesOn
  <1>9. v[1] \in {"wait", "next", "done"}
    <2>1. <<"wait">>[1] = "wait" /\ <<"next">>[1] = "next" /\ <<"done", v[2]>>[1] = "done"
      OBVIOUS
    <2> QED
      BY <1>3, <2>1 DEF Rules
  <1> QED
    BY <1>3, <1>6, <1>7, <1>8, <1>9

\* Those who joined a reader await the same.
LEMMA JoinedIs ==
  ASSUME GoodCalls(call), Runner(call, running), NEW t \in Tasks, NEW r \in call[t].want \ {"join"}, script \in Scripts
  PROVE  /\ Joined(t) \in SUBSET Tasks /\ t \in Joined(t)
         /\ \A u \in Joined(t) : call[u].op = call[t].op /\ call[u].op # "none" /\ call[u].n \in Nat /\ call[u].n >= 1
         /\ call[t].op # "account" => Joined(t) = {t}
         /\ running \in Joined(t) => running = t
  <1>1. GoodCall(call[t])
    BY DEF GoodCalls
  <1>2. call[t].op # "none" /\ call[t].n \in Nat /\ call[t].n >= 1
    BY <1>1, AwaitedIs
  <1>3. ASSUME NEW u \in Tasks, running = t, call[u].want = {"join"}
        PROVE  call[t].op = "account" /\ call[u].op = "account" /\ call[u].n \in Nat /\ call[u].n >= 1
    <2>1. call[t].op = "account"
      BY <1>3, BackendsAssumption DEF Runner
    <2>2. GoodCall(call[u])
      BY DEF GoodCalls
    <2>3. call[u].op # "none"
      BY <1>3, <2>2 DEF GoodCall
    <2>4. BusyCall(call[u]) /\ call[u].n \in Nat
      BY <2>2, <2>3 DEF GoodCall, Record
    <2>5. ~(call[u].want \in SUBSET Program(call[u].op)[call[u].stage])
      <3>1. Stage(Program(call[u].op)[call[u].stage])
        BY <2>4, ScriptIs, StagesAre DEF BusyCall
      <3> QED
        BY <1>3, <3>1 DEF Stage
    <2> QED
      BY <2>1, <2>4, <2>5 DEF BusyCall
  <1>4. \A u \in Joined(t) : u = t \/ (running = t /\ call[u].want = {"join"} /\ u \in Tasks)
    BY DEF Joined
  <1>5. t \in Joined(t) /\ Joined(t) \in SUBSET Tasks
    BY DEF Joined
  <1>6. call[t].op # "account" => Joined(t) = {t}
    BY <1>3, <1>4, <1>5
  <1>7. running \in Joined(t) => running = t
    BY <1>4
  <1> QED
    BY <1>2, <1>3, <1>4, <1>5, <1>6, <1>7

\* What holds of lines and calls after every step.
Steady(C, L, w, E, run, k1, k2, snaps) ==
    /\ w \in Wires /\ Looked(w) /\ GoodCalls(C) /\ Runner(C, run) /\ Slot(k1) /\ Slot(k2) /\ snaps \in SUBSET Views
    /\ E \in SUBSET EffectSet /\ Sane(C, L, w, E)

LEMMA AddLooked ==
  ASSUME NEW w \in Wires, Looked(w), NEW t \in Tasks, NEW n \in Nat, NEW rs, Stage(rs)
  PROVE  Looked(w \o Lines(t, n, rs))
  <1> DEFINE v == w \o Lines(t, n, rs)
  <1>1. rs \in SUBSET Reqs /\ IsFiniteSet(rs)
    BY DEF Stage
  <1>2. \A j \in DOMAIN v : (\E k \in DOMAIN w : v[j] = w[k]) \/ (\E r \in rs : v[j] = New(t, n, r))
    BY <1>1, AddIs
  <1> HIDE DEF v
  <1>3. Looked(v)
    BY <1>2 DEF Looked, New
  <1> QED
    BY <1>3 DEF v

LEMMA RemoveLooked ==
  ASSUME NEW w \in Wires, Looked(w), NEW i \in DOMAIN w
  PROVE  RemoveAt(w, i) \in Wires /\ Looked(RemoveAt(w, i))
  <1>1. /\ RemoveAt(w, i) \in Wires
        /\ \A j \in DOMAIN RemoveAt(w, i) : \E k \in DOMAIN w \ {i} : RemoveAt(w, i)[j] = w[k]
    BY RemoveIs
  <1> QED
    BY <1>1 DEF Looked

\* What answer a to request r of t has to tell, if it ends an order.
Tells(c, t, a, w, E) ==
    c.op \in OrderOps /\ Plain(c.op, c.stage) => Told(a, c.op, t, c.n, w, E)

LEMMA SettleStep ==
  ASSUME script \in Scripts, GoodCalls(call), Runner(call, running), Slot(cache), Slot(orderCache),
         seen \in SUBSET Views, Snap' \in Views,
         NEW t \in Tasks, NEW r \in call[t].want \ {"join"}, NEW a,
         NEW w \in Wires, Looked(w), NEW E \in SUBSET EffectSet, effects' = E, Sane(call, log, w, E),
         Tells(call[t], t, a, w, E), Settle(t, r, a, w)
  PROVE  Steady(call', log', wire', effects', running', cache', orderCache', seen')
  <1> SUFFICES ASSUME NEW c, c = call[t], NEW d, d = After(c, r, a), NEW v, v = Verdict(c.op, c.stage, d.want, d.got)
               PROVE  Steady(call', log', wire', effects', running', cache', orderCache', seen')
    OBVIOUS
  <1>1. GoodCall(c)
    BY DEF GoodCalls
  <1>2. /\ BusyCall(c) /\ c.op # "none" /\ Record(c)
        /\ r \in Program(c.op)[c.stage] /\ c.want \in SUBSET Program(c.op)[c.stage]
        /\ c.op \in OpsOf(kind) /\ c.n \in Nat /\ c.n >= 1 /\ c.stage \in {1, 2} /\ (c.stage = 2 => TwoStage(c.op))
        /\ Plain(c.op, c.stage) => r = Sole(c.op, c.stage) /\ c.want = {r}
    BY <1>1, AwaitedIs
  <1>3. Same(c, d) /\ d.want = c.want \ {r} /\ d.got = With(c.got, r, a)
    BY <1>2, AfterIs
  <1>4. Waits(t, c, d, w) \/ (v[1] = "done" /\ Ends(t, w, v[2])) \/ GoesOn(t, c, d, w)
    <2>1. r \in c.want \ {"join"} /\ c = call[t]
      OBVIOUS
    <2> QED
      BY <1>1, <2>1, SettleIs, Zenon
  <1>5. kind \in Kinds
    BY ScriptIs
  <1>6. CASE Waits(t, c, d, w)
    <2>1. GoodCall(d)
      BY <1>1, <1>3, <1>6, WaitIs DEF Waits
    <2>2. /\ ContinuedTo(call', t, d, Snap')
          /\ seen' = seen \cup {Snap'} /\ log' = log /\ cache' = cache /\ running' = running /\ orderCache' = orderCache
      BY <1>6, <2>1, ContinueIs DEF Waits
    <2>3. \A u \in Tasks : Same(call[u], call'[u])
      BY <1>3, <2>2 DEF ContinuedTo, Same
    <2>4. Sane(call', log', wire', effects')
      BY <1>6, <2>2, <2>3, SameSane DEF Waits
    <2>5. running # "none" => kind = "agent" /\ call'[running].op = "account" /\ call'[running].want # {"join"}
      <3>0. running # "none" => kind = "agent"
        BY DEF Runner
      <3>1. SUFFICES ASSUME running # "none" PROVE call'[running].op = "account" /\ call'[running].want # {"join"}
        BY <3>0
      <3>2. running \in Tasks /\ call[running].op = "account" /\ call[running].want # {"join"}
        BY <3>1 DEF Runner
      <3>3. call'[running].op = "account" /\ call'[running].want = IF running = t THEN d.want ELSE call[running].want
        BY <2>2, <2>3, <3>2 DEF ContinuedTo, Same
      <3>4. "join" \notin d.want
        <4>1. Stage(Program(c.op)[c.stage])
          BY <1>2, <1>5, StagesAre
        <4> QED
          BY <1>2, <1>3, <4>1 DEF Stage
      <3> QED
        BY <3>2, <3>3, <3>4
    <2>6. seen' \in SUBSET Views
      BY <2>2, SMTT(30)
    <2> QED
      BY <1>6, <2>2, <2>4, <2>5, <2>6 DEF Steady, Waits, ContinuedTo, Runner
  <1>7. CASE v[1] = "done" /\ Ends(t, w, v[2])
    <2> DEFINE ts == Joined(t)
    <2>1. /\ ts \in SUBSET Tasks /\ t \in ts
          /\ \A u \in ts : call[u].op = c.op /\ call[u].op # "none" /\ call[u].n \in Nat /\ call[u].n >= 1
          /\ c.op # "account" => ts = {t}
          /\ running \in ts => running = t
      BY JoinedIs
    <2> HIDE DEF ts
    <2>2. /\ ReturnedTo(call', ts, Snap')
          /\ log \subseteq log' /\ Entries(log' \ log, ts, v[2])
          /\ seen' = IF c.op \in WriteOps THEN {Snap'} ELSE seen \cup {Snap'}
          /\ cache' = IF c.op \in {"account", "netCheck"} /\ kind = "agent" /\ v[2].word # "throw" THEN <<v[2]>>
                      ELSE invalidateAccount(c.op, cache)
          /\ running' = IF running \in ts THEN "none" ELSE running
          /\ orderCache' \in {orderCache, <<>>, <<v[2]>>}
      <3>1. ts # {} /\ Return(ts, v[2]) /\ \A u \in ts : call[u].op = c.op
        BY <1>7, <2>1 DEF Ends, ts
      <3> QED
        BY <2>1, <3>1, ReturnIs
    <2>3. ASSUME NEW e \in log' \ log PROVE e.task \in ts /\ e.n = call[e.task].n /\ Receipt(e, w, E)
      <3>1. e.task \in ts /\ e.n = call[e.task].n /\ e.op = call[e.task].op /\ e.out = v[2]
        BY <2>2 DEF Entries
      <3>2. e.op = c.op
        BY <2>1, <3>1
      <3>3. CASE c.op \notin OrderOps
        BY <3>1, <3>2, <3>3 DEF Receipt
      <3>4. CASE c.op \in OrderOps /\ Plain(c.op, c.stage)
        <4>1. e.task = t /\ e.n = c.n
          BY <2>1, <3>1, <3>4 DEF OrderOps
        <4>3. Receipt(e, w, E)
          <5>1. Orders(c.op, c.stage) /\ Entered(e, c.op, t, c.n, v[2]) /\ Answers(c.op, c.stage, d.want, d.got, v, a)
            <6>1. d.got[r] = a
              BY <1>3, WithNew
            <6> QED
              BY <1>2, <3>1, <3>2, <3>4, <4>1, <6>1 DEF Orders, Entered, Answers
          <5>2. Told(a, c.op, t, c.n, w, E)
            BY <3>4 DEF Tells
          <5> QED
            BY <1>5, <5>1, <5>2, OrderReceipt
        <4> QED
          BY <3>1, <4>3
      <3>5. CASE c.op \in OrderOps /\ ~Plain(c.op, c.stage)
        <4>1. e.task = t /\ e.n = c.n /\ c.op = "reduce" /\ c.stage = 1
          BY <1>2, <2>1, <3>1, <3>5 DEF OrderOps, Plain, ReadOps
        <4>2. ~Took(E, t, c.n) /\ ~Way(w, t, c.n)
          <5>1. Pending(t, c, w, E)
            BY <1>2 DEF Sane
          <5> QED
            BY <3>5, <4>1, <5>1 DEF Pending
        <4>3. ~Plain(c.op, 1) /\ v = Verdict(c.op, 1, d.want, d.got) /\ v[1] = "done"
          BY <1>7, <3>5, <4>1
        <4>4. Receipt(e, w, E)
          <5>1. Entered(e, c.op, t, c.n, v[2])
            BY <3>1, <3>2, <4>1 DEF Entered
          <5> QED
            BY <1>2, <1>5, <4>2, <4>3, <5>1, ReadReceipt
        <4> QED
          BY <3>1, <4>4
      <3> QED
        BY <3>3, <3>4, <3>5
    <2>4. Sane(call', log', w, E)
      <3>1. \A u \in ts : call'[u].op = "none" /\ call'[u].n = call[u].n /\ call[u].op # "none" /\ call[u].n \in Nat /\ call[u].n >= 1
        BY <2>1, <2>2 DEF ReturnedTo
      <3>2. \A u \in Tasks \ ts : Same(call[u], call'[u])
        BY <2>2 DEF ReturnedTo
      <3>3. Freed(call, call', ts) /\ Logged(call, log, log', ts, w, E)
        BY <2>3, <3>1, <3>2 DEF Freed, Logged
      <3> QED
        BY <2>1, <3>3, ReturnSane
    <2>5. Runner(call', running')
      <3>1. CASE running \in ts
        BY <2>2, <3>1 DEF Runner
      <3>2. CASE running \notin ts /\ running # "none"
        BY <2>2, <3>2 DEF Runner, ReturnedTo, Same
      <3>3. CASE running \notin ts /\ running = "none"
        BY <2>2, <3>3 DEF Runner
      <3> QED
        BY <3>1, <3>2, <3>3
    <2>6. Slot(cache') /\ Slot(orderCache')
      BY <2>2 DEF Slot, invalidateAccount
    <2>7. seen' \in SUBSET Views
      BY <2>2
    <2>8. wire' = w
      BY <1>7 DEF Ends
    <2> QED
      BY <2>2, <2>4, <2>5, <2>6, <2>7, <2>8 DEF Steady, ReturnedTo
  <1>8. CASE GoesOn(t, c, d, w)
    <2>1. c.stage = 1 /\ TwoStage(c.op) /\ wire' = w \o Lines(t, c.n, Program(c.op)[2]) /\ Continue(t, Onward(d))
      BY <1>8 DEF GoesOn
    <2> SUFFICES ASSUME NEW b, b = Onward(d)
                 PROVE  Steady(call', log', wire', effects', running', cache', orderCache', seen')
      OBVIOUS
    <2>2. /\ GoodCall(b) /\ b.op = c.op /\ b.n = c.n /\ b.stage = 2 /\ b.want = Program(c.op)[2]
          /\ Stage(Program(c.op)[2]) /\ "openprot" \notin Program(c.op)[2]
      BY <1>1, <2>1, OnwardIs
    <2>3. /\ ContinuedTo(call', t, b, Snap')
          /\ seen' = seen \cup {Snap'} /\ log' = log /\ cache' = cache /\ running' = running /\ orderCache' = orderCache
      BY <2>1, <2>2, ContinueIs
    <2>4. /\ call'[t].op = c.op /\ call'[t].n = c.n /\ call'[t].stage = 2 /\ \A u \in Tasks \ {t} : Same(call[u], call'[u])
      BY <2>2, <2>3 DEF ContinuedTo, Same
    <2>5. c.op \in OrderOps => ~Way(w, t, c.n) /\ ~Took(E, t, c.n)
      <3>1. Pending(t, c, w, E)
        BY <1>2 DEF Sane
      <3>2. c.op \in OrderOps => c.op = "reduce"
        BY <2>1 DEF OrderOps, TwoStage
      <3> QED
        BY <2>1, <3>1, <3>2 DEF Pending
    <2>6. wire' \in Wires /\ Sane(call', log', wire', effects')
      BY <1>2, <2>1, <2>2, <2>3, <2>4, <2>5, NextSane
    <2>7. Looked(wire')
      BY <1>2, <2>1, <2>2, AddLooked
    <2>8. running # t \/ ~TwoStage(c.op)
      BY BackendsAssumption DEF Runner, TwoStage
    <2>9. running # "none" => kind = "agent" /\ call'[running].op = "account" /\ call'[running].want # {"join"}
      <3>1. running # "none" => kind = "agent" /\ running \in Tasks \ {t} /\ call[running].op = "account" /\ call[running].want # {"join"}
        BY <2>1, <2>8 DEF Runner
      <3> QED
        BY <2>3, <3>1 DEF ContinuedTo, Same
    <2>10. seen' \in SUBSET Views
      BY <2>3
    <2> QED
      BY <2>3, <2>6, <2>7, <2>9, <2>10 DEF Steady, ContinuedTo, Runner
  <1> QED
    BY <1>4, <1>6, <1>7, <1>8

(***************************************************************************)
(* The steps                                                               *)
(***************************************************************************)
BackInv == TypeInv /\ Sane(call, log, wire, effects)

LEMMA SnapNext == ASSUME x' \in Exchange PROVE Snap' \in Views
  BY DEF Snap, Exchange, Views

LEMMA SteadyIs ==
  ASSUME script \in Scripts, script' = script, x' \in Exchange,
         Steady(call', log', wire', effects', running', cache', orderCache', seen')
  PROVE  BackInv'
  <1>1. GoodCalls(call)'
    BY SameScript DEF Steady
  <1>0. kind' = kind
    BY DEF kind
  <1>2. TypeInv'
    BY <1>0, <1>1 DEF TypeInv, Steady, Looked, Runner, Slot
  <1>3. Sane(call, log, wire, effects)'
    BY DEF Steady
  <1> QED
    BY <1>2, <1>3 DEF BackInv

LEMMA ContinueStep ==
  ASSUME BackInv, x' \in Exchange, NEW t \in Tasks, NEW v \in Wires, Looked(v), NEW F \in SUBSET EffectSet,
         Sane(call, log, v, F), wire' = v, effects' = F, Continue(t, call[t])
  PROVE  Steady(call', log', wire', effects', running', cache', orderCache', seen')
  <1>1. /\ script \in Scripts /\ GoodCalls(call) /\ Runner(call, running) /\ Slot(cache) /\ Slot(orderCache) /\ seen \in SUBSET Views
    BY DEF BackInv, TypeInv
  <1>2. GoodCall(call[t]) /\ Snap' \in Views
    BY <1>1, SnapNext DEF GoodCalls
  <1>3. /\ ContinuedTo(call', t, call[t], Snap')
        /\ seen' = seen \cup {Snap'} /\ log' = log /\ cache' = cache /\ running' = running /\ orderCache' = orderCache
    BY <1>1, <1>2, ContinueIs
  <1>4. \A u \in Tasks : Same(call[u], call'[u]) /\ call'[u].want = call[u].want
    BY <1>3 DEF ContinuedTo
  <1>5. Sane(call', log', wire', effects')
    BY <1>3, <1>4, SameSane
  <1>6. Runner(call', running')
    BY <1>1, <1>3, <1>4 DEF Runner, Same
  <1>7. seen' \in SUBSET Views
    BY <1>1, <1>2, <1>3
  <1> QED
    BY <1>1, <1>3, <1>5, <1>6, <1>7 DEF Steady, ContinuedTo

LEMMA EffectIs ==
  ASSUME x \in Exchange, effects \in SUBSET EffectSet, NEW l \in LineSet, Effect(l)
  PROVE  x' \in Exchange /\ Follows(l, effects, effects') /\ effects' \in SUBSET EffectSet
  <1>1. x' \in Exchange
    BY ApplyIs DEF Effect
  <1>2. l.req \in Reqs
    BY DEF LineSet
  <1>3. Follows(l, effects, effects')
    BY <1>2 DEF Effect, Follows
  <1> QED
    BY <1>1, <1>3, FollowsIs

\* The request of an order.
LEMMA OrderSole ==
  ASSUME NEW op, NEW stage, Orders(op, stage)
  PROVE  \/ op = "entry" /\ Sole(op, stage) = "new"
         \/ op = "stop" /\ Sole(op, stage) = "algo"
         \/ op = "reduce" /\ Sole(op, stage) = "reduce"
         \/ op = "openprot" /\ Sole(op, stage) = "openprot"
  <1>1. op \in {"entry", "stop", "reduce", "openprot"}
    BY DEF Orders, OrderOps
  <1>2. op = "reduce" => stage = 2
    BY DEF Orders, Plain, ReadOps
  <1>3. op # "reduce" => stage = 1
    BY <1>1 DEF Orders, TwoStage
  <1>4. op = "entry" => Sole(op, stage) = "new"
    BY <1>3 DEF Sole, Single
  <1>5. op = "stop" => Sole(op, stage) = "algo"
    BY <1>3 DEF Sole, Single
  <1>6. op = "openprot" => Sole(op, stage) = "openprot"
    BY <1>3 DEF Sole, Single
  <1>7. op = "reduce" => Sole(op, stage) = "reduce"
    BY <1>2 DEF Sole, Second
  <1> QED
    BY <1>1, <1>4, <1>5, <1>6, <1>7

\* The line of an awaited order.
Asked(l) == IF l.req = "protect" THEN "openprot" ELSE l.req
LEMMA OrderLine ==
  ASSUME BackInv, NEW i \in DOMAIN wire, NEW t, t = wire[i].task, NEW c, c = call[t], c.n = wire[i].n,
         NEW r, r = Asked(wire[i]), r \in c.want, c.op \in OrderOps, Plain(c.op, c.stage)
  PROVE  /\ Of(wire[i], t, c.n) /\ ~Way(RemoveAt(wire, i), t, c.n) /\ r = Sole(c.op, c.stage) /\ Orders(c.op, c.stage)
         /\ IF wire[i].req = "protect" THEN c.op = "openprot" /\ Took(effects, t, c.n) /\ ~StopTook(effects, t, c.n)
            ELSE ~Took(effects, t, c.n) /\ ~StopTook(effects, t, c.n) /\ r = wire[i].req /\ wire[i].view = <<>>
  <1>1. t \in Tasks /\ wire \in Wires /\ Looked(wire) /\ wire[i].req \in Reqs
    BY LineIs DEF BackInv, TypeInv
  <1>2. GoodCall(c) /\ script \in Scripts
    BY <1>1 DEF BackInv, TypeInv, GoodCalls
  <1>3. r # "join"
    BY <1>1 DEF Asked, Reqs
  <1>4. c.op # "none" /\ r = Sole(c.op, c.stage) /\ Orders(c.op, c.stage)
    BY <1>2, <1>3, AwaitedIs DEF Orders
  <1>5. r \in {"new", "algo", "reduce", "openprot"}
    BY <1>4, OrderSole
  <1>6. Of(wire[i], t, c.n)
    <2>1. wire[i].req \in Writing
      BY <1>5 DEF Asked, Writing, NewOrders
    <2> QED
      BY <2>1 DEF Of
  <1>7. Pending(t, c, wire, effects)
    BY <1>1, <1>4 DEF BackInv, Sane
  <1>8. ~Way(RemoveAt(wire, i), t, c.n)
    BY <1>1, <1>6, <1>7, RemoveIs DEF Pending
  <1>9. IF wire[i].req = "protect" THEN c.op = "openprot" /\ Took(effects, t, c.n) /\ ~StopTook(effects, t, c.n)
        ELSE ~Took(effects, t, c.n)
    BY <1>6, <1>7 DEF Pending
  <1>10. ~Took(effects, t, c.n) => ~StopTook(effects, t, c.n)
    BY DEF Took, StopTook
  <1>11. wire[i].req # "protect" => r = wire[i].req /\ wire[i].view = <<>>
    BY <1>1, <1>5 DEF Asked, Looked
  <1> QED
    BY <1>4, <1>6, <1>8, <1>9, <1>10, <1>11

\* An answer of the exchange.
Reported(l) ==
    IF l.req = "protect"
    THEN Answer("ok", [entry |-> "filled", stop |-> IF Accepts(x, "protect") THEN "submitted" ELSE "failed"])
    ELSE IF l.req = "openprot" THEN
         IF Accepts(x, l.req) THEN Answer("ok", [entry |-> "submitted", stop |-> "skipped"])
         ELSE Answer("rejected", FALSE)
    ELSE IF l.view # <<>> THEN Answer("ok", l.view[1]) ELSE Reply(x, l.req)
BothLegs(l) == l.req = "openprot" /\ Market /\ Accepts(x, l.req)

LEMMA TookAdds ==
  ASSUME NEW E, NEW F, NEW t, NEW n, NEW r, F = E \cup {<<t, n, r>>}
  PROVE  /\ Took(F, t, n)
         /\ r \in {"protect", "boast"} => StopTook(F, t, n)
         /\ r \notin {"protect", "boast"} /\ ~StopTook(E, t, n) => ~StopTook(F, t, n)
  <1>1. <<t, n, r>>[1] = t /\ <<t, n, r>>[2] = n /\ <<t, n, r>>[3] = r
    OBVIOUS
  <1>2. Took(F, t, n)
    BY <1>1 DEF Took
  <1>3. r \in {"protect", "boast"} => StopTook(F, t, n)
    BY <1>1 DEF StopTook
  <1>4. r \notin {"protect", "boast"} /\ ~StopTook(E, t, n) => ~StopTook(F, t, n)
    BY <1>1 DEF StopTook
  <1> QED
    BY <1>2, <1>3, <1>4

LEMMA ExecuteTells ==
  ASSUME BackInv, NEW i \in DOMAIN wire, NEW l, l = wire[i], NEW t, t = l.task, NEW c, c = call[t], c.n = l.n,
         Asked(l) \in c.want, ~BothLegs(l), Effect(l)
  PROVE  Tells(c, t, Reported(l), RemoveAt(wire, i), effects')
  <1> SUFFICES ASSUME c.op \in OrderOps, Plain(c.op, c.stage), NEW n, n = c.n, NEW op, op = c.op, NEW r, r = Asked(l), NEW w, w = RemoveAt(wire, i)
               PROVE  Told(Reported(l), op, t, n, w, effects')
    BY DEF Tells
  <1>1. /\ ~Way(w, t, n) /\ r = Sole(op, c.stage) /\ Orders(op, c.stage)
        /\ IF l.req = "protect" THEN op = "openprot" /\ Took(effects, t, n) /\ ~StopTook(effects, t, n)
           ELSE ~Took(effects, t, n) /\ ~StopTook(effects, t, n) /\ r = l.req /\ l.view = <<>>
    BY OrderLine
  <1>2. \/ op = "entry" /\ r = "new"
        \/ op = "stop" /\ r = "algo"
        \/ op = "reduce" /\ r = "reduce"
        \/ op = "openprot" /\ r = "openprot"
    BY <1>1, OrderSole
  <1>3. /\ l.req \in {"new", "algo", "reduce", "openprot", "protect"}
        /\ l.req \in Writing
    BY <1>1, <1>2 DEF Writing, NewOrders
  <1>4. effects' = IF Accepts(x, l.req) THEN effects \cup {<<t, n, l.req>>} ELSE effects
    BY <1>3 DEF Effect
  <1>5. CASE l.req = "protect"
    <2>1. CASE Accepts(x, "protect")
      <3>1. effects' = effects \cup {<<t, n, "protect">>}
        BY <1>4, <1>5, <2>1
      <3>2. Took(effects', t, n) /\ StopTook(effects', t, n)
        BY <3>1, TookAdds
      <3>3. Reported(l) = [kind |-> "ok", val |-> [entry |-> "filled", stop |-> "submitted"]]
        BY <1>5, <2>1 DEF Reported, Answer
      <3> QED
        BY <1>1, <1>5, <3>2, <3>3 DEF Told, AnswerKinds
    <2>2. CASE ~Accepts(x, "protect")
      <3>1. effects' = effects
        BY <1>4, <1>5, <2>2
      <3>2. Reported(l) = [kind |-> "ok", val |-> [entry |-> "filled", stop |-> "failed"]]
        BY <1>5, <2>2 DEF Reported, Answer
      <3> QED
        BY <1>1, <1>5, <3>1, <3>2 DEF Told, AnswerKinds
    <2> QED
      BY <2>1, <2>2
  <1>6. CASE l.req = "openprot"
    <2>0. op = "openprot"
      BY <1>1, <1>2, <1>6
    <2>1. CASE Accepts(x, "openprot")
      <3>1. effects' = effects \cup {<<t, n, "openprot">>}
        BY <1>4, <1>6, <2>1
      <3>2. Took(effects', t, n) /\ ~StopTook(effects', t, n)
        BY <1>1, <1>6, <3>1, TookAdds
      <3>3. Reported(l) = [kind |-> "ok", val |-> [entry |-> "submitted", stop |-> "skipped"]]
        BY <1>6, <2>1 DEF Reported, Answer
      <3> QED
        BY <1>1, <2>0, <3>2, <3>3 DEF Told, AnswerKinds
    <2>2. CASE ~Accepts(x, "openprot")
      <3>1. effects' = effects
        BY <1>4, <1>6, <2>2
      <3>2. Reported(l) = [kind |-> "rejected", val |-> FALSE]
        BY <1>6, <2>2 DEF Reported, Answer
      <3> QED
        BY <1>1, <1>6, <3>1, <3>2 DEF Told, AnswerKinds
    <2> QED
      BY <2>1, <2>2
  <1>7. CASE l.req \in {"new", "algo", "reduce"}
    <2>1. op # "openprot" /\ Reported(l) = Reply(x, l.req) /\ ~Took(effects, t, n)
      BY <1>1, <1>2, <1>7 DEF Reported
    <2>2. CASE Accepts(x, l.req)
      <3>1. effects' = effects \cup {<<t, n, l.req>>}
        BY <1>4, <2>2
      <3>2. Took(effects', t, n)
        BY <3>1, TookAdds
      <3>3. Reported(l) = [kind |-> "ok", val |-> Value(x, l.req)]
        BY <1>7, <2>1, <2>2 DEF Reply, Answer
      <3>4. Value(x, l.req) \in {"filled", "submitted"}
        BY <1>7 DEF Value
      <3> QED
        BY <2>1, <3>2, <3>3, <3>4 DEF Told, AnswerKinds
    <2>3. CASE ~Accepts(x, l.req)
      <3>1. effects' = effects
        BY <1>4, <2>3
      <3>2. Reported(l) = [kind |-> "rejected", val |-> FALSE]
        BY <1>7, <2>1, <2>3 DEF Reply, Answer
      <3> QED
        BY <1>1, <2>1, <3>1, <3>2 DEF Told, AnswerKinds
    <2> QED
      BY <2>2, <2>3
  <1> QED
    BY <1>3, <1>5, <1>6, <1>7

LEMMA ExecuteStep ==
  ASSUME BackInv, NEW i \in DOMAIN wire, Execute(i)
  PROVE  BackInv'
  <1> SUFFICES ASSUME NEW l, l = wire[i], NEW t, t = l.task, NEW w, w = RemoveAt(wire, i)
               PROVE  BackInv'
    OBVIOUS
  <1>1. /\ script \in Scripts /\ x \in Exchange /\ wire \in Wires /\ Looked(wire) /\ GoodCalls(call) /\ Runner(call, running)
        /\ Slot(cache) /\ Slot(orderCache) /\ seen \in SUBSET Views /\ effects \in SUBSET EffectSet
        /\ Sane(call, log, wire, effects)
    BY DEF BackInv, TypeInv
  <1>2. l \in LineSet /\ t \in Tasks
    BY <1>1, LineIs
  <1>3. /\ Effect(l) /\ script' = script
        /\ IF BothLegs(l)
           THEN wire' = [wire EXCEPT ![i].req = "protect"] /\ Continue(t, call[t])
           ELSE IF Awaits([l EXCEPT !.req = Asked(l)]) THEN Settle(t, Asked(l), Reported(l), w)
           ELSE wire' = w /\ Continue(t, call[t])
    BY DEF Execute, BothLegs, Asked, Reported
  <1>4. x' \in Exchange /\ Follows(l, effects, effects') /\ effects' \in SUBSET EffectSet
    BY <1>1, <1>2, <1>3, EffectIs
  <1>5. w \in Wires /\ Looked(w)
    BY <1>1, RemoveLooked
  <1>6. Sane(call, log, w, effects')
    BY <1>1, <1>4, RemoveSane
  <1>7. Snap' \in Views
    BY <1>4, SnapNext
  <1>8. CASE BothLegs(l)
    <2>1. wire' = LegLine(wire, i) /\ Continue(t, call[t])
      BY <1>3, <1>8 DEF LegLine
    <2>2. effects' = LegTook(wire, i, effects) /\ wire[i].req = "openprot"
      BY <1>3, <1>8 DEF Effect, LegTook, BothLegs, Writing
    <2>3. wire' \in Wires /\ Sane(call, log, wire', effects')
      BY <1>1, <2>1, <2>2, FirstSane
    <2>4. Looked(wire')
      <3>1. wire[i].view = <<>>
        BY <1>1, <2>2 DEF Looked
      <3>2. DOMAIN wire' = DOMAIN wire /\ \A j \in DOMAIN wire : wire'[j].view = wire[j].view /\ (j # i => wire'[j] = wire[j])
        BY <1>1, <1>2, <2>1 DEF LegLine, Wires, LineSet
      <3> QED
        BY <1>1, <3>1, <3>2 DEF Looked
    <2>5. Steady(call', log', wire', effects', running', cache', orderCache', seen')
      BY <1>2, <1>4, <2>1, <2>3, <2>4, ContinueStep
    <2> QED
      BY <1>1, <1>3, <1>4, <2>5, SteadyIs
  <1>9. CASE ~BothLegs(l) /\ ~Awaits([l EXCEPT !.req = Asked(l)])
    <2>1. wire' = w /\ Continue(t, call[t])
      BY <1>3, <1>9
    <2>2. Steady(call', log', wire', effects', running', cache', orderCache', seen')
      BY <1>2, <1>4, <1>5, <1>6, <2>1, ContinueStep
    <2> QED
      BY <1>1, <1>3, <1>4, <2>2, SteadyIs
  <1>10. CASE ~BothLegs(l) /\ Awaits([l EXCEPT !.req = Asked(l)])
    <2>1. Settle(t, Asked(l), Reported(l), w)
      BY <1>3, <1>10
    <2>2. call[t].n = l.n /\ Asked(l) \in call[t].want /\ Asked(l) # "join"
      BY <1>2, <1>10 DEF Awaits, LineSet, Reqs, Asked
    <2>3. Tells(call[t], t, Reported(l), w, effects')
      BY <1>3, <1>10, <2>2, ExecuteTells
    <2>4. Steady(call', log', wire', effects', running', cache', orderCache', seen')
      BY <1>1, <1>2, <1>4, <1>5, <1>6, <1>7, <2>1, <2>2, <2>3, SettleStep
    <2> QED
      BY <1>1, <1>3, <1>4, <2>4, SteadyIs
  <1> QED
    BY <1>8, <1>9, <1>10

LEMMA FailsStep ==
  ASSUME BackInv, NEW i \in DOMAIN wire, NEW k \in {"local", "rejected", "torn", "garbled"}, Fails(i, k)
  PROVE  BackInv'
  <1> SUFFICES ASSUME NEW l, l = wire[i], NEW t, t = l.task, NEW w, w = RemoveAt(wire, i), NEW a, a = Answer(k, k = "rejected")
               PROVE  BackInv'
    OBVIOUS
  <1>1. /\ script \in Scripts /\ x \in Exchange /\ wire \in Wires /\ Looked(wire) /\ GoodCalls(call) /\ Runner(call, running)
        /\ Slot(cache) /\ Slot(orderCache) /\ seen \in SUBSET Views /\ effects \in SUBSET EffectSet
        /\ Sane(call, log, wire, effects)
    BY DEF BackInv, TypeInv
  <1>2. l \in LineSet /\ t \in Tasks
    BY <1>1, LineIs
  <1>3. /\ script' = script /\ Awaits([l EXCEPT !.req = Asked(l)])
        /\ k = "garbled" => kind = "cli"
        /\ k \in {"local", "rejected"} => l.req # "protect" /\ x' = x /\ effects' = effects
        /\ k \notin {"local", "rejected"} => Effect(l) \/ (x' = x /\ effects' = effects)
        /\ Settle(t, Asked(l), a, w)
    BY DEF Fails, Asked, exchangeVars
  <1>4. x' \in Exchange /\ Follows(l, effects, effects') /\ effects' \in SUBSET EffectSet
    <2>1. CASE Effect(l)
      BY <1>1, <1>2, <2>1, EffectIs
    <2>2. CASE x' = x /\ effects' = effects
      BY <1>1, <2>2 DEF Follows
    <2> QED
      BY <1>3, <2>1, <2>2
  <1>5. w \in Wires /\ Looked(w)
    BY <1>1, RemoveLooked
  <1>6. Sane(call, log, w, effects')
    BY <1>1, <1>4, RemoveSane
  <1>7. Snap' \in Views
    BY <1>4, SnapNext
  <1>8. call[t].n = l.n /\ Asked(l) \in call[t].want /\ Asked(l) # "join"
    BY <1>2, <1>3 DEF Awaits, LineSet, Reqs, Asked
  <1>9. Tells(call[t], t, a, w, effects')
    <2> SUFFICES ASSUME NEW c, c = call[t], c.op \in OrderOps, Plain(c.op, c.stage), NEW n, n = c.n, NEW op, op = c.op, NEW r, r = Asked(l)
                 PROVE  Told(a, op, t, n, w, effects')
      BY DEF Tells
    <2>1. /\ ~Way(w, t, n)
          /\ l.req # "protect" => ~Took(effects, t, n)
      BY <1>8, OrderLine
    <2>2. a.kind = k
      BY DEF Answer
    <2> QED
      BY <1>3, <2>1, <2>2 DEF Told, AnswerKinds
  <1>10. Steady(call', log', wire', effects', running', cache', orderCache', seen')
    BY <1>1, <1>2, <1>3, <1>4, <1>5, <1>6, <1>7, <1>8, <1>9, SettleStep
  <1> QED
    BY <1>1, <1>3, <1>4, <1>10, SteadyIs

LEMMA BoastsStep ==
  ASSUME BackInv, NEW i \in DOMAIN wire, Boasts(i)
  PROVE  BackInv'
  <1> DEFINE told == IF wire[i].req = "protect" THEN [entry |-> "filled", stop |-> "submitted"] ELSE "submitted"
  <1> SUFFICES ASSUME NEW l, l = wire[i], NEW t, t = l.task, NEW w, w = RemoveAt(wire, i), NEW a, a = Answer("ok", told)
               PROVE  BackInv'
    OBVIOUS
  <1>1. /\ script \in Scripts /\ x \in Exchange /\ wire \in Wires /\ Looked(wire) /\ GoodCalls(call) /\ Runner(call, running)
        /\ Slot(cache) /\ Slot(orderCache) /\ seen \in SUBSET Views /\ effects \in SUBSET EffectSet
        /\ Sane(call, log, wire, effects)
    BY DEF BackInv, TypeInv
  <1>2. l \in LineSet /\ t \in Tasks
    BY <1>1, LineIs
  <1>3. /\ script' = script /\ x' = x /\ l.req \in {"algo", "protect"} /\ Awaits([l EXCEPT !.req = Asked(l)])
        /\ effects' = effects \cup {<<t, l.n, "boast">>}
        /\ Settle(t, Asked(l), a, w)
    BY DEF Boasts, Asked
  <1>4. x' \in Exchange /\ Follows(l, effects, effects') /\ effects' \in SUBSET EffectSet
    <2>1. Follows(l, effects, effects')
      BY <1>3 DEF Follows, Writing, NewOrders
    <2> QED
      BY <1>1, <1>2, <1>3, <2>1, FollowsIs
  <1>5. w \in Wires /\ Looked(w)
    BY <1>1, RemoveLooked
  <1>6. Sane(call, log, w, effects')
    BY <1>1, <1>4, RemoveSane
  <1>7. Snap' \in Views
    BY <1>4, SnapNext
  <1>8. call[t].n = l.n /\ Asked(l) \in call[t].want /\ Asked(l) # "join"
    BY <1>2, <1>3 DEF Awaits, LineSet, Reqs, Asked
  <1>9. Tells(call[t], t, a, w, effects')
    <2> SUFFICES ASSUME NEW c, c = call[t], c.op \in OrderOps, Plain(c.op, c.stage), NEW n, n = c.n, NEW op, op = c.op, NEW r, r = Asked(l)
                 PROVE  Told(a, op, t, n, w, effects')
      BY DEF Tells
    <2>1. /\ r = Sole(op, c.stage) /\ Orders(op, c.stage)
          /\ l.req = "protect" => op = "openprot"
      BY <1>8, OrderLine
    <2>2. op = "openprot" <=> l.req = "protect"
      BY <1>3, <2>1, OrderSole DEF Asked
    <2>3. Took(effects', t, n) /\ StopTook(effects', t, n)
      <3>1. effects' = effects \cup {<<t, n, "boast">>}
        BY <1>3, <1>8
      <3> QED
        BY <3>1, TookAdds, ZenonT(40)
    <2>4. CASE l.req = "protect"
      <3>1. a = [kind |-> "ok", val |-> [entry |-> "filled", stop |-> "submitted"]]
        BY <2>4 DEF Answer
      <3> QED
        BY <2>2, <2>3, <2>4, <3>1 DEF Told, AnswerKinds
    <2>5. CASE l.req # "protect"
      <3>1. a = [kind |-> "ok", val |-> "submitted"]
        BY <2>5 DEF Answer
      <3> QED
        BY <2>2, <2>3, <2>5, <3>1 DEF Told, AnswerKinds
    <2> QED
      BY <2>4, <2>5
  <1>10. Steady(call', log', wire', effects', running', cache', orderCache', seen')
    BY <1>1, <1>2, <1>3, <1>4, <1>5, <1>6, <1>7, <1>8, <1>9, SettleStep
  <1> QED
    BY <1>1, <1>3, <1>4, <1>10, SteadyIs

\* Lines and calls change, the rest is as it was.
LEMMA LooksStep ==
  ASSUME BackInv, NEW i \in DOMAIN wire, Looks(i)
  PROVE  BackInv'
  <1> SUFFICES ASSUME NEW y, y = Value(x, "acct") PROVE BackInv'
    OBVIOUS
  <1>1. /\ script \in Scripts /\ x \in Exchange /\ wire \in Wires /\ Looked(wire) /\ GoodCalls(call) /\ Runner(call, running)
        /\ Slot(cache) /\ Slot(orderCache) /\ seen \in SUBSET Views /\ effects \in SUBSET EffectSet
        /\ Sane(call, log, wire, effects)
    BY DEF BackInv, TypeInv
  <1>2. y \in Views
    BY <1>1 DEF Value, Exchange, Views
  <1>3. wire[i].req = "acct" /\ wire' = LookLine(wire, i, y)
    BY DEF Looks, LookLine
  <1>4. wire' \in Wires /\ Sane(call, log, wire', effects)
    BY <1>1, <1>2, <1>3, LookSane
  <1>5. Looked(wire')
    <2>1. wire[i] \in LineSet
      BY <1>1, LineIs
    <2>2. DOMAIN wire' = DOMAIN wire /\ \A j \in DOMAIN wire : wire'[j].req = wire[j].req /\ (j # i => wire'[j] = wire[j])
      BY <1>1, <1>3, <2>1 DEF Wires, LineSet, LookLine
    <2> QED
      BY <1>1, <1>3, <2>2 DEF Looked
  <1>6. /\ script' = script /\ x' = x /\ call' = call /\ cache' = cache /\ running' = running /\ orderCache' = orderCache
        /\ log' = log /\ effects' = effects /\ seen' = seen
    BY DEF Looks, cacheVars
  <1>7. Steady(call', log', wire', effects', running', cache', orderCache', seen')
    BY <1>1, <1>4, <1>5, <1>6 DEF Steady
  <1> QED
    BY <1>1, <1>6, <1>7, SteadyIs

LEMMA TimerStep ==
  ASSUME BackInv, NEW t \in Tasks, Timer(t)
  PROVE  BackInv'
  <1> SUFFICES ASSUME NEW a, a = Answer("lost", FALSE)
               PROVE  BackInv'
    OBVIOUS
  <1>1. /\ script \in Scripts /\ x \in Exchange /\ wire \in Wires /\ Looked(wire) /\ GoodCalls(call) /\ Runner(call, running)
        /\ Slot(cache) /\ Slot(orderCache) /\ seen \in SUBSET Views /\ effects \in SUBSET EffectSet
        /\ Sane(call, log, wire, effects)
    BY DEF BackInv, TypeInv
  <1>2. script' = script /\ x' = x /\ effects' = effects
    BY DEF Timer
  <1>3. Snap' \in Views
    BY <1>1, <1>2, SnapNext
  <1>4. PICK r \in call[t].want \ {"join"} : Settle(t, r, a, wire) \/ \E i \in DOMAIN wire : Settle(t, r, a, RemoveAt(wire, i))
    BY DEF Timer, OwnLine
  <1>5. ASSUME NEW w, Settle(t, r, a, w), w \in Wires, Looked(w), Sane(call, log, w, effects)
        PROVE  BackInv'
    <2>1. Tells(call[t], t, a, w, effects)
      <3> SUFFICES ASSUME NEW c, c = call[t], c.op \in OrderOps, Plain(c.op, c.stage)
                   PROVE  Told(a, c.op, t, c.n, w, effects)
        BY DEF Tells
      <3>1. a.kind = "lost"
        BY DEF Answer
      <3> QED
        BY <3>1 DEF Told, AnswerKinds
    <2>2. Steady(call', log', wire', effects', running', cache', orderCache', seen')
      BY <1>1, <1>2, <1>3, <1>5, <2>1, SettleStep
    <2> QED
      BY <1>1, <1>2, <2>2, SteadyIs
  <1>6. CASE Settle(t, r, a, wire)
    BY <1>1, <1>5, <1>6
  <1>7. ASSUME NEW i \in DOMAIN wire, Settle(t, r, a, RemoveAt(wire, i)) PROVE BackInv'
    <2>1. RemoveAt(wire, i) \in Wires /\ Looked(RemoveAt(wire, i))
      BY <1>1, RemoveLooked
    <2>2. Follows(wire[i], effects, effects)
      BY DEF Follows
    <2>3. Sane(call, log, RemoveAt(wire, i), effects)
      BY <1>1, <2>2, RemoveSane
    <2> QED
      BY <1>5, <1>7, <2>1, <2>3
  <1> QED
    BY <1>4, <1>6, <1>7

\* The child is gone: what was awaited of it is lost.
Orphan(c) == [r \in Program(c.op)[c.stage] |-> IF r \in DOMAIN c.got THEN c.got[r] ELSE Answer("lost", FALSE)]
LEMMA OrphanIs ==
  ASSUME script \in Scripts, kind = "demo", NEW c, GoodCall(c), c.op # "none", NEW t, NEW w, NEW E, Pending(t, c, w, E),
         NEW got, got = Orphan(c), NEW v, v = Verdict(c.op, c.stage, {}, got), NEW e, Entered(e, c.op, t, c.n, v[2])
  PROVE  Receipt(e, w, E)
  <1>1. /\ Record(c) /\ BusyCall(c) /\ kind \in Kinds
        /\ c.op \in OpsOf(kind) /\ c.stage \in {1, 2} /\ (c.stage = 2 => TwoStage(c.op)) /\ c.n \in Nat
        /\ c.want # {} /\ DOMAIN c.got \cap c.want = {}
    BY DEF GoodCall, BusyCall, Record, Kinds
  <1>2. SUFFICES ASSUME c.op \in OrderOps PROVE Receipt(e, w, E)
    BY DEF Receipt, Entered
  <1>3. c.want \in SUBSET Program(c.op)[c.stage]
    BY <1>1, <1>2 DEF BusyCall, OrderOps
  <1>4. \A r \in c.want : r \in DOMAIN got /\ got[r] = Answer("lost", FALSE)
    BY <1>1, <1>3 DEF Orphan
  <1>5. Answer("lost", FALSE).kind = "lost"
    BY DEF Answer
  <1>6. CASE Plain(c.op, c.stage)
    <2> SUFFICES ASSUME NEW a, a = got[Sole(c.op, c.stage)] PROVE Receipt(e, w, E)
      OBVIOUS
    <2>1. c.want = {Sole(c.op, c.stage)}
      <3>1. Program(c.op)[c.stage] = {Sole(c.op, c.stage)}
        BY <1>1, <1>6, SoleIs DEF Plain
      <3> QED
        BY <1>1, <1>3, <3>1
    <2>2. a.kind = "lost"
      BY <1>4, <1>5, <2>1
    <2>3. Told(a, c.op, t, c.n, w, E)
      BY <2>2 DEF Told, AnswerKinds
    <2>4. Orders(c.op, c.stage) /\ Answers(c.op, c.stage, {}, got, v, a)
      BY <1>1, <1>2, <1>6 DEF Orders, Answers
    <2> QED
      BY <1>1, <2>3, <2>4, OrderReceipt
  <1>7. CASE ~Plain(c.op, c.stage)
    <2>1. c.stage = 1 /\ c.op = "reduce"
      BY <1>1, <1>2, <1>7 DEF Plain, ReadOps, OrderOps
    <2>2. ReadFailed(got)
      <3>1. Program(c.op)[1] = {"pos", "orders"}
        BY <1>1, <2>1, ProgramIs DEF ReadOps, Reads
      <3> QED
        BY <1>1, <1>3, <1>4, <1>5, <2>1, <3>1 DEF ReadFailed
    <2>3. v = ReadVerdict(c.op, {}, got)
      BY <1>1, <1>7, VerdictIs
    <2>4. v = Done("throw")
      BY <2>2, <2>3 DEF ReadVerdict
    <2>5. e.out.word = "throw" /\ e.op = "reduce"
      BY <2>1, <2>4, DoneIs DEF Entered
    <2> QED
      BY <2>5 DEF Receipt
  <1> QED
    BY <1>6, <1>7

LEMMA ChildExitsStep ==
  ASSUME BackInv, ChildExits
  PROVE  BackInv'
  <1> DEFINE ts == {u \in Tasks : Busy(u)}
             entry(u) == [task |-> u, n |-> call[u].n, op |-> call[u].op,
                          out |-> Verdict(call[u].op, call[u].stage, {}, Orphan(call[u]))[2], fresh |-> TRUE, late |-> FALSE]
  <1>1. /\ script \in Scripts /\ x \in Exchange /\ wire \in Wires /\ Looked(wire) /\ GoodCalls(call) /\ Runner(call, running)
        /\ Slot(cache) /\ Slot(orderCache) /\ seen \in SUBSET Views /\ effects \in SUBSET EffectSet
        /\ Sane(call, log, wire, effects)
    BY DEF BackInv, TypeInv
  <1>2. /\ kind = "demo" /\ wire' = <<>> /\ script' = script /\ x' = x /\ effects' = effects
        /\ cache' = cache /\ running' = running /\ orderCache' = orderCache
        /\ seen' \in {{Snap}, seen}
        /\ log' = log \cup {entry(u) : u \in ts}
        /\ call' = [u \in Tasks |-> IF Busy(u) THEN [Idle EXCEPT !.n = call[u].n] ELSE call[u]]
    BY DEF ChildExits, cacheVars, Orphan
  <1>3. <<>> \in Wires /\ Looked(<<>>) /\ Sane(call, log, <<>>, effects)
    BY <1>1, EmptySane DEF Looked
  <1>4. ASSUME NEW u \in ts
        PROVE  /\ u \in Tasks /\ call[u].op # "none" /\ call[u].n \in Nat /\ call[u].n >= 1
               /\ GoodCall(call'[u]) /\ call'[u].op = "none" /\ call'[u].n = call[u].n
    <2>1. u \in Tasks /\ call[u].op # "none" /\ GoodCall(call[u])
      BY <1>1 DEF Busy, GoodCalls
    <2>2. call[u].n \in Nat /\ call[u].n >= 1
      BY <2>1 DEF GoodCall, Record, BusyCall
    <2>3. call'[u] = [Idle EXCEPT !.n = call[u].n]
      BY <1>2
    <2> QED
      BY <2>1, <2>2, <2>3, FreeIs
  <1>5. ASSUME NEW u \in Tasks \ ts PROVE call'[u] = call[u] /\ GoodCall(call'[u])
    BY <1>1, <1>2 DEF GoodCalls
  <1>6. GoodCalls(call')
    <2>1. \A u \in Tasks : GoodCall(call'[u])
      BY <1>4, <1>5
    <2>2. call' = [u \in Tasks |-> call'[u]]
      BY <1>2
    <2> QED
      BY <2>1, <2>2 DEF GoodCalls
  <1>7. Freed(call, call', ts)
    BY <1>4, <1>5 DEF Freed, Same
  <1>8. Logged(call, log, log', ts, <<>>, effects)
    <2>1. ASSUME NEW e \in log' \ log PROVE e.task \in ts /\ e.n = call[e.task].n /\ Receipt(e, <<>>, effects)
      <3>1. PICK u \in ts : e = entry(u)
        BY <1>2
      <3> SUFFICES ASSUME NEW c, c = call[u], NEW got, got = Orphan(c), NEW v, v = Verdict(c.op, c.stage, {}, got)
                   PROVE  e.task \in ts /\ e.n = call[e.task].n /\ Receipt(e, <<>>, effects)
        OBVIOUS
      <3>2. Entered(e, c.op, u, c.n, v[2])
        BY <3>1 DEF Entered
      <3>3. GoodCall(c) /\ c.op # "none" /\ Pending(u, c, <<>>, effects)
        BY <1>1, <1>3, <1>4 DEF GoodCalls, Sane
      <3>4. Receipt(e, <<>>, effects)
        BY <1>1, <1>2, <3>2, <3>3, OrphanIs
      <3> QED
        BY <3>2, <3>4 DEF Entered
    <2> QED
      BY <2>1 DEF Logged
  <1> HIDE DEF ts, entry
  <1>9. Sane(call', log', <<>>, effects)
    <2>1. ts \in SUBSET Tasks
      BY DEF ts
    <2> QED
      BY <1>1, <1>3, <1>7, <1>8, <2>1, ReturnSane
  <1>10. Runner(call', running')
    <2>1. running = "none"
      BY <1>1, <1>2 DEF Runner
    <2> QED
      BY <1>2, <2>1 DEF Runner
  <1>11. seen' \in SUBSET Views
    BY <1>1, <1>2, SnapIs
  <1>12. Steady(call', log', wire', effects', running', cache', orderCache', seen')
    BY <1>1, <1>2, <1>3, <1>6, <1>9, <1>10, <1>11 DEF Steady
  <1> QED
    BY <1>1, <1>2, <1>12, SteadyIs

LEMMA CacheExpiresStep ==
  ASSUME BackInv, CacheExpires
  PROVE  BackInv'
  <1>1. /\ script \in Scripts /\ x \in Exchange /\ wire \in Wires /\ Looked(wire) /\ GoodCalls(call) /\ Runner(call, running)
        /\ Slot(cache) /\ Slot(orderCache) /\ seen \in SUBSET Views /\ effects \in SUBSET EffectSet
        /\ Sane(call, log, wire, effects)
    BY DEF BackInv, TypeInv
  <1>2. /\ script' = script /\ x' = x /\ call' = call /\ cache' = <<>> /\ running' = running /\ orderCache' = <<>>
        /\ log' = log /\ effects' = effects /\ seen' = seen /\ wire' = wire
    BY DEF CacheExpires
  <1>3. Steady(call', log', wire', effects', running', cache', orderCache', seen')
    BY <1>1, <1>2 DEF Steady, Slot
  <1> QED
    BY <1>1, <1>2, <1>3, SteadyIs

LEMMA TradesIs ==
  ASSUME x \in Exchange
  PROVE  /\ [x EXCEPT !.entry = "FILLED", !.pos = 2] \in Exchange
         /\ [x EXCEPT !.stop = FALSE, !.old = FALSE, !.pos = 0] \in Exchange
  <1>1. [x EXCEPT !.entry = "FILLED"] \in Exchange
    BY DEF Exchange
  <1>2. \A f \in Exchange : [f EXCEPT !.pos = 2] \in Exchange /\ [f EXCEPT !.pos = 0] \in Exchange
    BY DEF Exchange
  <1>3. [x EXCEPT !.stop = FALSE, !.old = FALSE] \in Exchange
    BY DEF Exchange
  <1>4. /\ [x EXCEPT !.entry = "FILLED", !.pos = 2] = [[x EXCEPT !.entry = "FILLED"] EXCEPT !.pos = 2]
        /\ [x EXCEPT !.stop = FALSE, !.old = FALSE, !.pos = 0] = [[x EXCEPT !.stop = FALSE, !.old = FALSE] EXCEPT !.pos = 0]
    OBVIOUS
  <1>5. \A f, g : f \in Exchange /\ (g = [f EXCEPT !.pos = 2] \/ g = [f EXCEPT !.pos = 0]) => g \in Exchange
    BY <1>2
  <1> QED
    BY <1>1, <1>3, <1>4, <1>5, Zenon

LEMMA TradesStep ==
  ASSUME BackInv, Trades
  PROVE  BackInv'
  <1>1. /\ script \in Scripts /\ x \in Exchange /\ wire \in Wires /\ Looked(wire) /\ GoodCalls(call) /\ Runner(call, running)
        /\ Slot(cache) /\ Slot(orderCache) /\ seen \in SUBSET Views /\ effects \in SUBSET EffectSet
        /\ Sane(call, log, wire, effects)
    BY DEF BackInv, TypeInv
  <1>2. /\ script' = script /\ cache' = cache /\ running' = running /\ orderCache' = orderCache
        /\ log' = log /\ effects' = effects /\ seen' = seen \cup {Snap'} /\ wire' = wire
        /\ call' = [u \in Tasks |-> IF Busy(u) THEN Since(call[u], Snap') ELSE call[u]]
    BY DEF Trades, cacheVars, Since
  <1>3. x' \in Exchange
    BY <1>1, TradesIs DEF Trades
  <1>4. Snap' \in Views
    BY <1>3, SnapNext
  <1>5. ASSUME NEW u \in Tasks
        PROVE  GoodCall(call'[u]) /\ Same(call[u], call'[u]) /\ call'[u].want = call[u].want
    <2>1. GoodCall(call[u])
      BY <1>1 DEF GoodCalls
    <2>2. CASE Busy(u)
      <3>1. call'[u] = Since(call[u], Snap')
        BY <1>2, <2>2
      <3> QED
        BY <1>4, <2>1, <3>1, SinceIs
    <2>3. CASE ~Busy(u)
      <3>1. call'[u] = call[u]
        BY <1>2, <2>3
      <3> QED
        BY <2>1, <3>1 DEF Same
    <2> QED
      BY <2>2, <2>3
  <1>6. GoodCalls(call')
    <2>1. call' = [u \in Tasks |-> call'[u]]
      BY <1>2
    <2> QED
      BY <1>5, <2>1 DEF GoodCalls
  <1>7. Sane(call', log', wire', effects')
    BY <1>1, <1>2, <1>5, SameSane
  <1>8. Runner(call', running')
    BY <1>1, <1>2, <1>5 DEF Runner, Same
  <1>9. seen' \in SUBSET Views
    BY <1>1, <1>2, <1>4
  <1>10. Steady(call', log', wire', effects', running', cache', orderCache', seen')
    BY <1>1, <1>2, <1>6, <1>7, <1>8, <1>9 DEF Steady
  <1> QED
    BY <1>1, <1>2, <1>3, <1>10, SteadyIs

(***************************************************************************)
(* A call begins                                                           *)
(***************************************************************************)
Opening(op, n, since) == [Idle EXCEPT !.op = op, !.n = n, !.stage = 1, !.since = since]
LEMMA OpeningIs ==
  ASSUME NEW op, NEW n, NEW since, NEW c, c = Opening(op, n, since)
  PROVE  Sixed(c) /\ c.op = op /\ c.n = n /\ c.stage = 1 /\ c.want = {} /\ c.got = <<>> /\ c.since = since
  <1>1. c = Six(op, n, 1, {}, <<>>, since)
    BY DEF Opening, Idle, Six
  <1> QED
    BY <1>1, FieldsOfSix

\* A record with one field changed, a table with one entry changed.
WithWant(c, v) == [c EXCEPT !.want = v]
WithStage(c, v) == [c EXCEPT !.stage = v]
WithN(c, v) == [c EXCEPT !.n = v]
Put(C, t, d) == [C EXCEPT ![t] = d]

\* Four ways to begin.
Ready(op, c, o) ==
    \/ /\ o.to = "send" /\ o.c = WithWant(c, Program(op)[1])
    \/ /\ o.to = "join" /\ o.c = WithWant(c, {"join"}) /\ kind = "agent" /\ op = "account" /\ running # "none"
    \/ /\ o.to = "second" /\ o.c = c /\ kind = "agent" /\ op = "reduce" /\ cache # <<>>
    \/ /\ o.to = "hit" /\ o.c = c
       /\ \/ kind = "demo" /\ ~child
          \/ kind = "agent" /\ op = "account" /\ cache # <<>>
          \/ kind = "agent" /\ op = "reduce"
          \/ kind = "agent" /\ op = "getOrder"
LEMMA OpenedIs ==
  ASSUME NEW t, NEW op, NEW n, n = call[t].n + 1, NEW c, c = Opening(op, n, seen \cup {Snap})
  PROVE  Ready(op, c, Opened(t, op))
  <1> DEFINE b == [Idle EXCEPT !.op = op, !.n = call[t].n + 1, !.stage = 1, !.since = seen \cup {Snap}]
             rs == Program(op)[1]
             o == IF kind = "agent" /\ op \in {"account", "reduce"} /\ cache # <<>>
                  THEN IF op = "account"
                       THEN [to |-> "hit", c |-> c] ELSE [to |-> IF cache[1].pos THEN "second" ELSE "hit", c |-> c]
                  ELSE IF kind = "agent" /\ op = "account" /\ running # "none"
                  THEN [to |-> "join", c |-> [c EXCEPT !.want = {"join"}]]
                  ELSE IF kind = "agent" /\ op = "getOrder" /\ orderCache # <<>>
                  THEN [to |-> "hit", c |-> c]
                  ELSE IF kind = "demo" /\ ~child THEN [to |-> "hit", c |-> c]
                  ELSE [to |-> "send", c |-> [c EXCEPT !.want = rs]]
  <1>1. b = c
    BY DEF Opening
  <1> HIDE DEF b
  <1>2. Opened(t, op) = o
    BY <1>1 DEF Opened, b
  <1>3. ASSUME NEW v, v = [c EXCEPT !.want = rs], NEW u, u = [c EXCEPT !.want = {"join"}] PROVE Ready(op, c, o)
    BY <1>3 DEF Ready, WithWant
  <1> QED
    BY <1>2, <1>3

\* What a hit of a receipt is worth.
LEMMA HitReceipt ==
  ASSUME script \in Scripts, NEW op \in OpsOf(kind), kind = "demo" \/ (kind = "agent" /\ op \in {"account", "reduce", "getOrder"}),
         NEW t, NEW n, NEW w, NEW E, ~Took(E, t, n), ~Way(w, t, n), NEW e, Entered(e, op, t, n, HitValue(op))
  PROVE  Receipt(e, w, E)
  <1>1. kind \in Kinds
    BY ScriptIs
  <1>2. CASE kind = "agent" /\ op \in {"account", "reduce", "getOrder"}
    <2>1. op = "reduce" => HitValue(op) = Done("failed")[2]
      BY <1>2 DEF HitValue
    <2>2. op = "reduce" => e.out.word = "failed"
      BY <2>1, DoneIs DEF Entered
    <2> QED
      BY <1>2, <2>2 DEF Receipt, OrderOps, Entered
  <1>3. CASE kind = "demo"
    <2> SUFFICES ASSUME NEW got, got = [r \in Program(op)[1] |-> Answer("local", FALSE)],
                        NEW v, v = Verdict(op, 1, {}, got), op \in OrderOps
                 PROVE  Receipt(e, w, E)
      BY DEF Receipt, Entered
    <2>1. Entered(e, op, t, n, v[2])
      BY <1>3 DEF HitValue, Entered
    <2>2. Answer("local", FALSE).kind = "local"
      BY DEF Answer
    <2>3. CASE Plain(op, 1)
      <3> SUFFICES ASSUME NEW a, a = got[Sole(op, 1)] PROVE Receipt(e, w, E)
        OBVIOUS
      <3>1. Program(op)[1] = {Sole(op, 1)}
        BY <1>1, <2>3, SoleIs DEF Plain
      <3>2. a.kind = "local"
        BY <2>2, <3>1
      <3>3. Told(a, op, t, n, w, E)
        BY <3>2 DEF Told, AnswerKinds
      <3>4. Orders(op, 1) /\ Answers(op, 1, {}, got, v, a)
        BY <2>3 DEF Orders, Answers
      <3> QED
        BY <1>1, <2>1, <3>3, <3>4, OrderReceipt
    <2>4. CASE ~Plain(op, 1)
      <3>1. op = "reduce"
        BY <2>4 DEF Plain, ReadOps, OrderOps
      <3>2. ReadFailed(got)
        <4>1. Program(op)[1] = {"pos", "orders"}
          BY <1>1, <1>3, <3>1, ProgramIs DEF ReadOps, Reads
        <4> QED
          BY <2>2, <4>1 DEF ReadFailed
      <3>3. v = ReadVerdict(op, {}, got)
        BY <1>1, <2>4, VerdictIs
      <3>4. v = Done("throw")
        BY <3>2, <3>3 DEF ReadVerdict
      <3>5. e.out.word = "throw" /\ e.op = "reduce"
        BY <2>1, <3>1, <3>4, DoneIs DEF Entered
      <3> QED
        BY <3>5 DEF Receipt
    <2> QED
      BY <2>3, <2>4
  <1> QED
    BY <1>2, <1>3

\* The record of a call that begins.
Fields(d, op, n, stage, want, since) ==
    Sixed(d) /\ d.op = op /\ d.n = n /\ d.stage = stage /\ d.want = want /\ d.got = <<>> /\ d.since = since
LEMMA OpeningFields ==
  ASSUME NEW op, NEW n, NEW since, NEW c, c = Opening(op, n, since)
  PROVE  Fields(c, op, n, 1, {}, since)
  BY OpeningIs DEF Fields

LEMMA PutWant ==
  ASSUME NEW c, NEW op, NEW n, NEW stage, NEW want, NEW since, Fields(c, op, n, stage, want, since), NEW v, NEW d, d = WithWant(c, v)
  PROVE  Fields(d, op, n, stage, v, since)
  <1>1. Sixed(c) /\ d = [c EXCEPT !.want = v]
    BY DEF Fields, WithWant
  <1>2. Sixed(d) /\ d.op = c.op /\ d.n = c.n /\ d.stage = c.stage /\ d.want = v /\ d.got = c.got /\ d.since = c.since
    BY <1>1, WantFields
  <1> QED
    BY <1>2 DEF Fields

LEMMA PutStage ==
  ASSUME NEW c, NEW op, NEW n, NEW stage, NEW want, NEW since, Fields(c, op, n, stage, want, since), NEW v, NEW d, d = WithStage(c, v)
  PROVE  Fields(d, op, n, v, want, since)
  <1>1. Sixed(c) /\ d = [c EXCEPT !.stage = v]
    BY DEF Fields, WithStage
  <1>2. Sixed(d) /\ d.op = c.op /\ d.n = c.n /\ d.stage = v /\ d.want = c.want /\ d.got = c.got /\ d.since = c.since
    BY <1>1, StageFields
  <1> QED
    BY <1>2 DEF Fields

LEMMA BegunIs ==
  ASSUME script \in Scripts, NEW op \in OpsOf(kind), NEW n \in Nat, n >= 1, NEW since \in SUBSET Views,
         NEW stage \in {1, 2}, stage = 2 => TwoStage(op), NEW want,
         want = Program(op)[stage] \/ (want = {"join"} /\ op = "account"),
         NEW d, Fields(d, op, n, stage, want, since)
  PROVE  GoodCall(d)
  <1>1. kind \in Kinds /\ op # "none"
    BY ScriptIs
  <1>2. Stage(Program(op)[stage])
    BY <1>1, StagesAre
  <1>3. want \in SUBSET (Reqs \cup {"join"}) /\ want # {}
    BY <1>2 DEF Stage
  <1>4. Record(d)
    BY <1>3 DEF Record, Sixed, Six, Fields
  <1>5. DOMAIN d.got = {}
    BY DEF Fields
  <1>6. BusyCall(d)
    BY <1>3, <1>5 DEF BusyCall, Fields
  <1> QED
    BY <1>1, <1>4, <1>6 DEF GoodCall, Fields

\* One task has another call.
LEMMA PutIs ==
  ASSUME NEW C, GoodCalls(C), NEW t \in Tasks, NEW d, GoodCall(d), NEW D, D = Put(C, t, d)
  PROVE  GoodCalls(D) /\ D[t] = d /\ Others(C, D, t) /\ \A u \in Tasks \ {t} : D[u] = C[u]
  <1>1. D = [u \in Tasks |-> IF u = t THEN d ELSE C[u]]
    BY DEF GoodCalls, Put
  <1>2. \A u \in Tasks : GoodCall(D[u])
    BY <1>1 DEF GoodCalls
  <1>3. GoodCalls(D)
    BY <1>1, <1>2 DEF GoodCalls
  <1> QED
    BY <1>1, <1>3 DEF Others, Same

\* Task t begins call n; what that leaves as it is.
Begins(t, op, n) ==
    /\ BackInv /\ t \in Tasks /\ call[t].op = "none" /\ call[t].n \in Nat /\ n \in Nat /\ n >= 1 /\ n = call[t].n + 1
    /\ op \in OpsOf(kind) /\ op # "none" /\ kind \in Kinds /\ running # t
Kept == script' = script /\ x' = x /\ effects' = effects /\ seen' = seen /\ cache' = cache /\ orderCache' = orderCache /\ crossed' = crossed

LEMMA SendStep ==
  ASSUME NEW t, NEW op, NEW n, Begins(t, op, n), Kept, NEW since \in SUBSET Views,
         NEW stage \in {1, 2}, stage = 2 => TwoStage(op), stage = 1 \/ op = "reduce", NEW rs, rs = Program(op)[stage],
         NEW d, Fields(d, op, n, stage, rs, since), call' = Put(call, t, d), wire' = wire \o Lines(t, n, rs), log' = log,
         running' = running \/ (running' = t /\ kind = "agent" /\ op = "account")
  PROVE  BackInv'
  <1>1. /\ script \in Scripts /\ x \in Exchange /\ wire \in Wires /\ Looked(wire) /\ GoodCalls(call) /\ Runner(call, running)
        /\ Slot(cache) /\ Slot(orderCache) /\ seen \in SUBSET Views /\ effects \in SUBSET EffectSet
        /\ Sane(call, log, wire, effects)
    BY DEF Begins, BackInv, TypeInv
  <1>2. /\ t \in Tasks /\ call[t].op = "none" /\ call[t].n \in Nat /\ n \in Nat /\ n >= 1 /\ n = call[t].n + 1
        /\ op \in OpsOf(kind) /\ op # "none" /\ kind \in Kinds /\ running # t
    BY DEF Begins
  <1>3. d.op = op /\ d.n = n /\ d.stage = stage /\ d.want = rs
    BY DEF Fields
  <1>4. GoodCall(d)
    BY <1>1, <1>2, BegunIs
  <1>5. GoodCalls(call') /\ call'[t] = d /\ Others(call, call', t) /\ \A u \in Tasks \ {t} : call'[u] = call[u]
    BY <1>1, <1>2, <1>4, PutIs
  <1>6. Stage(rs)
    BY <1>2, StagesAre
  <1>7. "openprot" \in rs => op = "openprot"
    <2>1. CASE stage = 2
      <3>1. rs = {"reduce"}
        BY <1>2, <2>1, ProgramIs DEF Second
      <3> QED
        BY <3>1
    <2>2. CASE stage = 1 /\ op \in ReadOps
      BY <1>2, <2>2, ProgramIs DEF Reads
    <2>3. CASE stage = 1 /\ op \notin ReadOps
      <3>1. rs = {Single(op)}
        BY <1>2, <2>3, ProgramIs
      <3>2. Single(op) = "openprot" => op = "openprot"
        BY <1>2, <2>3 DEF Single, OpsOf, AgentOps, CommonOps, ReadOps
      <3> QED
        BY <3>1, <3>2
    <2> QED
      BY <2>1, <2>2, <2>3
  <1>8. op = "reduce" /\ stage = 1 => rs \cap Writing = {}
    BY <1>2, ProgramIs DEF ReadOps, Reads, Writing, NewOrders
  <1>9. wire' \in Wires /\ Sane(call', log', wire', effects')
    <2>1. /\ call'[t].n = n /\ call'[t].op # "none" /\ ("openprot" \in rs => call'[t].op = "openprot")
          /\ call'[t].op = "reduce" /\ call'[t].stage = 1 => rs \cap Writing = {}
      BY <1>2, <1>3, <1>5, <1>7, <1>8
    <2>2. effects' = effects /\ log' = log
      BY DEF Kept
    <2>3. wire \o Lines(t, n, rs) \in Wires /\ Sane(call', log, wire \o Lines(t, n, rs), effects)
      BY <1>1, <1>2, <1>5, <1>6, <2>1, BeginSane, ZenonT(40)
    <2> QED
      BY <2>2, <2>3
  <1>10. Looked(wire')
    BY <1>1, <1>2, <1>6, AddLooked
  <1>11. Runner(call', running')
    <2>1. CASE running' = t /\ kind = "agent" /\ op = "account"
      BY <1>2, <1>3, <1>5, <1>6, <2>1 DEF Runner, Stage
    <2>2. CASE running' = running
      BY <1>1, <1>2, <1>5, <2>2 DEF Runner
    <2> QED
      BY <2>1, <2>2
  <1>12. Steady(call', log', wire', effects', running', cache', orderCache', seen')
    BY <1>1, <1>5, <1>9, <1>10, <1>11 DEF Steady, Kept
  <1> QED
    BY <1>1, <1>12, SteadyIs DEF Kept

LEMMA JoinStep ==
  ASSUME NEW t, NEW op, NEW n, Begins(t, op, n), Kept, NEW since \in SUBSET Views, op = "account",
         NEW d, Fields(d, op, n, 1, {"join"}, since), call' = Put(call, t, d), wire' = wire, log' = log, running' = running
  PROVE  BackInv'
  <1>1. /\ script \in Scripts /\ x \in Exchange /\ wire \in Wires /\ Looked(wire) /\ GoodCalls(call) /\ Runner(call, running)
        /\ Slot(cache) /\ Slot(orderCache) /\ seen \in SUBSET Views /\ effects \in SUBSET EffectSet
        /\ Sane(call, log, wire, effects)
    BY DEF Begins, BackInv, TypeInv
  <1>2. /\ t \in Tasks /\ call[t].op = "none" /\ call[t].n \in Nat /\ n \in Nat /\ n >= 1 /\ n = call[t].n + 1
        /\ op \in OpsOf(kind) /\ op # "none" /\ kind \in Kinds /\ running # t
    BY DEF Begins
  <1>3. d.op = op /\ d.n = n
    BY DEF Fields
  <1>4. GoodCall(d)
    BY <1>1, <1>2, BegunIs
  <1>5. GoodCalls(call') /\ call'[t] = d /\ Others(call, call', t) /\ \A u \in Tasks \ {t} : call'[u] = call[u]
    BY <1>1, <1>2, <1>4, PutIs
  <1>6. Sane(call', log', wire', effects')
    <2>1. Adds(log, log, t, n, wire, effects) /\ call'[t].op \notin OrderOps /\ call'[t].n = n
      BY <1>3, <1>5 DEF Adds, OrderOps
    <2>2. Sane(call', log, wire, effects)
      BY <1>1, <1>2, <1>5, <2>1, QuietSane
    <2> QED
      BY <2>2 DEF Kept
  <1>7. Runner(call', running')
    BY <1>1, <1>2, <1>5 DEF Runner
  <1>8. Steady(call', log', wire', effects', running', cache', orderCache', seen')
    BY <1>1, <1>5, <1>6, <1>7 DEF Steady, Kept
  <1> QED
    BY <1>1, <1>8, SteadyIs DEF Kept

LEMMA FreeNow ==
  ASSUME NEW k, GoodCall(k), k.op = "none", NEW n \in Nat, NEW d, d = WithN(k, n)
  PROVE  GoodCall(d) /\ d.op = "none" /\ d.n = n
  <1>1. Record(k) /\ k.want = {}
    BY DEF GoodCall
  <1>2. d = Six(k.op, n, k.stage, k.want, k.got, k.since)
    BY <1>1, SixedIs, SetN DEF WithN
  <1>3. Sixed(d) /\ d.op = k.op /\ d.n = n /\ d.stage = k.stage /\ d.want = k.want /\ d.got = k.got /\ d.since = k.since
    BY <1>2, FieldsOfSix
  <1>4. Record(d)
    BY <1>1, <1>3 DEF Record, Sixed, Six
  <1> QED
    BY <1>1, <1>3, <1>4 DEF GoodCall

LEMMA FreeAt ==
  ASSUME NEW k, NEW n, GoodCall(k), k.op = "none", n \in Nat
  PROVE  GoodCall(WithN(k, n)) /\ WithN(k, n).op = "none" /\ WithN(k, n).n = n
  <1> SUFFICES ASSUME NEW d, d = WithN(k, n) PROVE GoodCall(d) /\ d.op = "none" /\ d.n = n
    OBVIOUS
  <1> QED
    BY FreeNow

LEMMA HitStep ==
  ASSUME NEW t, NEW op, NEW n, Begins(t, op, n), Kept,
         kind = "demo" \/ (kind = "agent" /\ op \in {"account", "reduce", "getOrder"}),
         NEW d, d = WithN(call[t], n), call' = Put(call, t, d), wire' = wire, running' = running,
         NEW entry, Entered(entry, op, t, n, HitValue(op)), log' = log \cup {entry}
  PROVE  BackInv'
  <1>1. /\ script \in Scripts /\ x \in Exchange /\ wire \in Wires /\ Looked(wire) /\ GoodCalls(call) /\ Runner(call, running)
        /\ Slot(cache) /\ Slot(orderCache) /\ seen \in SUBSET Views /\ effects \in SUBSET EffectSet
        /\ Sane(call, log, wire, effects)
    BY DEF Begins, BackInv, TypeInv
  <1>2. /\ t \in Tasks /\ call[t].op = "none" /\ call[t].n \in Nat /\ n \in Nat /\ n >= 1 /\ n = call[t].n + 1
        /\ op \in OpsOf(kind) /\ op # "none" /\ kind \in Kinds /\ running # t
    BY DEF Begins
  <1>3. ~Way(wire, t, n) /\ ~Took(effects, t, n)
    BY <1>1, <1>2, NewIs
  <1>4. GoodCall(d) /\ d.op = "none" /\ d.n = n
    BY <1>1, <1>2, FreeNow DEF GoodCalls
  <1>5. GoodCalls(call') /\ call'[t] = d /\ Others(call, call', t) /\ \A u \in Tasks \ {t} : call'[u] = call[u]
    BY <1>1, <1>2, <1>4, PutIs
  <1>6. Receipt(entry, wire, effects)
    BY <1>1, <1>2, <1>3, HitReceipt
  <1>7. Sane(call', log', wire', effects')
    <2>1. Adds(log, log', t, n, wire, effects)
      BY <1>6 DEF Adds, Entered
    <2>2. call'[t].op = "none" /\ call'[t].op \notin OrderOps /\ call'[t].n = n
      BY <1>4, <1>5 DEF OrderOps
    <2>3. Sane(call', log', wire, effects)
      BY <1>1, <1>2, <1>5, <2>1, <2>2, QuietSane
    <2> QED
      BY <2>3 DEF Kept
  <1>8. Runner(call', running')
    BY <1>1, <1>2, <1>5 DEF Runner
  <1>9. Steady(call', log', wire', effects', running', cache', orderCache', seen')
    BY <1>1, <1>5, <1>7, <1>8 DEF Steady, Kept
  <1> QED
    BY <1>1, <1>9, SteadyIs DEF Kept

\* How call n of t starts.
Starting(t, op, n, c) ==
    \/ /\ call' = Put(call, t, WithWant(c, Program(op)[1])) /\ wire' = wire \o Lines(t, n, Program(op)[1]) /\ log' = log
       /\ running' = IF kind = "agent" /\ op = "account" THEN t ELSE running
    \/ /\ op = "account" /\ call' = Put(call, t, WithWant(c, {"join"})) /\ wire' = wire /\ log' = log /\ running' = running
    \/ /\ op = "reduce" /\ call' = Put(call, t, WithWant(WithStage(c, 2), {"reduce"}))
       /\ wire' = wire \o Lines(t, n, {"reduce"}) /\ log' = log /\ running' = running
    \/ /\ kind = "demo" \/ (kind = "agent" /\ op \in {"account", "reduce", "getOrder"})
       /\ call' = Put(call, t, WithN(call[t], n)) /\ wire' = wire /\ running' = running
       /\ op = "account" => kind = "demo" \/ cache # <<>>
       /\ \E entry : /\ Entered(entry, op, t, n, HitValue(op)) /\ log' = log \cup {entry}
                     /\ (op = "account" => Fresh_(HitValue(op), c.since) \/ crossed) => entry.fresh \/ entry.late

LEMMA BeginIs ==
  ASSUME NEW t, NEW op, Begin(t, op), NEW n, n = call[t].n + 1, NEW since, since = seen \cup {Snap},
         NEW c, c = Opening(op, n, since)
  PROVE  Kept /\ call[t].op = "none" /\ Starting(t, op, n, c)
  <1> SUFFICES ASSUME NEW o, o = Opened(t, op)
               PROVE  Kept /\ call[t].op = "none" /\ Starting(t, op, n, c)
    OBVIOUS
  <1>1. Kept /\ call[t].op = "none"
    BY DEF Begin, Busy, Kept
  <1>2. Ready(op, c, o)
    BY OpenedIs
  <1>3. Fields(c, op, n, 1, {}, since)
    BY OpeningFields
  <1>4. /\ o.to = "send" => /\ call' = Put(call, t, o.c) /\ wire' = wire \o Lines(t, o.c.n, o.c.want) /\ log' = log
                            /\ running' = IF kind = "agent" /\ op = "account" THEN t ELSE running
        /\ o.to = "join" => call' = Put(call, t, o.c) /\ wire' = wire /\ log' = log /\ running' = running
        /\ o.to = "second" => /\ call' = Put(call, t, WithWant(WithStage(o.c, 2), {"reduce"}))
                              /\ wire' = wire \o Lines(t, o.c.n, {"reduce"}) /\ log' = log /\ running' = running
        /\ o.to = "hit" => /\ call' = Put(call, t, WithN(call[t], o.c.n)) /\ wire' = wire /\ running' = running
                           /\ log' = log \cup {[task |-> t, n |-> o.c.n, op |-> op, out |-> HitValue(op),
                                                fresh |-> op = "account" => Fresh_(HitValue(op), o.c.since),
                                                late |-> op = "account" /\ crossed]}
    <2>1. o.to = "send" => /\ call' = Put(call, t, o.c) /\ wire' = wire \o Lines(t, o.c.n, o.c.want) /\ log' = log
                           /\ running' = IF kind = "agent" /\ op = "account" THEN t ELSE running
      BY DEF Begin, Put
    <2>2. o.to = "join" => call' = Put(call, t, o.c) /\ wire' = wire /\ log' = log /\ running' = running
      BY DEF Begin, Put
    <2>3. ASSUME o.to = "second"
          PROVE  /\ call' = Put(call, t, WithWant(WithStage(o.c, 2), {"reduce"}))
                 /\ wire' = wire \o Lines(t, o.c.n, {"reduce"}) /\ log' = log /\ running' = running
      <3>1. /\ call' = [call EXCEPT ![t] = [o.c EXCEPT !.stage = 2, !.want = {"reduce"}]]
            /\ wire' = wire \o Lines(t, o.c.n, {"reduce"}) /\ log' = log /\ running' = running
        BY <2>3 DEF Begin
      <3>2. \A f : [f EXCEPT !.stage = 2, !.want = {"reduce"}] = WithWant(WithStage(f, 2), {"reduce"})
        BY DEF WithWant, WithStage
      <3> QED
        BY <3>1, <3>2 DEF Put
    <2>4. ASSUME o.to = "hit"
          PROVE  /\ call' = Put(call, t, WithN(call[t], o.c.n)) /\ wire' = wire /\ running' = running
                 /\ log' = log \cup {[task |-> t, n |-> o.c.n, op |-> op, out |-> HitValue(op),
                                      fresh |-> op = "account" => Fresh_(HitValue(op), o.c.since),
                                                late |-> op = "account" /\ crossed]}
      <3>1. /\ call' = [call EXCEPT ![t].n = o.c.n] /\ wire' = wire /\ running' = running
            /\ log' = log \cup {[task |-> t, n |-> o.c.n, op |-> op, out |-> HitValue(op),
                                 fresh |-> op = "account" => Fresh_(HitValue(op), o.c.since),
                                                late |-> op = "account" /\ crossed]}
        BY <2>4 DEF Begin
      <3>2. ASSUME NEW m PROVE [call EXCEPT ![t].n = m] = Put(call, t, WithN(call[t], m))
        BY DEF Put, WithN
      <3> QED
        BY <3>1, <3>2
    <2> QED
      BY <2>1, <2>2, <2>3, <2>4
  <1>5. CASE o.to = "send"
    <2>1. o.c = WithWant(c, Program(op)[1])
      BY <1>2, <1>5 DEF Ready
    <2>2. Fields(o.c, op, n, 1, Program(op)[1], since)
      BY <1>3, <2>1, PutWant
    <2>3. o.c.n = n /\ o.c.want = Program(op)[1]
      BY <2>2 DEF Fields
    <2> QED
      BY <1>1, <1>4, <1>5, <2>1, <2>3 DEF Starting
  <1>6. CASE o.to = "join"
    <2>1. o.c = WithWant(c, {"join"}) /\ op = "account"
      BY <1>2, <1>6 DEF Ready
    <2> QED
      BY <1>1, <1>4, <1>6, <2>1 DEF Starting
  <1>7. CASE o.to = "second"
    <2>1. o.c = c /\ op = "reduce"
      BY <1>2, <1>7 DEF Ready
    <2>2. o.c.n = n
      BY <1>3, <2>1 DEF Fields
    <2> QED
      BY <1>1, <1>4, <1>7, <2>1, <2>2 DEF Starting
  <1>8. CASE o.to = "hit"
    <2>1. /\ o.c = c /\ (kind = "demo" \/ (kind = "agent" /\ op \in {"account", "reduce", "getOrder"}))
          /\ op = "account" => kind = "demo" \/ cache # <<>>
      BY <1>2, <1>8 DEF Ready
    <2>2. o.c.n = n
      BY <1>3, <2>1 DEF Fields
    <2> DEFINE entry == [task |-> t, n |-> n, op |-> op, out |-> HitValue(op), fresh |-> op = "account" => Fresh_(HitValue(op), o.c.since),
                                                late |-> op = "account" /\ crossed]
    <2>3. Entered(entry, op, t, n, HitValue(op)) /\ ((op = "account" => Fresh_(HitValue(op), c.since) \/ crossed) => entry.fresh \/ entry.late)
      BY <2>1 DEF Entered
    <2>4. log' = log \cup {entry}
      BY <1>4, <1>8, <2>2
    <2> HIDE DEF entry
    <2> QED
      BY <1>1, <1>4, <1>8, <2>1, <2>2, <2>3, <2>4 DEF Starting
  <1> QED
    BY <1>2, <1>5, <1>6, <1>7, <1>8 DEF Ready

\* With its first requests, or at once with its second.
LEMMA SendFirst ==
  ASSUME NEW t, NEW op, NEW n, Begins(t, op, n), Kept, NEW since \in SUBSET Views, NEW rs, rs = Program(op)[1],
         NEW d, Fields(d, op, n, 1, rs, since), call' = Put(call, t, d), wire' = wire \o Lines(t, n, rs), log' = log,
         running' = running \/ (running' = t /\ kind = "agent" /\ op = "account")
  PROVE  BackInv'
  <1>1. ASSUME NEW stage, stage = 1 PROVE BackInv'
    <2>1. stage \in {1, 2} /\ ~(stage = 2) /\ rs = Program(op)[stage] /\ Fields(d, op, n, stage, rs, since)
      BY <1>1
    <2> HIDE <1>1
    <2> QED
      BY <1>1, <2>1, SendStep, Zenon
  <1> QED
    BY <1>1

LEMMA BeginStep ==
  ASSUME BackInv, NEW t \in Tasks, Calls(t)
  PROVE  BackInv'
  <1> SUFFICES ASSUME NEW n, n = call[t].n + 1, NEW op, op = script.ops[t][n],
                      NEW since, since = seen \cup {Snap}, NEW c, c = Opening(op, n, since)
               PROVE  BackInv'
    OBVIOUS
  <1>1. /\ script \in Scripts /\ x \in Exchange /\ GoodCalls(call) /\ Runner(call, running) /\ seen \in SUBSET Views
    BY DEF BackInv, TypeInv
  <1>2. call[t].n \in Nat /\ n \in Nat /\ n >= 1
    <2>1. GoodCall(call[t])
      BY <1>1 DEF GoodCalls
    <2> QED
      BY <2>1 DEF GoodCall, Record
  <1>3. call[t].n < Len(script.ops[t]) /\ Begin(t, op)
    BY DEF Calls
  <1>4. op \in OpsOf(kind) /\ op # "none" /\ kind \in Kinds
    <2>1. script.ops[t] \in Seq(OpsOf(kind)) /\ kind \in Kinds
      BY <1>1, ScriptIs
    <2>2. op \in OpsOf(kind)
      BY <1>2, <1>3, <2>1
    <2> QED
      BY <1>1, <2>1, <2>2, ScriptIs
  <1>5. Kept /\ call[t].op = "none"
    BY <1>3, BeginIs
  <1>6. Begins(t, op, n)
    <2>1. running # t
      BY <1>1, <1>5, BackendsAssumption DEF Runner
    <2> QED
      BY <1>2, <1>4, <1>5, <2>1 DEF Begins
  <1>7. since \in SUBSET Views
    BY <1>1, SnapIs
  <1>8. Fields(c, op, n, 1, {}, since)
    BY OpeningFields, SMTT(30)
  <1>9. CASE /\ call' = Put(call, t, WithWant(c, Program(op)[1])) /\ wire' = wire \o Lines(t, n, Program(op)[1]) /\ log' = log
             /\ running' = IF kind = "agent" /\ op = "account" THEN t ELSE running
    <2> SUFFICES ASSUME NEW rs, rs = Program(op)[1], NEW d, d = WithWant(c, rs) PROVE BackInv'
      BY SMTT(30)
    <2>1. Fields(d, op, n, 1, rs, since)
      BY <1>8, PutWant, SMTT(30)
    <2>2. call' = Put(call, t, d) /\ wire' = wire \o Lines(t, n, rs) /\ log' = log
      BY <1>9, ZenonT(40)
    <2>3. running' = running \/ (running' = t /\ kind = "agent" /\ op = "account")
      BY <1>9, Zenon
    <2> HIDE <1>9
    <2> QED
      BY <1>5, <1>6, <1>7, <2>1, <2>2, <2>3, SendFirst, Zenon
  <1>10. CASE op = "account" /\ call' = Put(call, t, WithWant(c, {"join"})) /\ wire' = wire /\ log' = log /\ running' = running
    <2> SUFFICES ASSUME NEW d, d = WithWant(c, {"join"}) PROVE BackInv'
      OBVIOUS
    <2>1. Fields(d, op, n, 1, {"join"}, since)
      BY <1>8, PutWant
    <2> QED
      BY <1>5, <1>6, <1>7, <1>10, <2>1, JoinStep
  <1>11. CASE /\ op = "reduce" /\ call' = Put(call, t, WithWant(WithStage(c, 2), {"reduce"}))
              /\ wire' = wire \o Lines(t, n, {"reduce"}) /\ log' = log /\ running' = running
    <2> SUFFICES ASSUME NEW rs, rs = {"reduce"}, NEW b, b = WithStage(c, 2), NEW d, d = WithWant(b, rs) PROVE BackInv'
      OBVIOUS
    <2>1. Fields(d, op, n, 2, rs, since)
      <3>1. Fields(b, op, n, 2, {}, since)
        BY <1>8, PutStage
      <3> QED
        BY <3>1, PutWant
    <2>2. TwoStage(op) /\ rs = Program(op)[2]
      BY <1>4, <1>11, ProgramIs DEF TwoStage, Second
    <2>3. call' = Put(call, t, d) /\ wire' = wire \o Lines(t, n, rs) /\ log' = log /\ running' = running /\ op = "reduce"
      BY <1>11
    <2> QED
      BY <1>5, <1>6, <1>7, <2>1, <2>2, <2>3, SendStep
  <1>12. CASE /\ kind = "demo" \/ (kind = "agent" /\ op \in {"account", "reduce", "getOrder"})
              /\ call' = Put(call, t, WithN(call[t], n)) /\ wire' = wire /\ running' = running
              /\ \E entry : Entered(entry, op, t, n, HitValue(op)) /\ log' = log \cup {entry}
    BY <1>5, <1>6, <1>12, HitStep
  <1>13. Starting(t, op, n, c)
    BY <1>3, BeginIs
  <1> QED
    BY <1>9, <1>10, <1>11, <1>12, <1>13, Zenon DEF Starting

LEMMA StutterStep ==
  ASSUME BackInv, UNCHANGED backendVars
  PROVE  BackInv'
  <1>1. kind' = kind
    BY DEF kind, backendVars
  <1>2. GoodCalls(call)'
    <2>1. GoodCalls(call') /\ script' = script
      BY DEF BackInv, TypeInv, backendVars
    <2> QED
      BY <2>1, SameScript
  <1>3. TypeInv'
    BY <1>1, <1>2 DEF BackInv, TypeInv, backendVars, Looked, Runner, Slot
  <1>4. Sane(call, log, wire, effects)'
    BY DEF BackInv, backendVars
  <1> QED
    BY <1>3, <1>4 DEF BackInv

LEMMA BackInit ==
  ASSUME BackendInit
  PROVE  BackInv
  <1>1. script \in Scripts /\ script.left \in {"nothing", "position", "stop", "owned"}
    BY BackendsAssumption DEF BackendInit
  <1>2. x \in Exchange
    BY DEF BackendInit, Exchange
  <1>3. <<>> \in Wires /\ DOMAIN <<>> = {}
    BY DEF Wires
  <1>4. \A t \in Tasks : call[t] = Idle
    BY DEF BackendInit
  <1>5. Sixed(Idle) /\ Idle.op = "none" /\ Idle.n = 0 /\ Idle.stage = 0 /\ Idle.want = {} /\ Idle.got = <<>> /\ Idle.since = {}
    BY DEF Idle, Sixed, Six
  <1>6. GoodCall(Idle)
    <2>1. Record(Idle)
      BY <1>5 DEF Record, Sixed, Six
    <2> QED
      BY <1>5, <2>1 DEF GoodCall
  <1>7. GoodCalls(call)
    <2>1. call = [t \in Tasks |-> call[t]]
      BY DEF BackendInit
    <2> QED
      BY <1>4, <1>6, <2>1 DEF GoodCalls
  <1>8. wire = <<>> /\ log = {} /\ effects = {} /\ running = "none" /\ cache = <<>> /\ orderCache = <<>> /\ seen = {Snap}
    BY DEF BackendInit
  <1>9. seen \in SUBSET Views
    BY <1>2, <1>8, SnapIs
  <1>10. Sane(call, log, wire, effects)
    BY <1>3, <1>4, <1>5, <1>8 DEF Sane
  <1>11. TypeInv
    BY <1>1, <1>2, <1>3, <1>7, <1>8, <1>9 DEF TypeInv, Looked, Runner, Slot
  <1> QED
    BY <1>10, <1>11 DEF BackInv

LEMMA BackNext ==
  ASSUME BackInv, [BackendNext]_backendVars
  PROVE  BackInv'
  <1>1. CASE \E t \in Tasks : Calls(t)
    BY <1>1, BeginStep
  <1>2. CASE \E t \in Tasks : Timer(t)
    BY <1>2, TimerStep
  <1>3. CASE \E i \in DOMAIN wire : Execute(i)
    BY <1>3, ExecuteStep
  <1>4. CASE \E i \in DOMAIN wire : \E k \in {"local", "rejected", "torn", "garbled"} : Fails(i, k)
    BY <1>4, FailsStep
  <1>5. CASE \E i \in DOMAIN wire : Boasts(i)
    BY <1>5, BoastsStep
  <1>6. CASE \E i \in DOMAIN wire : Looks(i)
    BY <1>6, LooksStep
  <1>7. CASE ChildExits
    BY <1>7, ChildExitsStep
  <1>8. CASE CacheExpires
    BY <1>8, CacheExpiresStep
  <1>9. CASE Trades
    BY <1>9, TradesStep
  <1>10. CASE UNCHANGED backendVars
    BY <1>10, StutterStep
  <1> QED
    BY <1>1, <1>2, <1>3, <1>4, <1>5, <1>6, <1>7, <1>8, <1>9, <1>10 DEF BackendNext

LEMMA BackAlways == BackendSpec => []BackInv
  BY BackInit, BackNext, PTL DEF BackendSpec

LEMMA InvReceipts == ASSUME BackInv PROVE ReceiptsHonest
  <1> SUFFICES ASSUME NEW e \in log
               PROVE  /\ e.op \in {"entry", "stop", "reduce"} =>
                           /\ e.out.word \in {"filled", "submitted"} => TookEffect(e)
                           /\ e.out.word = "failed" => ~TookEffect(e) /\ ~OnItsWay(e)
                      /\ e.op = "openprot" =>
                           /\ e.out.word \in {"filled", "submitted"} => TookEffect(e)
                           /\ e.out.word = "failed" => ~TookEffect(e) /\ ~OnItsWay(e)
                           /\ e.out.leg = "submitted" => StopTookEffect(e)
                           /\ e.out.leg \in {"failed", "skipped"} => ~StopTookEffect(e) /\ ~OnItsWay(e)
    BY DEF ReceiptsHonest
  <1>1. Receipt(e, wire, effects)
    BY DEF BackInv, Sane
  <1>2. TookEffect(e) <=> Took(effects, e.task, e.n)
    BY DEF TookEffect, Took
  <1>3. StopTookEffect(e) <=> StopTook(effects, e.task, e.n)
    BY DEF StopTookEffect, StopTook
  <1>4. OnItsWay(e) <=> Way(wire, e.task, e.n)
    BY DEF OnItsWay, Way, Of
  <1> QED
    BY <1>1, <1>2, <1>3, <1>4 DEF Receipt, OrderOps

LEMMA InvType == ASSUME BackInv PROVE BackendTypeOK
  <1>1. /\ script \in Scripts /\ x \in Exchange /\ wire \in Wires /\ GoodCalls(call) /\ Runner(call, running)
        /\ Slot(cache) /\ Slot(orderCache) /\ seen \in SUBSET Views /\ Sane(call, log, wire, effects)
    BY DEF BackInv, TypeInv
  <1>2. \A i \in DOMAIN wire : wire[i].task \in Tasks /\ wire[i].n \in 1..call[wire[i].task].n
    BY <1>1, LineIs DEF Sane
  <1>3. \A t \in Tasks : Busy(t) <=> call[t].want # {}
    BY <1>1 DEF GoodCalls, GoodCall, BusyCall, Busy
  <1>4. \A s : Slot(s) => Len(s) <= 1
    BY DEF Slot
  <1> QED
    BY <1>1, <1>2, <1>3, <1>4 DEF BackendTypeOK, Exchange, Runner

(***************************************************************************)
(* Canceled entries                                                        *)
(***************************************************************************)
Cancels == {"cancelOrder", "cancelAll"}
Settled(e) == e.entry \in {"FILLED", "CANCELED"}
\* The entry of task t was known to be at the exchange before call n.
Known(e) == e.op = "entry" /\ e.out.word = "submitted"
Placed(L, t, n) == \E e \in L : Known(e) /\ e.task = t /\ e.n < n
\* cli: the first leg of a cancellation told that the entry is gone.
Ripe(c) ==
    /\ c.op \in Cancels /\ c.stage = 2
    /\ c.op = "cancelAll" => c.got["cancelPlain"].kind \in {"ok", "rejected", "gone"}
GoneInv(C, L, e) ==
    /\ \A a \in L : Known(a) => e.entry # "none"
    /\ \A a \in L : a.op \in Cancels /\ a.out.word = "ok" /\ Placed(L, a.task, a.n) => Settled(e)
    /\ \A t \in Tasks : /\ Ripe(C[t]) /\ Placed(L, t, C[t].n) => Settled(e)
                        /\ C[t].op = "cancelAll" /\ C[t].stage = 2 => "cancelPlain" \in DOMAIN C[t].got
Onwards(e, f) == (e.entry # "none" => f.entry # "none") /\ (Settled(e) => Settled(f))

\* Numbered(C, L, M): what M adds to L is of calls not yet in L.
Numbered(C, L, M) ==
    /\ L \subseteq M
    /\ \A a \in L : a.task \in Tasks /\ a.n \in Nat /\ a.n <= C[a.task].n
    /\ \A t \in Tasks : C[t].n \in Nat
    /\ \A b \in M \ L : b.task \in Tasks /\ b.n \in Nat /\ \A a \in L : a.task = b.task => a.n < b.n
    /\ \A a, b \in M \ L : a.task = b.task => a.n = b.n

\* What ends, and what goes on.
LEMMA GoneStep ==
  ASSUME NEW C, NEW D, NEW L, NEW M, NEW e, NEW f, GoneInv(C, L, e), Onwards(e, f), Numbered(C, L, M),
         \A a \in M \ L : /\ Known(a) => f.entry # "none"
                          /\ a.op \in Cancels /\ a.out.word = "ok" /\ Placed(L, a.task, a.n) => Settled(f),
         \A t \in Tasks : \/ D[t].op \notin Cancels
                          \/ D[t].stage # 2
                          \/ /\ D[t].op = C[t].op /\ D[t].n = C[t].n /\ D[t].got = C[t].got /\ C[t].stage = 2
                             /\ \A b \in M \ L : b.task # t
                          \/ /\ Ripe(D[t]) /\ Placed(M, t, D[t].n) => Settled(f)
                             /\ D[t].op = "cancelAll" => "cancelPlain" \in DOMAIN D[t].got
  PROVE  GoneInv(D, M, f)
  <1>1. ASSUME NEW a \in M, Known(a) PROVE f.entry # "none"
    BY <1>1 DEF GoneInv, Onwards
  <1>2. ASSUME NEW a \in M, a.op \in Cancels, a.out.word = "ok", Placed(M, a.task, a.n) PROVE Settled(f)
    <2>1. PICK b \in M : Known(b) /\ b.task = a.task /\ b.n < a.n
      BY <1>2 DEF Placed
    <2>2. b \in L
      <3>1. SUFFICES ASSUME b \notin L PROVE FALSE
        OBVIOUS
      <3>2. CASE a \in L
        BY <2>1, <3>1, <3>2 DEF Numbered
      <3>3. CASE a \notin L
        BY <2>1, <3>1, <3>3 DEF Numbered
      <3> QED
        BY <3>2, <3>3
    <2>3. Placed(L, a.task, a.n)
      BY <2>1, <2>2 DEF Placed
    <2> QED
      BY <1>2, <2>3 DEF GoneInv, Onwards
  <1>3. ASSUME NEW t \in Tasks
        PROVE  /\ Ripe(D[t]) /\ Placed(M, t, D[t].n) => Settled(f)
               /\ D[t].op = "cancelAll" /\ D[t].stage = 2 => "cancelPlain" \in DOMAIN D[t].got
    <2>1. CASE D[t].op \notin Cancels \/ D[t].stage # 2
      BY <2>1 DEF Ripe, Cancels
    <2>2. CASE /\ D[t].op = C[t].op /\ D[t].n = C[t].n /\ D[t].got = C[t].got /\ C[t].stage = 2
               /\ \A b \in M \ L : b.task # t
      <3>1. Ripe(D[t]) => Ripe(C[t])
        BY <2>2 DEF Ripe
      <3>2. Placed(M, t, D[t].n) => Placed(L, t, C[t].n)
        BY <2>2 DEF Placed
      <3> QED
        BY <2>2, <3>1, <3>2 DEF GoneInv, Onwards
    <2> QED
      BY <2>1, <2>2
  <1> QED
    BY <1>1, <1>2, <1>3 DEF GoneInv

\* A step that ends no call.
Alikeness(C, D) == \A t \in Tasks : /\ Same(C[t], D[t])
                                    /\ D[t].got = C[t].got
LEMMA GoneSame ==
  ASSUME NEW C, NEW D, NEW L, NEW e, NEW f, GoneInv(C, L, e), Onwards(e, f), Alikeness(C, D)
  PROVE  GoneInv(D, L, f)
  <1>1. \A t \in Tasks : (Ripe(D[t]) <=> Ripe(C[t])) /\ D[t].n = C[t].n /\ D[t].op = C[t].op /\ D[t].stage = C[t].stage
    BY DEF Alikeness, Same, Ripe
  <1> QED
    BY <1>1 DEF GoneInv, Onwards, Alikeness

LEMMA ApplyOnwards ==
  ASSUME x \in Exchange, NEW l, Effect(l)
  PROVE  Onwards(x, x')
  <1>1. /\ x.entry # "none" => Apply(x, l.req).entry # "none"
        /\ x.entry \in {"FILLED", "CANCELED"} => Apply(x, l.req).entry \in {"FILLED", "CANCELED"}
    BY ApplyIs
  <1> QED
    BY <1>1 DEF Effect, Onwards, Settled

\* What an answer tells of the entry order.
Reveals(c, a) ==
    /\ c.op = "entry" /\ a.kind = "ok" => x'.entry # "none"
    /\ /\ c.op \in Cancels /\ c.stage = 1 /\ x.entry # "none"
       /\ a.kind \in {"ok", "gone"} \/ (kind = "cli" /\ a.kind = "rejected")
       => Settled(x')

LEMMA CancelApplied ==
  ASSUME NEW e \in Exchange, NEW r \in {"cancel", "cancelPlain", "cancelAll"}, e.entry # "none"
  PROVE  Settled(Apply(e, r))
  <1>1. e.entry \in {"NEW", "FILLED", "CANCELED"}
    BY DEF Exchange
  <1>2. CASE r = "cancel"
    <2>1. Apply(e, r) = IF e.entry = "NEW" THEN [e EXCEPT !.entry = "CANCELED"] ELSE e
      BY <1>2 DEF Apply, Accepts
    <2> QED
      BY <1>1, <2>1 DEF Settled, Exchange
  <1>3. CASE r = "cancelPlain"
    <2>1. Apply(e, r) = [e EXCEPT !.entry = IF @ = "NEW" THEN "CANCELED" ELSE @]
      BY <1>3 DEF Apply, Accepts
    <2> QED
      BY <1>1, <2>1 DEF Settled, Exchange
  <1>4. CASE r = "cancelAll"
    <2>1. Apply(e, r) = [e EXCEPT !.entry = IF @ = "NEW" THEN "CANCELED" ELSE @, !.stop = FALSE, !.old = FALSE]
      BY <1>4 DEF Apply, Accepts
    <2> QED
      BY <1>1, <2>1 DEF Settled, Exchange
  <1> QED
    BY <1>2, <1>3, <1>4

LEMMA NewApplied ==
  ASSUME NEW e \in Exchange
  PROVE  Apply(e, "new").entry # "none"
  <1>1. CASE e.entry = "none"
    <2>1. Apply(e, "new") = IF Market THEN [e EXCEPT !.entry = "FILLED", !.pos = 2] ELSE [e EXCEPT !.entry = "NEW"]
      BY <1>1 DEF Apply, Accepts
    <2>2. [e EXCEPT !.entry = "FILLED", !.pos = 2].entry = "FILLED" /\ [e EXCEPT !.entry = "NEW"].entry = "NEW"
      BY DEF Exchange
    <2> QED
      BY <2>1, <2>2
  <1>2. CASE e.entry # "none"
    BY <1>2, ApplyIs
  <1> QED
    BY <1>1, <1>2

\* The requests of an entry and of a cancellation.
LEMMA GoneSole ==
  ASSUME script \in Scripts, NEW c, GoodCall(c), NEW r \in c.want \ {"join"}, c.op \in {"entry", "cancelOrder", "cancelAll"}
  PROVE  /\ c.op = "entry" => c.stage = 1 /\ r = "new"
         /\ c.op = "cancelOrder" => r = IF c.stage = 1 THEN "cancel" ELSE "cancelAlgo"
         /\ c.op = "cancelAll" => r = IF c.stage = 2 THEN "cancelAlgos" ELSE IF kind = "cli" THEN "cancelPlain" ELSE "cancelAll"
         /\ c.stage \in {1, 2} /\ (c.stage = 2 => kind = "cli")
  <1>1. /\ c.stage \in {1, 2} /\ (c.stage = 2 => TwoStage(c.op))
        /\ Plain(c.op, c.stage) => r = Sole(c.op, c.stage)
    BY AwaitedIs
  <1>2. r = Sole(c.op, c.stage)
    BY <1>1 DEF Plain, ReadOps
  <1>3. c.op = "entry" => c.stage = 1 /\ r = "new"
    BY <1>1, <1>2 DEF TwoStage, Sole, Single
  <1>4. c.op = "cancelOrder" => r = IF c.stage = 1 THEN "cancel" ELSE "cancelAlgo"
    BY <1>1, <1>2 DEF Sole, Single, Second
  <1>5. c.op = "cancelAll" => r = IF c.stage = 2 THEN "cancelAlgos" ELSE IF kind = "cli" THEN "cancelPlain" ELSE "cancelAll"
    BY <1>1, <1>2 DEF Sole, Single, Second
  <1>6. c.stage = 2 => kind = "cli"
    BY <1>1 DEF TwoStage
  <1> QED
    BY <1>1, <1>3, <1>4, <1>5, <1>6

LEMMA ExecuteReveals ==
  ASSUME script \in Scripts, x \in Exchange, NEW l \in LineSet, Effect(l), NEW c, GoodCall(c), Asked(l) \in c.want, NEW a
  PROVE  Reveals(c, a)
  <1>0. Asked(l) # "join"
    BY DEF Asked, LineSet, Reqs
  <1>1. x' = Apply(x, l.req)
    BY DEF Effect
  <1>2. CASE c.op = "entry"
    <2>1. l.req = "new"
      BY <1>0, <1>2, GoneSole DEF Asked
    <2>2. x'.entry # "none"
      BY <1>1, <2>1, NewApplied
    <2> QED
      BY <1>2, <2>2 DEF Reveals, Cancels
  <1>3. CASE c.op \in Cancels /\ c.stage = 1
    <2>1. Asked(l) \in {"cancel", "cancelPlain", "cancelAll"}
      BY <1>0, <1>3, GoneSole DEF Cancels
    <2>2. l.req \in {"cancel", "cancelPlain", "cancelAll"}
      BY <2>1 DEF Asked
    <2>3. x.entry # "none" => Settled(x')
      BY <1>1, <2>2, CancelApplied
    <2> QED
      BY <1>3, <2>3 DEF Reveals, Cancels
  <1> QED
    BY <1>2, <1>3 DEF Reveals

\* Neither failing nor boasting reveals anything, but for refused cancellations.
LEMMA FailsReveals ==
  ASSUME script \in Scripts, NEW c, GoodCall(c), NEW r \in c.want \ {"join"}, NEW a,
         a.kind \notin {"ok", "gone"} \/ r \in {"algo", "openprot"},
         a.kind = "rejected" => <<kind, r>> \in Refusals, {<<"cli", "cancel">>, <<"cli", "cancelPlain">>} \cap Refusals = {}
  PROVE  Reveals(c, a)
  <1>1. c.op \in {"entry", "cancelOrder", "cancelAll"} => r \notin {"algo", "openprot"}
    BY GoneSole
  <1>2. c.op = "entry" => a.kind # "ok"
    BY <1>1
  <1>3. ASSUME c.op \in Cancels, c.stage = 1
        PROVE  a.kind \notin {"ok", "gone"} /\ ~(kind = "cli" /\ a.kind = "rejected")
    <2>1. a.kind \notin {"ok", "gone"}
      BY <1>1, <1>3 DEF Cancels
    <2>2. kind = "cli" => r \in {"cancel", "cancelPlain"}
      BY <1>3, GoneSole DEF Cancels
    <2> QED
      BY <2>1, <2>2
  <1> QED
    BY <1>2, <1>3 DEF Reveals

LEMMA LoggedNumbered ==
  ASSUME GoodCalls(call), NEW w, NEW E, Sane(call, log, w, E), NEW ts \in SUBSET Tasks, \A u \in ts : call[u].op # "none",
         NEW M, log \subseteq M, \A b \in M \ log : b.task \in ts /\ b.n = call[b.task].n
  PROVE  Numbered(call, log, M)
  <1>1. \A u \in Tasks : call[u].n \in Nat
    BY DEF GoodCalls, GoodCall, Record
  <1>2. ASSUME NEW a \in log
        PROVE  a.task \in Tasks /\ a.n \in Nat /\ a.n <= call[a.task].n /\ (call[a.task].op # "none" => a.n < call[a.task].n)
    <2>1. a.task \in Tasks /\ a.n \in 1..call[a.task].n /\ (call[a.task].op # "none" => a.n < call[a.task].n)
      BY DEF Sane
    <2> QED
      BY <1>1, <2>1
  <1>3. ASSUME NEW b \in M \ log
        PROVE  b.task \in Tasks /\ b.n \in Nat /\ \A a \in log : a.task = b.task => a.n < b.n
    BY <1>1, <1>2
  <1> QED
    BY <1>1, <1>2, <1>3 DEF Numbered

\* The verdicts on an entry and on a cancellation.
LEMMA EntryVerdict ==
  ASSUME kind \in Kinds, "entry" \in OpsOf(kind), NEW got, NEW v, v = Verdict("entry", 1, {}, got), NEW a, a = got["new"],
         v[2].word = "submitted"
  PROVE  a.kind = "ok"
  <1>1. Sole("entry", 1) = "new"
    BY DEF Sole, Single
  <1>2. PICK leg : v = DoneLegs(receipt("new", a), leg)
    <2>1. ASSUME NEW r, r = Sole("entry", 1) PROVE \E leg : v = DoneLegs(receipt(r, got[r]), leg)
      BY <2>1, VerdictIs DEF TwoStage
    <2> QED
      BY <1>1, <2>1
  <1>3. receipt("new", a) = "submitted"
    BY <1>2, DoneIs
  <1> QED
    BY <1>3 DEF receipt

Decides(c, r, a, v) ==
    /\ v[1] = "done" /\ v[2].word = "ok" /\ c.stage = 1 => a.kind \in {"ok", "gone"}
    /\ v[1] = "done" /\ v[2].word = "ok" /\ c.stage = 2 /\ c.op = "cancelAll" /\ "cancelPlain" \in DOMAIN c.got => Ripe(c)
    /\ v[1] = "next" /\ c.op = "cancelOrder" => kind = "cli" /\ c.stage = 1 /\ a.kind \in {"rejected", "gone"}
    /\ v[1] = "next" /\ c.op = "cancelAll" => kind = "cli" /\ c.stage = 1 /\ r = "cancelPlain"
LEMMA CancelVerdicts ==
  ASSUME script \in Scripts, NEW c, GoodCall(c), NEW r \in c.want \ {"join"}, NEW a, NEW d, d = After(c, r, a),
         NEW v, v = Verdict(c.op, c.stage, d.want, d.got), c.op \in Cancels
  PROVE  Decides(c, r, a, v)
  <1>1. /\ c.op \in OpsOf(kind) /\ c.stage \in {1, 2} /\ (c.stage = 2 => TwoStage(c.op)) /\ kind \in Kinds
        /\ Plain(c.op, c.stage) => r = Sole(c.op, c.stage)
    BY AwaitedIs, ScriptIs
  <1>2. r = Sole(c.op, c.stage)
    BY <1>1 DEF Plain, ReadOps, Cancels
  <1>3. d.got = With(c.got, r, a)
    <2>1. Record(c)
      BY DEF GoodCall
    <2> QED
      BY <2>1, AfterIs
  <1>4. d.got[r] = a /\ DOMAIN d.got = DOMAIN c.got \cup {r} /\ \A q \in DOMAIN c.got \ {r} : d.got[q] = c.got[q]
    <2>1. With(c.got, r, a)[r] = a
      BY WithNew
    <2>2. DOMAIN With(c.got, r, a) = DOMAIN c.got \cup {r}
      BY WithDomain
    <2>3. ASSUME NEW q \in DOMAIN c.got \ {r} PROVE With(c.got, r, a)[q] = c.got[q]
      BY WithOld
    <2> QED
      BY <1>3, <2>1, <2>2, <2>3
  <1>5. CASE c.op = "cancelOrder"
    <2>1. v = CancelVerdict(c.op, c.stage, a)
      BY <1>1, <1>2, <1>4, <1>5, VerdictIs
    <2>2. v = IF kind = "cli" /\ c.stage = 1 /\ a.kind \in {"rejected", "gone"} THEN Next_ ELSE Done(IF CancelOk(a) THEN "ok" ELSE "error")
      BY <1>5, <2>1 DEF CancelVerdict
    <2> QED
      BY <1>5, <2>2, DoneIs DEF CancelOk, Decides
  <1>6. CASE c.op = "cancelAll"
    <2>1. v = CancelAllVerdict(c.stage, a, d.got)
      BY <1>1, <1>2, <1>4, <1>6, VerdictIs
    <2>2. CASE kind # "cli"
      <3>1. v = Done(IF a.kind = "ok" THEN "ok" ELSE "error")
        BY <2>1, <2>2 DEF CancelAllVerdict
      <3>2. c.stage = 1
        BY <1>1, <1>6, <2>2 DEF TwoStage
      <3> QED
        BY <1>6, <3>1, <3>2, DoneIs DEF Decides
    <2>3. CASE kind = "cli" /\ c.stage = 1
      <3>1. v = Next_
        BY <2>1, <2>3 DEF CancelAllVerdict
      <3>2. r = "cancelPlain"
        BY <1>2, <1>6, <2>3 DEF Sole, Single
      <3> QED
        BY <1>6, <2>3, <3>1, <3>2, DoneIs DEF Decides
    <2>4. CASE kind = "cli" /\ c.stage = 2
      <3>1. v = Done(IF CancelAllErrors(d.got) THEN "error" ELSE "ok")
        BY <2>1, <2>4 DEF CancelAllVerdict
      <3>2. r = "cancelAlgos"
        BY <1>2, <1>6, <2>4 DEF Sole, Second
      <3>3. v[1] = "done" /\ (v[2].word = "ok" => ~CancelAllErrors(d.got))
        BY <3>1, DoneIs
      <3>4. ~CancelAllErrors(d.got) /\ "cancelPlain" \in DOMAIN c.got => Ripe(c)
        BY <1>4, <1>6, <2>4, <3>2 DEF CancelAllErrors, Ripe, Cancels
      <3>5. v[1] # "next"
        BY <3>3
      <3> QED
        BY <1>6, <2>4, <3>3, <3>4, <3>5 DEF Decides
    <2> QED
      BY <1>1, <2>2, <2>3, <2>4
  <1> QED
    BY <1>5, <1>6 DEF Cancels

\* The three ways, as one.
Taken(t, c, d, w, v) ==
    \/ v[1] = "wait" /\ Waits(t, c, d, w)
    \/ v[1] = "done" /\ Ends(t, w, v[2])
    \/ v[1] = "next" /\ GoesOn(t, c, d, w)
LEMMA TakenIs ==
  ASSUME script \in Scripts, NEW t \in Tasks, NEW c, c = call[t], GoodCall(c), NEW r \in c.want \ {"join"}, NEW a, NEW w,
         Settle(t, r, a, w), NEW d, d = After(c, r, a), NEW v, v = Verdict(c.op, c.stage, d.want, d.got)
  PROVE  Taken(t, c, d, w, v)
  BY SettleIs DEF Taken

LEMMA GoneSettle ==
  ASSUME script \in Scripts, GoodCalls(call), Runner(call, running), Snap' \in Views, NEW v0, NEW E, Sane(call, log, v0, E),
         GoneInv(call, log, x), Onwards(x, x'),
         NEW t \in Tasks, NEW r \in call[t].want \ {"join"}, NEW a, NEW w, Settle(t, r, a, w), Reveals(call[t], a)
  PROVE  GoneInv(call', log', x')
  <1> SUFFICES ASSUME NEW c, c = call[t], NEW d, d = After(c, r, a), NEW v, v = Verdict(c.op, c.stage, d.want, d.got)
               PROVE  GoneInv(call', log', x')
    OBVIOUS
  <1>1. GoodCall(c)
    BY DEF GoodCalls
  <1>2. /\ c.op # "none" /\ Record(c) /\ c.op \in OpsOf(kind) /\ c.stage \in {1, 2} /\ kind \in Kinds
    BY <1>1, AwaitedIs, ScriptIs
  <1>3. Same(c, d) /\ d.want = c.want \ {r} /\ d.got = With(c.got, r, a)
    BY <1>2, AfterIs
  <1>4. (v[1] = "wait" /\ Waits(t, c, d, w)) \/ (v[1] = "done" /\ Ends(t, w, v[2])) \/ (v[1] = "next" /\ GoesOn(t, c, d, w))
    <2>1. r \in c.want \ {"join"} /\ c = call[t]
      OBVIOUS
    <2>2. Taken(t, c, d, w, v)
      BY <1>1, <2>1, TakenIs
    <2> QED
      BY <2>2 DEF Taken
  <1>10. c.op \in Cancels => Decides(c, r, a, v)
    <2>1. r \in c.want \ {"join"} /\ c = call[t]
      OBVIOUS
    <2> QED
      BY <1>1, <2>1, CancelVerdicts
  <1>5. \A n : Placed(log, t, n) => x.entry # "none"
    BY DEF GoneInv, Placed
  <1>6. Numbered(call, log, log)
    <2>1. \A b \in log \ log : b.task \in {} /\ b.n = call[b.task].n
      OBVIOUS
    <2> QED
      BY <2>1, LoggedNumbered
  <1>7. CASE v[1] = "wait" /\ Waits(t, c, d, w)
    <2>1. GoodCall(d)
      BY <1>1, <1>3, <1>7, WaitIs DEF Waits
    <2>2. ContinuedTo(call', t, d, Snap') /\ log' = log
      BY <1>7, <2>1, ContinueIs DEF Waits
    <2>3. ASSUME NEW u \in Tasks
          PROVE  \/ call'[u].op \notin Cancels
                 \/ call'[u].stage # 2
                 \/ call'[u].op = call[u].op /\ call'[u].n = call[u].n /\ call'[u].got = call[u].got /\ call[u].stage = 2
      <3>1. CASE u = t
        <4>1. call'[u].op = c.op /\ c.op \in ReadOps
          BY <1>3, <1>7, <2>2, <3>1 DEF ContinuedTo, Same, Waits
        <4> QED
          BY <4>1 DEF ReadOps, Cancels
      <3>2. CASE u # t
        BY <2>2, <3>2 DEF ContinuedTo, Same
      <3> QED
        BY <3>1, <3>2
    <2>4. GoneInv(call', log, x')
      BY <1>6, <2>3, GoneStep
    <2> QED
      BY <2>2, <2>4
  <1>8. CASE v[1] = "done" /\ Ends(t, w, v[2])
    <2> DEFINE ts == Joined(t)
    <2>1. /\ ts \in SUBSET Tasks /\ t \in ts
          /\ \A u \in ts : call[u].op = c.op /\ call[u].op # "none"
          /\ c.op # "account" => ts = {t}
      BY JoinedIs
    <2> HIDE DEF ts
    <2>2. /\ ReturnedTo(call', ts, Snap')
          /\ log \subseteq log' /\ Entries(log' \ log, ts, v[2])
      <3>1. ts # {} /\ Return(ts, v[2]) /\ \A u \in ts : call[u].op = c.op
        BY <1>8, <2>1 DEF Ends, ts
      <3> QED
        BY <2>1, <3>1, ReturnIs
    <2>3. \A b \in log' \ log : b.task \in ts /\ b.n = call[b.task].n /\ b.op = c.op /\ b.out = v[2]
      BY <2>1, <2>2 DEF Entries
    <2>4. Numbered(call, log, log')
      BY <2>1, <2>2, <2>3, LoggedNumbered
    <2>5. ASSUME NEW b \in log' \ log, Known(b) PROVE x'.entry # "none"
      <3>1. c.op = "entry" /\ v[2].word = "submitted"
        BY <2>3, <2>5 DEF Known
      <3>2. r = "new" /\ c.stage = 1
        BY <1>1, <3>1, GoneSole
      <3>3. d.want = {}
        BY <1>1, <1>3, <3>1, AwaitedIs DEF Plain, ReadOps
      <3>4. d.got["new"] = a
        BY <1>3, <3>2, WithNew
      <3>5. a.kind = "ok"
        <4>1. v = Verdict("entry", 1, {}, d.got) /\ "entry" \in OpsOf(kind)
          BY <1>2, <3>1, <3>2, <3>3
        <4> QED
          BY <1>2, <3>1, <3>4, <4>1, EntryVerdict
      <3> QED
        BY <3>1, <3>5 DEF Reveals
    <2>6. ASSUME NEW b \in log' \ log, b.op \in Cancels, b.out.word = "ok", Placed(log, b.task, b.n) PROVE Settled(x')
      <3>1. c.op \in Cancels /\ v[2].word = "ok" /\ b.task = t /\ b.n = c.n
        BY <2>1, <2>3, <2>6 DEF Cancels
      <3>2. x.entry # "none"
        BY <1>5, <2>6, <3>1
      <3>3. CASE c.stage = 1
        <4>1. a.kind \in {"ok", "gone"}
          BY <1>8, <1>10, <3>1, <3>3 DEF Decides
        <4> QED
          BY <3>1, <3>2, <3>3, <4>1 DEF Reveals
      <3>4. CASE c.stage = 2
        <4>1. c.op = "cancelAll" => "cancelPlain" \in DOMAIN c.got
          BY <3>4 DEF GoneInv
        <4>2. Ripe(c)
          <5>1. CASE c.op = "cancelAll"
            BY <1>8, <1>10, <3>1, <3>4, <4>1, <5>1 DEF Decides
          <5>2. CASE c.op = "cancelOrder"
            BY <3>1, <3>4, <5>2 DEF Ripe
          <5> QED
            BY <3>1, <5>1, <5>2 DEF Cancels
        <4>3. Settled(x)
          BY <2>6, <3>1, <4>2 DEF GoneInv
        <4> QED
          BY <4>3 DEF Onwards
      <3> QED
        BY <1>2, <3>3, <3>4
    <2>7. ASSUME NEW u \in Tasks
          PROVE  \/ call'[u].op \notin Cancels
                 \/ call'[u].stage # 2
                 \/ /\ call'[u].op = call[u].op /\ call'[u].n = call[u].n /\ call'[u].got = call[u].got /\ call[u].stage = 2
                    /\ \A b \in log' \ log : b.task # u
      <3>1. CASE u \in ts
        BY <2>2, <3>1 DEF ReturnedTo, Cancels
      <3>2. CASE u \notin ts
        BY <2>2, <2>3, <3>2, ZenonT(40) DEF ReturnedTo, Same
      <3> QED
        BY <3>1, <3>2
    <2> QED
      BY <2>4, <2>5, <2>6, <2>7, GoneStep
  <1>9. CASE v[1] = "next" /\ GoesOn(t, c, d, w)
    <2>1. c.stage = 1 /\ TwoStage(c.op) /\ Continue(t, Onward(d))
      BY <1>9 DEF GoesOn
    <2> SUFFICES ASSUME NEW b, b = Onward(d) PROVE GoneInv(call', log', x')
      OBVIOUS
    <2>2. GoodCall(b) /\ b.op = c.op /\ b.n = c.n /\ b.stage = 2 /\ b.got = With(c.got, r, a)
      BY <1>1, <2>1, OnwardIs
    <2>3. ContinuedTo(call', t, b, Snap') /\ log' = log
      BY <2>1, <2>2, ContinueIs
    <2>4. ASSUME c.op \in Cancels
          PROVE  /\ Ripe(call'[t]) /\ Placed(log, t, call'[t].n) => Settled(x')
                 /\ call'[t].op = "cancelAll" => "cancelPlain" \in DOMAIN call'[t].got
      <3>1. call'[t].op = c.op /\ call'[t].n = c.n /\ call'[t].got = With(c.got, r, a)
        BY <2>2, <2>3 DEF ContinuedTo, Same
      <3>2. CASE c.op = "cancelOrder"
        <4>1. kind = "cli" /\ a.kind \in {"rejected", "gone"}
          BY <1>9, <1>10, <2>4, <3>2 DEF Decides
        <4> QED
          BY <1>5, <2>1, <2>4, <3>1, <3>2, <4>1 DEF Reveals
      <3>3. CASE c.op = "cancelAll"
        <4>1. kind = "cli" /\ r = "cancelPlain"
          BY <1>9, <1>10, <2>4, <3>3 DEF Decides
        <4>2. With(c.got, r, a)["cancelPlain"] = a /\ "cancelPlain" \in DOMAIN With(c.got, r, a)
          BY <4>1, WithNew, WithDomain
        <4>3. Ripe(call'[t]) => a.kind \in {"ok", "rejected", "gone"}
          BY <3>1, <3>3, <4>2 DEF Ripe
        <4> QED
          BY <1>5, <2>1, <2>4, <3>1, <3>3, <4>1, <4>2, <4>3 DEF Reveals
      <3> QED
        BY <2>4, <3>2, <3>3 DEF Cancels
    <2>5. ASSUME NEW u \in Tasks
          PROVE  \/ call'[u].op \notin Cancels
                 \/ call'[u].stage # 2
                 \/ call'[u].op = call[u].op /\ call'[u].n = call[u].n /\ call'[u].got = call[u].got /\ call[u].stage = 2
                 \/ /\ Ripe(call'[u]) /\ Placed(log, u, call'[u].n) => Settled(x')
                    /\ call'[u].op = "cancelAll" => "cancelPlain" \in DOMAIN call'[u].got
      <3>1. CASE u = t
        BY <2>2, <2>3, <2>4, <3>1 DEF ContinuedTo, Same
      <3>2. CASE u # t
        BY <2>3, <3>2 DEF ContinuedTo, Same
      <3> QED
        BY <3>1, <3>2
    <2>6. GoneInv(call', log, x')
      BY <1>6, <2>5, GoneStep
    <2> QED
      BY <2>3, <2>6
  <1> QED
    BY <1>4, <1>7, <1>8, <1>9

\* No refusal of a cancellation but for an order that is gone (cli).
Plainly == {<<"cli", "cancel">>, <<"cli", "cancelPlain">>} \cap Refusals = {}
GoneNow == GoneInv(call, log, x)

LEMMA GoneContinue ==
  ASSUME BackInv, GoneNow, x' \in Exchange, Onwards(x, x'), NEW t \in Tasks, Continue(t, call[t])
  PROVE  GoneInv(call', log', x')
  <1>1. GoodCalls(call) /\ GoodCall(call[t])
    BY DEF BackInv, TypeInv, GoodCalls
  <1>2. Snap' \in Views
    BY SnapNext
  <1>3. ContinuedTo(call', t, call[t], Snap') /\ log' = log
    BY <1>1, <1>2, ContinueIs
  <1>4. Alikeness(call, call')
    BY <1>3 DEF ContinuedTo, Alikeness, Same
  <1>5. GoneInv(call', log, x')
    BY <1>4, GoneSame DEF GoneNow
  <1> QED
    BY <1>3, <1>5

LEMMA ExecuteGone ==
  ASSUME BackInv, GoneNow, NEW i \in DOMAIN wire, Execute(i)
  PROVE  GoneInv(call', log', x')
  <1> SUFFICES ASSUME NEW l, l = wire[i], NEW t, t = l.task, NEW w, w = RemoveAt(wire, i)
               PROVE  GoneInv(call', log', x')
    OBVIOUS
  <1>1. /\ script \in Scripts /\ x \in Exchange /\ wire \in Wires /\ GoodCalls(call) /\ Runner(call, running)
        /\ effects \in SUBSET EffectSet /\ Sane(call, log, wire, effects)
    BY DEF BackInv, TypeInv
  <1>2. l \in LineSet /\ t \in Tasks
    BY <1>1, LineIs
  <1>3. /\ Effect(l)
        /\ IF BothLegs(l)
           THEN Continue(t, call[t])
           ELSE IF Awaits([l EXCEPT !.req = Asked(l)]) THEN Settle(t, Asked(l), Reported(l), w)
           ELSE Continue(t, call[t])
    BY DEF Execute, BothLegs, Asked, Reported
  <1>4. x' \in Exchange /\ Onwards(x, x') /\ Snap' \in Views
    <2>1. x' \in Exchange
      BY <1>1, <1>2, <1>3, EffectIs
    <2> QED
      BY <1>1, <1>3, <2>1, ApplyOnwards, SnapNext
  <1>5. CASE BothLegs(l) \/ ~Awaits([l EXCEPT !.req = Asked(l)])
    <2>1. Continue(t, call[t])
      BY <1>3, <1>5
    <2> QED
      BY <1>2, <1>4, <2>1, GoneContinue
  <1>6. CASE ~BothLegs(l) /\ Awaits([l EXCEPT !.req = Asked(l)])
    <2>1. Settle(t, Asked(l), Reported(l), w)
      BY <1>3, <1>6
    <2>2. Asked(l) \in call[t].want /\ Asked(l) \in call[t].want \ {"join"} /\ GoodCall(call[t])
      BY <1>1, <1>2, <1>6 DEF Awaits, LineSet, Reqs, Asked, GoodCalls
    <2>3. Reveals(call[t], Reported(l))
      BY <1>1, <1>2, <1>3, <2>2, ExecuteReveals
    <2>4. GoneInv(call, log, x)
      BY DEF GoneNow
    <2> QED
      BY <1>1, <1>2, <1>4, <2>1, <2>2, <2>3, <2>4, GoneSettle
  <1> QED
    BY <1>5, <1>6

LEMMA FailsGone ==
  ASSUME BackInv, GoneNow, Plainly, NEW i \in DOMAIN wire, NEW k \in {"local", "rejected", "torn", "garbled"}, Fails(i, k)
  PROVE  GoneInv(call', log', x')
  <1> SUFFICES ASSUME NEW l, l = wire[i], NEW t, t = l.task, NEW w, w = RemoveAt(wire, i), NEW a, a = Answer(k, k = "rejected"),
                      NEW r, r = Asked(l)
               PROVE  GoneInv(call', log', x')
    OBVIOUS
  <1>1. /\ script \in Scripts /\ x \in Exchange /\ wire \in Wires /\ GoodCalls(call) /\ Runner(call, running)
        /\ effects \in SUBSET EffectSet /\ Sane(call, log, wire, effects)
    BY DEF BackInv, TypeInv
  <1>2. l \in LineSet /\ t \in Tasks
    BY <1>1, LineIs
  <1>3. /\ Awaits([l EXCEPT !.req = r])
        /\ k = "rejected" => <<kind, r>> \in Refusals
        /\ Effect(l) \/ (x' = x /\ effects' = effects)
        /\ Settle(t, r, a, w)
    BY DEF Fails, Asked, exchangeVars
  <1>4. x' \in Exchange /\ Onwards(x, x') /\ Snap' \in Views
    <2>1. CASE Effect(l)
      <3>1. x' \in Exchange
        BY <1>1, <1>2, <2>1, EffectIs
      <3> QED
        BY <1>1, <2>1, <3>1, ApplyOnwards, SnapNext
    <2>2. CASE x' = x
      BY <1>1, <2>2, SnapNext DEF Onwards
    <2> QED
      BY <1>3, <2>1, <2>2
  <1>5. r \in call[t].want \ {"join"} /\ GoodCall(call[t])
    BY <1>1, <1>2, <1>3 DEF Awaits, LineSet, Reqs, Asked, GoodCalls
  <1>6. Reveals(call[t], a)
    <2>1. a.kind = k
      BY DEF Answer
    <2>2. a.kind \notin {"ok", "gone"} /\ (a.kind = "rejected" => <<kind, r>> \in Refusals)
      BY <1>3, <2>1
    <2> QED
      BY <1>1, <1>5, <2>2, FailsReveals DEF Plainly
  <1>7. GoneInv(call, log, x)
    BY DEF GoneNow
  <1> QED
    BY <1>1, <1>2, <1>3, <1>4, <1>5, <1>6, <1>7, GoneSettle

LEMMA BoastsGone ==
  ASSUME BackInv, GoneNow, Plainly, NEW i \in DOMAIN wire, Boasts(i)
  PROVE  GoneInv(call', log', x')
  <1> DEFINE told == IF wire[i].req = "protect" THEN [entry |-> "filled", stop |-> "submitted"] ELSE "submitted"
  <1> SUFFICES ASSUME NEW l, l = wire[i], NEW t, t = l.task, NEW w, w = RemoveAt(wire, i), NEW a, a = Answer("ok", told),
                      NEW r, r = Asked(l)
               PROVE  GoneInv(call', log', x')
    OBVIOUS
  <1>1. /\ script \in Scripts /\ x \in Exchange /\ wire \in Wires /\ GoodCalls(call) /\ Runner(call, running)
        /\ effects \in SUBSET EffectSet /\ Sane(call, log, wire, effects)
    BY DEF BackInv, TypeInv
  <1>2. l \in LineSet /\ t \in Tasks
    BY <1>1, LineIs
  <1>3. x' = x /\ l.req \in {"algo", "protect"} /\ Awaits([l EXCEPT !.req = r]) /\ Settle(t, r, a, w)
    BY DEF Boasts, Asked
  <1>4. x' \in Exchange /\ Onwards(x, x') /\ Snap' \in Views
    BY <1>1, <1>3, SnapNext DEF Onwards
  <1>5. r \in call[t].want \ {"join"} /\ GoodCall(call[t]) /\ r \in {"algo", "openprot"}
    BY <1>1, <1>2, <1>3 DEF Awaits, LineSet, Reqs, Asked, GoodCalls
  <1>6. Reveals(call[t], a)
    <2>1. a.kind = "ok"
      BY DEF Answer
    <2>2. a.kind = "rejected" => <<kind, r>> \in Refusals
      BY <2>1
    <2> QED
      BY <1>1, <1>5, <2>2, FailsReveals DEF Plainly
  <1>7. GoneInv(call, log, x)
    BY DEF GoneNow
  <1> QED
    BY <1>1, <1>2, <1>3, <1>4, <1>5, <1>6, <1>7, GoneSettle

LEMMA TimerGone ==
  ASSUME BackInv, GoneNow, Plainly, NEW t \in Tasks, Timer(t)
  PROVE  GoneInv(call', log', x')
  <1> SUFFICES ASSUME NEW a, a = Answer("lost", FALSE) PROVE GoneInv(call', log', x')
    OBVIOUS
  <1>1. /\ script \in Scripts /\ x \in Exchange /\ wire \in Wires /\ GoodCalls(call) /\ Runner(call, running)
        /\ Sane(call, log, wire, effects)
    BY DEF BackInv, TypeInv
  <1>2. x' = x
    BY DEF Timer
  <1>3. Onwards(x, x') /\ Snap' \in Views
    BY <1>1, <1>2, SnapNext DEF Onwards
  <1>4. PICK r \in call[t].want \ {"join"} : \E w : Settle(t, r, a, w)
    BY DEF Timer
  <1>5. PICK w : Settle(t, r, a, w)
    BY <1>4
  <1>6. Reveals(call[t], a)
    <2>1. a.kind = "lost"
      BY DEF Answer
    <2>2. a.kind \notin {"ok", "gone"} /\ (a.kind = "rejected" => <<kind, r>> \in Refusals)
      BY <2>1
    <2>3. GoodCall(call[t])
      BY <1>1 DEF GoodCalls
    <2> QED
      BY <1>1, <2>2, <2>3, FailsReveals DEF Plainly
  <1>7. GoneInv(call, log, x)
    BY DEF GoneNow
  <1> QED
    BY <1>1, <1>3, <1>5, <1>6, <1>7, GoneSettle

\* Steps that change no call.
LEMMA QuietGone ==
  ASSUME GoneNow, call' = call, log' = log, x' = x
  PROVE  GoneInv(call', log', x')
  BY DEF GoneNow

LEMMA TradesGone ==
  ASSUME BackInv, GoneNow, Trades
  PROVE  GoneInv(call', log', x')
  <1>1. x \in Exchange /\ GoodCalls(call)
    BY DEF BackInv, TypeInv
  <1>2. log' = log /\ call' = [u \in Tasks |-> IF Busy(u) THEN Since(call[u], Snap') ELSE call[u]]
    BY DEF Trades, Since
  <1>3. Onwards(x, x')
    <2>1. [x EXCEPT !.entry = "FILLED", !.pos = 2].entry = "FILLED" /\ [x EXCEPT !.stop = FALSE, !.old = FALSE, !.pos = 0].entry = x.entry
      BY <1>1 DEF Exchange
    <2>2. x'.entry \in {"FILLED", x.entry}
      BY <2>1 DEF Trades
    <2> QED
      BY <2>2 DEF Onwards, Settled
  <1>4. x' \in Exchange
    BY <1>1, TradesIs DEF Trades
  <1>5. Snap' \in Views
    BY <1>4, SnapNext
  <1>6. Alikeness(call, call')
    <2>1. ASSUME NEW u \in Tasks PROVE Same(call[u], call'[u]) /\ call'[u].got = call[u].got
      <3>1. GoodCall(call[u])
        BY <1>1 DEF GoodCalls
      <3>2. CASE Busy(u)
        <4>1. call'[u] = Since(call[u], Snap')
          BY <1>2, <3>2
        <4> QED
          BY <1>5, <3>1, <4>1, SinceIs
      <3>3. CASE ~Busy(u)
        BY <1>2, <3>3 DEF Same
      <3> QED
        BY <3>2, <3>3
    <2> QED
      BY <2>1 DEF Alikeness
  <1>7. GoneInv(call', log, x')
    BY <1>3, <1>6, GoneSame DEF GoneNow
  <1> QED
    BY <1>2, <1>7

\* A demo call without a child.
LEMMA LostVerdict ==
  ASSUME kind = "demo", NEW op \in {"entry", "cancelOrder", "cancelAll"}, NEW got, NEW v, v = Verdict(op, 1, {}, got),
         NEW a, a = got[Sole(op, 1)], a.kind \in {"lost", "local"}
  PROVE  IF op = "entry" THEN v[2].word # "submitted" ELSE v[2].word # "ok"
  <1>1. kind \in Kinds /\ op \in OpsOf(kind)
    BY DEF Kinds, OpsOf, CommonOps
  <1>2. CASE op = "entry"
    <2>1. a = got["new"]
      BY <1>2 DEF Sole, Single
    <2>2. a.kind # "ok"
      OBVIOUS
    <2>3. "entry" \in OpsOf(kind) /\ v = Verdict("entry", 1, {}, got)
      BY <1>1, <1>2
    <2> QED
      BY <1>1, <1>2, <2>1, <2>2, <2>3, EntryVerdict
  <1>3. CASE op = "cancelOrder"
    <2>1. v = CancelVerdict(op, 1, a)
      BY <1>1, <1>3, VerdictIs DEF TwoStage
    <2>2. v = Done("error")
      BY <2>1 DEF CancelVerdict, CancelOk
    <2> QED
      BY <1>3, <2>2, DoneIs
  <1>4. CASE op = "cancelAll"
    <2>1. v = CancelAllVerdict(1, a, got)
      BY <1>1, <1>4, VerdictIs DEF TwoStage
    <2>2. v = Done("error")
      BY <2>1 DEF CancelAllVerdict
    <2> QED
      BY <1>4, <2>2, DoneIs
  <1> QED
    BY <1>2, <1>3, <1>4

LEMMA OrphanVerdict ==
  ASSUME script \in Scripts, kind = "demo", NEW c, GoodCall(c), c.op \in {"entry", "cancelOrder", "cancelAll"},
         NEW got, got = Orphan(c), NEW v, v = Verdict(c.op, c.stage, {}, got)
  PROVE  IF c.op = "entry" THEN v[2].word # "submitted" ELSE v[2].word # "ok"
  <1>1. /\ Record(c) /\ BusyCall(c) /\ kind \in Kinds /\ c.op \in OpsOf(kind) /\ c.stage = 1 /\ c.want # {}
        /\ DOMAIN c.got \cap c.want = {} /\ c.want \in SUBSET Program(c.op)[1] /\ c.op \notin ReadOps
    BY DEF GoodCall, BusyCall, TwoStage, Kinds, ReadOps
  <1>2. Program(c.op)[1] = {Sole(c.op, 1)}
    BY <1>1, SoleIs
  <1>3. got[Sole(c.op, 1)] = Answer("lost", FALSE)
    <2>1. Sole(c.op, 1) \in Program(c.op)[c.stage] /\ Sole(c.op, 1) \notin DOMAIN c.got
      BY <1>1, <1>2
    <2> QED
      BY <2>1 DEF Orphan
  <1>4. got[Sole(c.op, 1)].kind = "lost"
    BY <1>3 DEF Answer
  <1>5. v = Verdict(c.op, 1, {}, got)
    BY <1>1
  <1> QED
    BY <1>4, <1>5, LostVerdict

LEMMA ChildExitsGone ==
  ASSUME BackInv, GoneNow, ChildExits
  PROVE  GoneInv(call', log', x')
  <1> DEFINE ts == {u \in Tasks : Busy(u)}
             entry(u) == [task |-> u, n |-> call[u].n, op |-> call[u].op,
                          out |-> Verdict(call[u].op, call[u].stage, {}, Orphan(call[u]))[2], fresh |-> TRUE, late |-> FALSE]
  <1>1. script \in Scripts /\ GoodCalls(call) /\ Sane(call, log, wire, effects)
    BY DEF BackInv, TypeInv
  <1>2. /\ kind = "demo" /\ x' = x
        /\ log' = log \cup {entry(u) : u \in ts}
        /\ call' = [u \in Tasks |-> IF Busy(u) THEN [Idle EXCEPT !.n = call[u].n] ELSE call[u]]
    BY DEF ChildExits, Orphan
  <1>3. ASSUME NEW b \in log' \ log
        PROVE  /\ b.task \in ts /\ b.n = call[b.task].n
               /\ ~Known(b) /\ ~(b.op \in Cancels /\ b.out.word = "ok")
    <2>1. PICK u \in ts : b = entry(u)
      BY <1>2
    <2> SUFFICES ASSUME NEW c, c = call[u], NEW got, got = Orphan(c), NEW v, v = Verdict(c.op, c.stage, {}, got)
                 PROVE  b.task \in ts /\ b.n = call[b.task].n /\ ~Known(b) /\ ~(b.op \in Cancels /\ b.out.word = "ok")
      OBVIOUS
    <2>2. b.task = u /\ b.n = c.n /\ b.op = c.op /\ b.out = v[2]
      BY <2>1
    <2>3. GoodCall(c)
      BY <1>1 DEF GoodCalls
    <2>4. c.op \in {"entry", "cancelOrder", "cancelAll"} => IF c.op = "entry" THEN v[2].word # "submitted" ELSE v[2].word # "ok"
      BY <1>1, <1>2, <2>3, OrphanVerdict
    <2>5. ~Known(b)
      BY <2>2, <2>4 DEF Known
    <2>6. ~(b.op \in Cancels /\ b.out.word = "ok")
      BY <2>2, <2>4 DEF Cancels
    <2> QED
      BY <2>2, <2>5, <2>6
  <1>4. \A u \in Tasks : call'[u].op \notin Cancels \/ call'[u].stage # 2
    <2>1. ASSUME NEW u \in Tasks PROVE call'[u].op \notin Cancels \/ call'[u].stage # 2
      <3>1. GoodCall(call[u])
        BY <1>1 DEF GoodCalls
      <3>2. CASE Busy(u)
        <4>1. call'[u] = [Idle EXCEPT !.n = call[u].n]
          BY <1>2, <3>2
        <4>2. call'[u].op = "none"
          BY <3>1, <4>1, FreeIs, ZenonT(40)
        <4> QED
          BY <4>2 DEF Cancels
      <3>3. CASE ~Busy(u)
        <4>1. call'[u] = call[u] /\ call[u].op = "none"
          BY <1>2, <3>3 DEF Busy
        <4> QED
          BY <4>1 DEF Cancels
      <3> QED
        BY <3>2, <3>3
    <2> QED
      BY <2>1
  <1>5. ts \in SUBSET Tasks /\ (\A u \in ts : call[u].op # "none") /\ log \subseteq log'
    BY <1>2 DEF Busy
  <1> HIDE DEF ts, entry
  <1>6. Numbered(call, log, log')
    <2>1. \A b \in log' \ log : b.task \in ts /\ b.n = call[b.task].n
      BY <1>3
    <2> QED
      BY <1>1, <1>5, <2>1, LoggedNumbered
  <1>7. Onwards(x, x')
    BY <1>2 DEF Onwards
  <1>8. \A b \in log' \ log : /\ Known(b) => x'.entry # "none"
                              /\ b.op \in Cancels /\ b.out.word = "ok" /\ Placed(log, b.task, b.n) => Settled(x')
    BY <1>3
  <1> QED
    BY <1>4, <1>6, <1>7, <1>8, GoneStep DEF GoneNow

\* A call that begins.
LEMMA BegunGone ==
  ASSUME BackInv, GoneNow, x' = x, NEW t \in Tasks, NEW n, n = call[t].n + 1, NEW d, d.op \notin Cancels \/ d.stage # 2,
         call' = Put(call, t, d),
         log \subseteq log', \A b \in log' \ log : b.task = t /\ b.n = n /\ ~Known(b) /\ ~(b.op \in Cancels /\ b.out.word = "ok")
  PROVE  GoneInv(call', log', x')
  <1>1. GoodCalls(call) /\ Sane(call, log, wire, effects)
    BY DEF BackInv, TypeInv
  <1>2. call'[t] = d /\ \A u \in Tasks \ {t} : call'[u] = call[u]
    BY <1>1 DEF GoodCalls, Put
  <1>3. \A u \in Tasks : call[u].n \in Nat
    BY <1>1 DEF GoodCalls, GoodCall, Record
  <1>4. Numbered(call, log, log')
    <2>1. \A a \in log : a.task \in Tasks /\ a.n \in Nat /\ a.n <= call[a.task].n
      <3>1. \A a \in log : a.task \in Tasks /\ a.n \in 1..call[a.task].n
        BY <1>1 DEF Sane
      <3> QED
        BY <1>3, <3>1
    <2>2. \A b \in log' \ log : b.task \in Tasks /\ b.n \in Nat /\ \A a \in log : a.task = b.task => a.n < b.n
      BY <1>3, <2>1
    <2> QED
      BY <1>3, <2>1, <2>2 DEF Numbered
  <1>5. Onwards(x, x')
    BY DEF Onwards
  <1>6. ASSUME NEW u \in Tasks
        PROVE  \/ call'[u].op \notin Cancels
               \/ call'[u].stage # 2
               \/ /\ call'[u].op = call[u].op /\ call'[u].n = call[u].n /\ call'[u].got = call[u].got /\ call[u].stage = 2
                  /\ \A b \in log' \ log : b.task # u
    <2>1. CASE u = t
      BY <1>2, <2>1
    <2>2. CASE u # t
      BY <1>2, <2>2
    <2> QED
      BY <2>1, <2>2
  <1> QED
    BY <1>4, <1>5, <1>6, GoneStep DEF GoneNow

LEMMA HitGone ==
  ASSUME script \in Scripts, NEW op \in OpsOf(kind), kind = "demo" \/ (kind = "agent" /\ op \in {"account", "reduce", "getOrder"}),
         NEW t, NEW n, NEW b, Entered(b, op, t, n, HitValue(op))
  PROVE  b.task = t /\ b.n = n /\ ~Known(b) /\ ~(b.op \in Cancels /\ b.out.word = "ok")
  <1>1. b.task = t /\ b.n = n /\ b.op = op /\ b.out = HitValue(op) /\ kind \in Kinds
    BY ScriptIs DEF Entered
  <1>2. CASE op \notin {"entry", "cancelOrder", "cancelAll"}
    BY <1>1, <1>2 DEF Known, Cancels
  <1>3. CASE op \in {"entry", "cancelOrder", "cancelAll"}
    <2>1. kind = "demo" /\ op \notin ReadOps
      BY <1>3 DEF ReadOps
    <2> SUFFICES ASSUME NEW got, got = [r \in Program(op)[1] |-> Answer("local", FALSE)], NEW v, v = Verdict(op, 1, {}, got)
                 PROVE  b.task = t /\ b.n = n /\ ~Known(b) /\ ~(b.op \in Cancels /\ b.out.word = "ok")
      OBVIOUS
    <2>2. b.out = v[2]
      BY <1>1, <2>1 DEF HitValue
    <2>3. Program(op)[1] = {Sole(op, 1)}
      BY <1>1, <2>1, SoleIs
    <2>4. got[Sole(op, 1)].kind = "local"
      BY <2>3 DEF Answer
    <2>5. IF op = "entry" THEN v[2].word # "submitted" ELSE v[2].word # "ok"
      BY <1>3, <2>1, <2>4, LostVerdict, Zenon
    <2> QED
      BY <1>1, <2>2, <2>5 DEF Known, Cancels
  <1> QED
    BY <1>2, <1>3

LEMMA FirstStage ==
  ASSUME NEW d, NEW op, NEW n, NEW want, NEW since, Fields(d, op, n, 1, want, since)
  PROVE  d.op \notin Cancels \/ d.stage # 2
  BY DEF Fields

LEMMA BeginGone ==
  ASSUME BackInv, GoneNow, NEW t \in Tasks, Calls(t)
  PROVE  GoneInv(call', log', x')
  <1> SUFFICES ASSUME NEW n, n = call[t].n + 1, NEW op, op = script.ops[t][n],
                      NEW since, since = seen \cup {Snap}, NEW c, c = Opening(op, n, since)
               PROVE  GoneInv(call', log', x')
    OBVIOUS
  <1>1. script \in Scripts /\ GoodCalls(call)
    BY DEF BackInv, TypeInv
  <1>2. GoodCall(call[t])
    BY <1>1 DEF GoodCalls
  <1>3. call[t].n < Len(script.ops[t]) /\ Begin(t, op) /\ call[t].n \in Nat
    BY <1>2 DEF Calls, GoodCall, Record
  <1>4. op \in OpsOf(kind)
    <2>1. script.ops[t] \in Seq(OpsOf(kind))
      BY <1>1, ScriptIs
    <2> QED
      BY <1>3, <2>1
  <1>5. Kept /\ call[t].op = "none" /\ Starting(t, op, n, c)
    BY <1>3, BeginIs
  <1>6. x' = x
    BY <1>5 DEF Kept
  <1>7. Fields(c, op, n, 1, {}, since)
    BY OpeningFields, SMTT(30)
  <1>8. CASE call' = Put(call, t, WithWant(c, Program(op)[1])) /\ log' = log
    <2> SUFFICES ASSUME NEW rs, rs = Program(op)[1], NEW d, d = WithWant(c, rs) PROVE GoneInv(call', log', x')
      BY SMTT(30)
    <2>1. Fields(d, op, n, 1, rs, since)
      BY <1>7, PutWant, SMTT(30)
    <2>3. call' = Put(call, t, d) /\ log' = log
      BY <1>8, SMTT(30)
    <2>4. d.op \notin Cancels \/ d.stage # 2
      BY <2>1, FirstStage, ZenonT(40)
    <2> QED
      BY <1>6, <2>3, <2>4, BegunGone, Zenon
  <1>9. CASE call' = Put(call, t, WithWant(c, {"join"})) /\ log' = log
    <2> SUFFICES ASSUME NEW d, d = WithWant(c, {"join"}) PROVE GoneInv(call', log', x')
      OBVIOUS
    <2>1. Fields(d, op, n, 1, {"join"}, since)
      BY <1>7, PutWant
    <2>3. call' = Put(call, t, d) /\ log' = log
      BY <1>9
    <2>4. d.op \notin Cancels \/ d.stage # 2
      BY <2>1, FirstStage
    <2> QED
      BY <1>6, <2>3, <2>4, BegunGone
  <1>10. CASE op = "reduce" /\ call' = Put(call, t, WithWant(WithStage(c, 2), {"reduce"})) /\ log' = log
    <2> SUFFICES ASSUME NEW rs, rs = {"reduce"}, NEW b, b = WithStage(c, 2), NEW d, d = WithWant(b, rs) PROVE GoneInv(call', log', x')
      OBVIOUS
    <2>1. Fields(d, op, n, 2, rs, since)
      <3>1. Fields(b, op, n, 2, {}, since)
        BY <1>7, PutStage
      <3> QED
        BY <3>1, PutWant
    <2>2. d.op \notin Cancels /\ call' = Put(call, t, d)
      BY <1>10, <2>1 DEF Fields, Cancels
    <2> QED
      BY <1>6, <1>10, <2>2, BegunGone
  <1>11. CASE /\ kind = "demo" \/ (kind = "agent" /\ op \in {"account", "reduce", "getOrder"})
              /\ call' = Put(call, t, WithN(call[t], n))
              /\ \E entry : Entered(entry, op, t, n, HitValue(op)) /\ log' = log \cup {entry}
    <2> SUFFICES ASSUME NEW d, d = WithN(call[t], n), NEW entry, Entered(entry, op, t, n, HitValue(op)), log' = log \cup {entry}
                 PROVE  GoneInv(call', log', x')
      BY <1>11
    <2>1. d.op = "none"
      <3>1. GoodCall(call[t]) /\ call[t].op = "none" /\ n \in Nat
        BY <1>2, <1>3, <1>5
      <3>2. WithN(call[t], n).op = "none"
        BY <3>1, FreeAt
      <3> QED
        BY <3>2
    <2>2. d.op \notin Cancels /\ call' = Put(call, t, d)
      BY <1>11, <2>1 DEF Cancels
    <2>3. \A b \in log' \ log : b.task = t /\ b.n = n /\ ~Known(b) /\ ~(b.op \in Cancels /\ b.out.word = "ok")
      BY <1>1, <1>4, <1>11, HitGone
    <2>4. log \subseteq log' /\ (d.op \notin Cancels \/ d.stage # 2)
      BY <2>2
    <2> HIDE <1>11
    <2> QED
      BY <1>6, <2>2, <2>3, <2>4, BegunGone, ZenonT(40)
  <1> QED
    BY <1>5, <1>8, <1>9, <1>10, <1>11, Zenon DEF Starting

LEMMA GoneInit == ASSUME BackendInit PROVE GoneNow
  <1>1. log = {} /\ \A t \in Tasks : call[t] = Idle
    BY DEF BackendInit
  <1>2. Idle.op = "none"
    BY DEF Idle
  <1> QED
    BY <1>1, <1>2 DEF GoneNow, GoneInv, Ripe, Cancels

LEMMA GoneNext ==
  ASSUME BackInv, GoneNow, Plainly, [BackendNext]_backendVars
  PROVE  GoneNow'
  <1> SUFFICES GoneInv(call', log', x')
    BY DEF GoneNow
  <1>1. CASE \E t \in Tasks : Calls(t)
    BY <1>1, BeginGone
  <1>2. CASE \E t \in Tasks : Timer(t)
    BY <1>2, TimerGone
  <1>3. CASE \E i \in DOMAIN wire : Execute(i)
    BY <1>3, ExecuteGone
  <1>4. CASE \E i \in DOMAIN wire : \E k \in {"local", "rejected", "torn", "garbled"} : Fails(i, k)
    BY <1>4, FailsGone
  <1>5. CASE \E i \in DOMAIN wire : Boasts(i)
    BY <1>5, BoastsGone
  <1>6. CASE \E i \in DOMAIN wire : Looks(i)
    BY <1>6, QuietGone DEF Looks
  <1>7. CASE ChildExits
    BY <1>7, ChildExitsGone
  <1>8. CASE CacheExpires
    BY <1>8, QuietGone DEF CacheExpires
  <1>9. CASE Trades
    BY <1>9, TradesGone
  <1>10. CASE UNCHANGED backendVars
    BY <1>10, QuietGone DEF backendVars
  <1> QED
    BY <1>1, <1>2, <1>3, <1>4, <1>5, <1>6, <1>7, <1>8, <1>9, <1>10 DEF BackendNext

LEMMA InvGone == ASSUME BackInv, GoneNow PROVE CanceledIsGone
  <1> SUFFICES ASSUME NEW e \in log, NEW c \in log, e.op = "entry", e.out.word = "submitted",
                      c.op \in {"cancelOrder", "cancelAll"}, c.out.word = "ok", c.task = e.task, c.n > e.n
               PROVE  x.entry # "NEW"
    BY DEF CanceledIsGone
  <1>1. Placed(log, c.task, c.n)
    <2>1. \A a \in log : a.n \in Nat
      <3>1. \A a \in log : a.task \in Tasks /\ a.n \in 1..call[a.task].n
        BY DEF BackInv, Sane
      <3>2. \A u \in Tasks : call[u].n \in Nat
        BY DEF BackInv, TypeInv, GoodCalls, GoodCall, Record
      <3> QED
        BY <3>1, <3>2
    <2> QED
      BY <2>1 DEF Placed, Known
  <1>2. Settled(x)
    BY <1>1 DEF GoneNow, GoneInv, Cancels
  <1> QED
    BY <1>2 DEF Settled

\* A receipt of execution.ts, execution-cli.ts and execution-agent.ts is a fact of
\* the exchange, whatever was lost, torn, garbled or late: filled and submitted took
\* effect, failed did not and is not under way, and an entry that cancelOrder or
\* cancelAll reports as gone does not rest.  The cli backend must be able to tell a
\* refused cancellation from one that found nothing.
THEOREM AnswersStayHonest == ASSUME Plainly PROVE BackendSpec => []AnswersHonest
  <1>1. BackendInit => BackInv /\ GoneNow
    BY BackInit, GoneInit
  <1>2. (BackInv /\ GoneNow) /\ [BackendNext]_backendVars => (BackInv /\ GoneNow)'
    BY BackNext, GoneNext
  <1>3. BackInv /\ GoneNow => AnswersHonest
    BY InvType, InvReceipts, InvGone DEF AnswersHonest
  <1> QED
    BY <1>1, <1>2, <1>3, PTL DEF BackendSpec

(***************************************************************************)
(* Account reads                                                           *)
(***************************************************************************)
Reading(c) == c.op \in {"account", "netCheck"}

\* The answer to q is what the exchange held at one of the snapshots S.
Backed(q, a, S) ==
    a.kind = "ok" => /\ q = "pos" => \E s \in S : s.pos = a.val
                     /\ q \in {"orders", "algos"} /\ a.val => \E s \in S : s.stop
                     /\ q = "acct" => a.val \in S
GotFresh(c) ==
    Reading(c) /\ c.want # {"join"} =>
        /\ DOMAIN c.got \cup c.want = Reads
        /\ \A q \in DOMAIN c.got : Backed(q, c.got[q], c.since)

LEMMA FreshMore == ASSUME NEW v, NEW S, NEW R, S \subseteq R, Fresh_(v, S) PROVE Fresh_(v, R)
  BY DEF Fresh_

LEMMA BackedMore == ASSUME NEW q, NEW a, NEW S, NEW R, S \subseteq R, Backed(q, a, S) PROVE Backed(q, a, R)
  BY DEF Backed

LEMMA ReadTells ==
  ASSUME kind \in Kinds, NEW op \in {"account", "netCheck"}, op \in OpsOf(kind), NEW want, NEW got, NEW S,
         DOMAIN got \cup want = Reads, \A q \in DOMAIN got : Backed(q, got[q], S),
         NEW v, v = Verdict(op, 1, want, got), v[1] = "done"
  PROVE  Fresh_(v[2], S)
  <1>1. v = ReadVerdict(op, want, got)
    BY VerdictIs DEF Plain, ReadOps
  <1>2. \/ v[2].word = "throw"
        \/ want = {} /\ ~ReadFailed(got) /\ v[2].pos = ViewOf(got).pos /\ v[2].stop = ViewOf(got).stop
    BY <1>1, ReadVerdictIs
  <1>3. CASE v[2].word = "throw"
    BY <1>3 DEF Fresh_
  <1>4. CASE want = {} /\ ~ReadFailed(got) /\ v[2].pos = ViewOf(got).pos /\ v[2].stop = ViewOf(got).stop
    <2>1. DOMAIN got = Reads /\ \A q \in Reads \ {"algos"} : got[q].kind = "ok"
      BY <1>4 DEF ReadFailed
    <2>2. CASE kind = "demo"
      <3>1. Reads = {"pos", "orders"} /\ ViewOf(got) = DemoView(got)
        BY <2>2 DEF Reads, ViewOf
      <3>2. Backed("pos", got["pos"], S) /\ Backed("orders", got["orders"], S) /\ got["pos"].kind = "ok" /\ got["orders"].kind = "ok"
        BY <2>1, <3>1
      <3>3. v[2].pos = got["pos"].val /\ v[2].stop = got["orders"].val
        BY <1>4, <3>1 DEF DemoView
      <3> QED
        BY <3>2, <3>3 DEF Backed, Fresh_
    <2>3. CASE kind = "cli"
      <3>1. Reads = {"pos", "orders", "algos"} /\ ViewOf(got) = CliView(got)
        BY <2>3 DEF Reads, ViewOf
      <3>2. Backed("pos", got["pos"], S) /\ Backed("algos", got["algos"], S) /\ got["pos"].kind = "ok"
        BY <2>1, <3>1
      <3>3. v[2].pos = got["pos"].val /\ v[2].stop = (got["algos"].kind = "ok" /\ got["algos"].val)
        BY <1>4, <3>1 DEF CliView
      <3> QED
        BY <3>2, <3>3 DEF Backed, Fresh_
    <2>4. CASE kind = "agent"
      <3>1. Reads = {"acct"} /\ ViewOf(got) = got["acct"].val
        BY <2>4 DEF Reads, ViewOf
      <3>2. Backed("acct", got["acct"], S) /\ got["acct"].kind = "ok"
        BY <2>1, <3>1
      <3>3. v[2].pos = got["acct"].val.pos /\ v[2].stop = got["acct"].val.stop
        BY <1>4, <3>1
      <3> QED
        BY <3>2, <3>3 DEF Backed, Fresh_
    <2> QED
      BY <2>2, <2>3, <2>4 DEF Kinds
  <1> QED
    BY <1>2, <1>3, <1>4

(***************************************************************************)
(* What makes reads fresh                                                  *)
(***************************************************************************)
\* Every busy call may have seen all that the cache may show.
Held(C, sn, y) == y \in sn /\ \A t \in Tasks : C[t].op # "none" => sn \subseteq C[t].since
\* The cache shows nothing from before the last write that returned, unless a
\* write returned while the read that filled it ran.
CacheFresh(k, f, sn) == k = <<>> \/ (kind = "agent" /\ (f \/ Fresh_(k[1], sn)))
\* What a run has looked at, it has seen.
LineFresh(l, C) == Reading(C[l.task]) /\ C[l.task].n = l.n => l.view[1] \in C[l.task].since
LinesFresh(w, C) == \A i \in DOMAIN w : w[i].view # <<>> => kind = "agent" /\ LineFresh(w[i], C)
FreshInv(C, w, k, f, sn, y) ==
    /\ Held(C, sn, y) /\ CacheFresh(k, f, sn) /\ LinesFresh(w, C)
    /\ \A t \in Tasks : GotFresh(C[t])

\* The calls ts end, the others see y.
Advance(C, D, ts, y) ==
    /\ \A u \in ts : D[u].op = "none" /\ D[u].want = {}
    /\ \A u \in Tasks \ ts : /\ D[u].op = C[u].op /\ D[u].n = C[u].n
                             /\ D[u].since = IF C[u].op # "none" THEN C[u].since \cup {y} ELSE C[u].since
                             /\ D[u].want = {"join"} => C[u].want = {"join"}
                             /\ GotFresh(D[u])
\* What is seen: y more, or y alone as a write has returned.
Sees(sn, tn, y) == tn = sn \cup {y} \/ tn = {y}
\* The lines with a view are lines of before.
OldViews(w, v) ==
    \A j \in DOMAIN v : v[j].view # <<>> =>
        \E k \in DOMAIN w : v[j].task = w[k].task /\ v[j].n = w[k].n /\ v[j].view = w[k].view
\* The cache: dropped, kept while more is seen, or filled.
CacheStep(k, f, j, g, sn, tn) ==
    \/ j = <<>>
    \/ j = k /\ g = f /\ (sn \subseteq tn \/ kind # "agent")
    \/ kind = "agent" /\ (g \/ Fresh_(j[1], tn))

LEMMA AdvanceFresh ==
  ASSUME NEW C, NEW D, NEW ts \in SUBSET Tasks, NEW w, NEW v, NEW k, NEW f, NEW j, NEW g, NEW sn, NEW tn, NEW y0, NEW y,
         FreshInv(C, w, k, f, sn, y0), Advance(C, D, ts, y), Sees(sn, tn, y), OldViews(w, v), CacheStep(k, f, j, g, sn, tn),
         \A i \in DOMAIN w : w[i].task \in Tasks, \A i \in DOMAIN v : v[i].task \in Tasks
  PROVE  FreshInv(D, v, j, g, tn, y)
  <1>1. /\ y \in tn
        /\ \A u \in Tasks \ ts : C[u].op # "none" => tn \subseteq D[u].since /\ C[u].since \subseteq D[u].since
    BY DEF Sees, Advance, FreshInv, Held
  <1>2. Held(D, tn, y)
    <2>1. ASSUME NEW u \in Tasks, D[u].op # "none" PROVE tn \subseteq D[u].since
      <3>1. u \notin ts /\ C[u].op # "none"
        BY <2>1 DEF Advance
      <3> QED
        BY <1>1, <3>1
    <2> QED
      BY <1>1, <2>1 DEF Held
  <1>3. CacheFresh(j, g, tn)
    <2>1. CASE j = k /\ g = f /\ sn \subseteq tn
      BY <2>1, FreshMore DEF FreshInv, CacheFresh
    <2>2. CASE j = k /\ g = f /\ kind # "agent"
      BY <2>2 DEF FreshInv, CacheFresh
    <2> QED
      BY <2>1, <2>2 DEF CacheStep, CacheFresh
  <1>4. ASSUME NEW i \in DOMAIN v, v[i].view # <<>> PROVE kind = "agent" /\ LineFresh(v[i], D)
    <2>1. PICK m \in DOMAIN w : v[i].task = w[m].task /\ v[i].n = w[m].n /\ v[i].view = w[m].view
      BY <1>4 DEF OldViews
    <2>2. kind = "agent" /\ LineFresh(w[m], C) /\ w[m].task \in Tasks
      BY <1>4, <2>1 DEF FreshInv, LinesFresh
    <2> SUFFICES ASSUME NEW t, t = v[i].task, NEW z, z = v[i].view[1], Reading(D[t]), D[t].n = v[i].n
                 PROVE  z \in D[t].since
      BY <2>2 DEF LineFresh
    <2>3. t \in Tasks \ ts /\ Reading(C[t]) /\ C[t].n = w[m].n /\ C[t].op # "none"
      BY <2>1, <2>2 DEF Advance, Reading
    <2>4. z \in C[t].since
      BY <2>1, <2>2, <2>3 DEF LineFresh
    <2> QED
      BY <1>1, <2>3, <2>4
  <1>5. \A t \in Tasks : GotFresh(D[t])
    BY DEF Advance, GotFresh, Reading
  <1> QED
    BY <1>2, <1>3, <1>4, <1>5 DEF FreshInv, LinesFresh

LEMMA GotKept ==
  ASSUME NEW c, NEW d, GotFresh(c), d.op = c.op, d.want = c.want, d.got = c.got, c.since \subseteq d.since
  PROVE  GotFresh(d)
  <1>1. ASSUME GotFresh(c), Reading(d) /\ d.want # {"join"} PROVE DOMAIN d.got \cup d.want = Reads /\ \A q \in DOMAIN d.got : Backed(q, d.got[q], c.since)
    BY <1>1 DEF GotFresh, Reading
  <1>2. ASSUME NEW q, Backed(q, d.got[q], c.since) PROVE Backed(q, d.got[q], d.since)
    BY <1>2, BackedMore
  <1> QED
    BY <1>1, <1>2 DEF GotFresh

\* An answer more: what a read has is still backed.
LEMMA GotMore ==
  ASSUME NEW c, GotFresh(c), NEW r \in c.want \ {"join"}, NEW a, NEW S, c.since \subseteq S, Reading(c) => Backed(r, a, S),
         NEW d, d.op = c.op, d.want = c.want \ {r}, d.got = With(c.got, r, a), d.since = S
  PROVE  GotFresh(d)
  <1> SUFFICES ASSUME Reading(c)
               PROVE  DOMAIN d.got \cup d.want = Reads /\ \A q \in DOMAIN d.got : Backed(q, d.got[q], S)
    BY DEF GotFresh, Reading
  <1>1. DOMAIN c.got \cup c.want = Reads /\ \A q \in DOMAIN c.got : Backed(q, c.got[q], c.since)
    BY DEF GotFresh
  <1>2. DOMAIN d.got = DOMAIN c.got \cup {r}
    <2>1. DOMAIN With(c.got, r, a) = DOMAIN c.got \cup {r}
      BY WithDomain
    <2> QED
      BY <2>1
  <1>3. d.got[r] = a
    <2>1. With(c.got, r, a)[r] = a
      BY WithNew
    <2> QED
      BY <2>1
  <1>4. ASSUME NEW q \in DOMAIN c.got \ {r} PROVE Backed(q, d.got[q], S)
    <2>1. With(c.got, r, a)[q] = c.got[q]
      BY WithOld
    <2>2. Backed(q, c.got[q], c.since)
      BY <1>1
    <2>3. Backed(q, c.got[q], S)
      BY <2>2, BackedMore
    <2> QED
      BY <2>1, <2>3
  <1>5. DOMAIN d.got \cup d.want = Reads
    BY <1>1, <1>2
  <1> QED
    BY <1>2, <1>3, <1>4, <1>5

\* A call that goes on, and others.
LEMMA AdvanceContinued ==
  ASSUME \A u \in Tasks : GotFresh(call[u]), NEW D, NEW t \in Tasks, NEW c, NEW y, ContinuedTo(D, t, c, y),
         c.op = call[t].op, c.n = call[t].n, c.since = call[t].since, c.want = {"join"} => call[t].want = {"join"}, GotFresh(D[t])
  PROVE  Advance(call, D, {}, y)
  <1>1. ASSUME NEW u \in Tasks
        PROVE  /\ D[u].op = call[u].op /\ D[u].n = call[u].n
               /\ D[u].since = IF call[u].op # "none" THEN call[u].since \cup {y} ELSE call[u].since
               /\ D[u].want = {"join"} => call[u].want = {"join"}
               /\ GotFresh(D[u])
    <2>1. CASE u = t
      BY <2>1 DEF ContinuedTo, Same
    <2>2. CASE u # t
      <3>1. /\ D[u].op = call[u].op /\ D[u].n = call[u].n /\ D[u].want = call[u].want /\ D[u].got = call[u].got
            /\ D[u].since = IF call[u].op # "none" THEN call[u].since \cup {y} ELSE call[u].since
        BY <2>2 DEF ContinuedTo, Same
      <3>2. call[u].since \subseteq D[u].since /\ GotFresh(call[u])
        BY <3>1
      <3>3. GotFresh(D[u])
        BY <3>1, <3>2, GotKept
      <3> QED
        BY <3>1, <3>3
    <2> QED
      BY <2>1, <2>2
  <1> QED
    BY <1>1 DEF Advance

\* Calls that return, and others.
LEMMA AdvanceReturned ==
  ASSUME \A u \in Tasks : GotFresh(call[u]), NEW D, NEW ts \in SUBSET Tasks, NEW y, ReturnedTo(D, ts, y)
  PROVE  Advance(call, D, ts, y)
  <1>1. ASSUME NEW u \in Tasks \ ts
        PROVE  /\ D[u].op = call[u].op /\ D[u].n = call[u].n
               /\ D[u].since = IF call[u].op # "none" THEN call[u].since \cup {y} ELSE call[u].since
               /\ D[u].want = {"join"} => call[u].want = {"join"}
               /\ GotFresh(D[u])
    <2>1. /\ D[u].op = call[u].op /\ D[u].n = call[u].n /\ D[u].want = call[u].want /\ D[u].got = call[u].got
          /\ D[u].since = IF call[u].op # "none" THEN call[u].since \cup {y} ELSE call[u].since
      BY DEF ReturnedTo, Same
    <2>2. call[u].since \subseteq D[u].since /\ GotFresh(call[u])
      BY <2>1
    <2>3. GotFresh(D[u])
      BY <2>1, <2>2, GotKept
    <2> QED
      BY <2>1, <2>3
  <1> QED
    BY <1>1 DEF Advance, ReturnedTo

\* The lines that are on a wire after more are sent.
LEMMA MoreViews ==
  ASSUME NEW u, NEW w, OldViews(u, w), NEW v, \A j \in DOMAIN v : (\E k \in DOMAIN w : v[j] = w[k]) \/ v[j].view = <<>>
  PROVE  OldViews(u, v)
  <1> SUFFICES ASSUME NEW j \in DOMAIN v, v[j].view # <<>>
               PROVE  \E k \in DOMAIN u : v[j].task = u[k].task /\ v[j].n = u[k].n /\ v[j].view = u[k].view
    BY DEF OldViews
  <1>1. PICK k \in DOMAIN w : v[j] = w[k]
    OBVIOUS
  <1> QED
    BY <1>1 DEF OldViews

LEMMA AddViews ==
  ASSUME NEW u \in Wires, NEW w \in Wires, OldViews(u, w), NEW t \in Tasks, NEW n \in Nat, NEW rs \in SUBSET Reqs, IsFiniteSet(rs)
  PROVE  OldViews(u, w \o Lines(t, n, rs))
  <1> SUFFICES ASSUME NEW v, v = w \o Lines(t, n, rs) PROVE OldViews(u, v)
    OBVIOUS
  <1>1. \A j \in DOMAIN v : (\E k \in DOMAIN w : v[j] = w[k]) \/ (\E r \in rs : v[j] = New(t, n, r))
    BY AddIs
  <1>2. \A r : New(t, n, r).view = <<>>
    BY DEF New
  <1>3. \A j \in DOMAIN v : (\E k \in DOMAIN w : v[j] = w[k]) \/ v[j].view = <<>>
    BY <1>1, <1>2
  <1> QED
    BY <1>3, MoreViews, ZenonT(40)

LEMMA RemoveViews == ASSUME NEW w \in Wires, NEW i \in DOMAIN w PROVE OldViews(w, RemoveAt(w, i))
  <1>1. \A j \in DOMAIN RemoveAt(w, i) : \E k \in DOMAIN w \ {i} : RemoveAt(w, i)[j] = w[k]
    BY RemoveIs
  <1> QED
    BY <1>1 DEF OldViews

LEMMA LegViews == ASSUME NEW w \in Wires, NEW i \in DOMAIN w PROVE OldViews(w, LegLine(w, i))
  <1>1. DOMAIN LegLine(w, i) = DOMAIN w /\ \A k \in DOMAIN w : k # i => LegLine(w, i)[k] = w[k]
    BY DEF LegLine
  <1>2. LegLine(w, i)[i] = [w[i] EXCEPT !.req = "protect"]
    BY DEF LegLine
  <1>3. w[i] \in LineSet
    BY LineIs
  <1>4. ASSUME NEW l \in LineSet, NEW m, m = [l EXCEPT !.req = "protect"] PROVE m.task = l.task /\ m.n = l.n /\ m.view = l.view
    BY <1>4 DEF LineSet
  <1>5. LegLine(w, i)[i].task = w[i].task /\ LegLine(w, i)[i].n = w[i].n /\ LegLine(w, i)[i].view = w[i].view
    BY <1>2, <1>3, <1>4
  <1> QED
    BY <1>1, <1>5 DEF OldViews

\* What a finished read returns.
LEMMA ReadReturns ==
  ASSUME script \in Scripts, GoodCalls(call), \A u \in Tasks : GotFresh(call[u]),
         NEW t \in Tasks, NEW c, c = call[t], NEW r \in c.want \ {"join"}, NEW a, Reading(c), Backed(r, a, c.since),
         NEW d, d = After(c, r, a), NEW v, v = Verdict(c.op, c.stage, d.want, d.got), v[1] = "done"
  PROVE  Fresh_(v[2], c.since)
  <1>1. GoodCall(c) /\ GotFresh(c)
    BY DEF GoodCalls
  <1>2. c.op \in OpsOf(kind) /\ c.stage \in {1, 2} /\ (c.stage = 2 => TwoStage(c.op)) /\ Record(c) /\ kind \in Kinds
    BY <1>1, AwaitedIs, ScriptIs
  <1>3. c.stage = 1 /\ c.op \in {"account", "netCheck"}
    BY <1>2 DEF Reading, TwoStage
  <1>4. Same(c, d) /\ d.want = c.want \ {r} /\ d.got = With(c.got, r, a)
    BY <1>2, AfterIs
  <1>5. DOMAIN c.got \cup c.want = Reads /\ \A q \in DOMAIN c.got : Backed(q, c.got[q], c.since)
    BY <1>1 DEF GotFresh
  <1>6. DOMAIN d.got = DOMAIN c.got \cup {r} /\ d.got[r] = a
    <2>1. DOMAIN With(c.got, r, a) = DOMAIN c.got \cup {r}
      BY WithDomain
    <2>2. With(c.got, r, a)[r] = a
      BY WithNew
    <2> QED
      BY <1>4, <2>1, <2>2
  <1>7. DOMAIN d.got \cup d.want = Reads
    BY <1>4, <1>5, <1>6
  <1>8. ASSUME NEW S, S = c.since, \A q \in DOMAIN d.got : Backed(q, d.got[q], S) PROVE Fresh_(v[2], S)
    <2>1. v = Verdict(c.op, 1, d.want, d.got)
      BY <1>3
    <2> QED
      BY <1>2, <1>3, <1>7, <1>8, <2>1, ReadTells
  <1>9. ASSUME NEW q \in DOMAIN d.got PROVE Backed(q, d.got[q], c.since)
    <2>1. CASE q = r
      BY <1>6, <2>1
    <2>2. CASE q # r
      <3>1. q \in DOMAIN c.got \ {r} /\ Backed(q, c.got[q], c.since)
        BY <1>5, <1>6, <2>2
      <3>2. With(c.got, r, a)[q] = c.got[q]
        BY <3>1, WithOld
      <3> QED
        BY <1>4, <3>1, <3>2
    <2> QED
      BY <2>1, <2>2
  <1> QED
    BY <1>8, <1>9

\* What is late: to those who joined a run that a write crossed, and the cache
\* it fills.
LEMMA ReturnLate ==
  ASSUME NEW ts, NEW t \in ts, (running \in ts => running = t), (running \notin ts => ts = {t}), NEW out, Return(ts, out)
  PROVE  /\ \A e \in log' \ log : e.late <=> call[e.task].want = {"join"} /\ Crossed(t)
         /\ IF call[t].op \in {"account", "netCheck"} /\ kind = "agent" /\ out.word # "throw"
            THEN crossed' = Crossed(t) ELSE crossed' = crossed
  <1> DEFINE first == IF running \in ts THEN running ELSE CHOOSE u \in ts : TRUE
             entry(u) == [task |-> u, n |-> call[u].n, op |-> call[u].op, out |-> out,
                          fresh |-> call[u].op \in {"account", "netCheck"} => Fresh_(out, call[u].since),
                          late |-> call[u].want = {"join"} /\ Crossed(first)]
  <1>1. first = t
    OBVIOUS
  <1>2. log' = log \cup {entry(u) : u \in ts}
    BY DEF Return
  <1>3. ASSUME NEW u \in ts
        PROVE  entry(u).task = u /\ (entry(u).late <=> call[u].want = {"join"} /\ Crossed(first))
    OBVIOUS
  <1>4. IF call[first].op \in {"account", "netCheck"} /\ kind = "agent" /\ out.word # "throw"
        THEN crossed' = Crossed(first) ELSE crossed' = crossed
    BY DEF Return
  <1> HIDE DEF first, entry
  <1>5. ASSUME NEW e \in log' \ log PROVE e.late <=> call[e.task].want = {"join"} /\ Crossed(t)
    <2>1. PICK u \in ts : e = entry(u)
      BY <1>2
    <2> QED
      BY <1>1, <1>3, <2>1
  <1> QED
    BY <1>1, <1>4, <1>5

LEMMA FreshReturns ==
  ASSUME GoodCalls(call), Snap' \in Views, NEW y, FreshInv(call, wire, cache, crossed, seen, y), wire \in Wires,
         NEW ts \in SUBSET Tasks, NEW t \in ts, (running \in ts => running = t), (running \notin ts => ts = {t}),
         \A u \in ts \ {t} : call[u].want = {"join"},
         NEW op, op # "none", \A u \in ts : call[u].op = op,
         NEW out, NEW w \in Wires, OldViews(wire, w), Return(ts, out),
         op \in {"account", "netCheck"} => call[t].want # {"join"} /\ Fresh_(out, call[t].since)
  PROVE  FreshInv(call', w, cache', crossed', seen', Snap') /\ \A e \in log' \ log : e.fresh \/ e.late
  <1>1. t \in Tasks /\ \A u \in ts : call[u].op = op /\ call[u].op # "none"
    OBVIOUS
  <1>2. \A u \in ts : seen \subseteq call[u].since
    BY <1>1 DEF FreshInv, Held
  <1>3. /\ ReturnedTo(call', ts, Snap')
        /\ log \subseteq log' /\ Entries(log' \ log, ts, out)
        /\ seen' = IF op \in WriteOps THEN {Snap'} ELSE seen \cup {Snap'}
        /\ cache' = IF op \in {"account", "netCheck"} /\ kind = "agent" /\ out.word # "throw" THEN <<out>>
                    ELSE invalidateAccount(op, cache)
    <2>1. ts # {} /\ \A u \in ts : call[u].op = op
      OBVIOUS
    <2> QED
      BY <2>1, ReturnIs
  <1>4. Advance(call, call', ts, Snap')
    <2>1. \A u \in Tasks : GotFresh(call[u])
      BY DEF FreshInv
    <2> QED
      BY <1>1, <1>3, <2>1, AdvanceReturned
  <1>5. /\ \A e \in log' \ log : e.late <=> call[e.task].want = {"join"} /\ Crossed(t)
        /\ IF op \in {"account", "netCheck"} /\ kind = "agent" /\ out.word # "throw"
           THEN crossed' = Crossed(t) ELSE crossed' = crossed
    <2>1. /\ \A e \in log' \ log : e.late <=> call[e.task].want = {"join"} /\ Crossed(t)
          /\ IF call[t].op \in {"account", "netCheck"} /\ kind = "agent" /\ out.word # "throw"
             THEN crossed' = Crossed(t) ELSE crossed' = crossed
      BY ReturnLate
    <2>2. call[t].op = op
      BY <1>1
    <2> QED
      BY <2>1, <2>2
  <1>6. ASSUME op \in {"account", "netCheck"}, ~Crossed(t) PROVE Fresh_(out, seen)
    BY <1>6, FreshMore DEF Crossed
  <1>7. Sees(seen, seen', Snap')
    BY <1>3 DEF Sees
  <1>8. CacheStep(cache, crossed, cache', crossed', seen, seen')
    <2>1. CASE op \in {"account", "netCheck"} /\ kind = "agent" /\ out.word # "throw"
      <3>1. cache' = <<out>> /\ cache'[1] = out /\ crossed' = Crossed(t)
        BY <1>3, <1>5, <2>1
      <3>2. seen \subseteq seen'
        BY <1>3, <2>1 DEF WriteOps
      <3>3. Crossed(t) \/ Fresh_(out, seen')
        BY <1>6, <2>1, <3>2, FreshMore
      <3> QED
        BY <2>1, <3>1, <3>3 DEF CacheStep
    <2>2. CASE ~(op \in {"account", "netCheck"} /\ kind = "agent" /\ out.word # "throw")
      <3>1. cache' = (IF kind = "agent" /\ op \in WriteOps THEN <<>> ELSE cache) /\ crossed' = crossed
        BY <1>3, <1>5, <2>2 DEF invalidateAccount
      <3> QED
        BY <1>3, <3>1 DEF CacheStep
    <2> QED
      BY <2>1, <2>2
  <1>9. (\A i \in DOMAIN wire : wire[i].task \in Tasks) /\ (\A i \in DOMAIN w : w[i].task \in Tasks)
    BY LineIs
  <1>10. FreshInv(call', w, cache', crossed', seen', Snap')
    BY <1>4, <1>7, <1>8, <1>9, AdvanceFresh
  <1>11. ASSUME NEW e \in log' \ log PROVE e.fresh \/ e.late
    <2>1. /\ e.task \in ts /\ e.op = op
          /\ (e.op \in {"account", "netCheck"} => Fresh_(out, call[e.task].since)) => e.fresh
      BY <1>1, <1>3, <1>11 DEF Entries
    <2>2. CASE op \notin {"account", "netCheck"} \/ e.task = t
      BY <2>1, <2>2
    <2>3. CASE op \in {"account", "netCheck"} /\ e.task # t
      <3>1. call[e.task].want = {"join"} /\ seen \subseteq call[e.task].since
        BY <1>2, <2>1, <2>3
      <3>2. CASE Crossed(t)
        BY <1>5, <1>11, <3>1, <3>2
      <3>3. CASE ~Crossed(t)
        <4>1. Fresh_(out, call[e.task].since)
          BY <1>6, <2>3, <3>1, <3>3, FreshMore
        <4> QED
          BY <2>1, <4>1
      <3> QED
        BY <3>2, <3>3
    <2> QED
      BY <2>2, <2>3
  <1> QED
    BY <1>10, <1>11

LEMMA FreshEnds ==
  ASSUME script \in Scripts, GoodCalls(call), Runner(call, running), Snap' \in Views, NEW y,
         FreshInv(call, wire, cache, crossed, seen, y), wire \in Wires,
         NEW t \in Tasks, NEW r \in call[t].want \ {"join"}, NEW out, NEW w \in Wires, OldViews(wire, w), Ends(t, w, out),
         Reading(call[t]) => Fresh_(out, call[t].since)
  PROVE  FreshInv(call', wire', cache', crossed', seen', Snap') /\ \A e \in log' \ log : e.fresh \/ e.late
  <1>1. /\ Joined(t) \in SUBSET Tasks /\ t \in Joined(t)
        /\ \A u \in Joined(t) : call[u].op = call[t].op /\ call[u].op # "none"
        /\ running \in Joined(t) => running = t
    BY JoinedIs
  <1>2. wire' = w /\ Return(Joined(t), out)
    BY DEF Ends
  <1>3. (running \notin Joined(t) => Joined(t) = {t}) /\ \A u \in Joined(t) \ {t} : call[u].want = {"join"}
    BY <1>1 DEF Joined
  <1>4. call[t].op \in {"account", "netCheck"} => call[t].want # {"join"} /\ Fresh_(out, call[t].since)
    BY DEF Reading
  <1>5. call[t].op # "none" /\ \A u \in Joined(t) : call[u].op = call[t].op
    BY <1>1
  <1>6. ASSUME NEW ts, ts = Joined(t), NEW op, op = call[t].op
        PROVE  FreshInv(call', w, cache', crossed', seen', Snap') /\ \A e \in log' \ log : e.fresh \/ e.late
    <2>1. ts \in SUBSET Tasks /\ t \in ts /\ (running \in ts => running = t) /\ (running \notin ts => ts = {t})
      BY <1>1, <1>3, <1>6
    <2>2. (\A u \in ts \ {t} : call[u].want = {"join"}) /\ op # "none" /\ (\A u \in ts : call[u].op = op) /\ Return(ts, out)
      BY <1>2, <1>3, <1>5, <1>6
    <2>3. op \in {"account", "netCheck"} => call[t].want # {"join"} /\ Fresh_(out, call[t].since)
      BY <1>4, <1>6
    <2> HIDE <1>6
    <2> QED
      BY <2>1, <2>2, <2>3, FreshReturns
  <1> QED
    BY <1>2, <1>6

LEMMA FreshContinues ==
  ASSUME GoodCalls(call), Snap' \in Views, NEW y, FreshInv(call, wire, cache, crossed, seen, y), wire \in Wires,
         NEW t \in Tasks, NEW c, GoodCall(c), Continue(t, c), NEW w \in Wires, OldViews(wire, w),
         c.op = call[t].op, c.n = call[t].n, c.since = call[t].since, c.want = {"join"} => call[t].want = {"join"},
         \A d : d.op = c.op /\ d.want = c.want /\ d.got = c.got /\ c.since \subseteq d.since => GotFresh(d)
  PROVE  FreshInv(call', w, cache', crossed', seen', Snap') /\ log' = log
  <1>1. /\ ContinuedTo(call', t, c, Snap')
        /\ seen' = seen \cup {Snap'} /\ log' = log /\ cache' = cache /\ crossed' = crossed
    BY ContinueIs DEF Continue, cacheVars
  <1>2. GotFresh(call'[t])
    <2>1. /\ call'[t].op = c.op /\ call'[t].want = c.want /\ call'[t].got = c.got
          /\ call'[t].since = IF c.op # "none" THEN c.since \cup {Snap'} ELSE c.since
      BY <1>1 DEF ContinuedTo, Same
    <2> QED
      BY <2>1
  <1>3. \A u \in Tasks : GotFresh(call[u])
    BY DEF FreshInv
  <1>4. Advance(call, call', {}, Snap')
    BY <1>1, <1>2, <1>3, AdvanceContinued
  <1>5. Sees(seen, seen', Snap') /\ CacheStep(cache, crossed, cache', crossed', seen, seen')
    BY <1>1 DEF Sees, CacheStep
  <1>6. (\A i \in DOMAIN wire : wire[i].task \in Tasks) /\ (\A i \in DOMAIN w : w[i].task \in Tasks)
    BY LineIs
  <1>7. {} \in SUBSET Tasks
    OBVIOUS
  <1>8. FreshInv(call', w, cache', crossed', seen', Snap')
    BY <1>4, <1>5, <1>6, <1>7, AdvanceFresh
  <1> QED
    BY <1>1, <1>8

\* What the answer to call t shows of an account was so while it waited.
Shows(t, r, a) == Reading(call[t]) => Backed(r, a, call[t].since)

LEMMA FreshWaits ==
  ASSUME script \in Scripts, GoodCalls(call), Snap' \in Views, NEW y,
         FreshInv(call, wire, cache, crossed, seen, y), wire \in Wires,
         NEW t \in Tasks, NEW c, c = call[t], NEW r \in c.want \ {"join"}, NEW a, NEW w \in Wires, OldViews(wire, w), Shows(t, r, a),
         NEW d, d = After(c, r, a), Waits(t, c, d, w)
  PROVE  FreshInv(call', wire', cache', crossed', seen', Snap') /\ log' = log
  <1>1. GoodCall(c) /\ GotFresh(c)
    BY DEF GoodCalls, FreshInv
  <1>2. wire' = w /\ Continue(t, d) /\ d.want # {}
    BY DEF Waits
  <1>3. Record(c) /\ "join" \notin c.want
    <2>1. BusyCall(c) /\ Record(c) /\ r \in c.want /\ c.want # {"join"} /\ c.op \in OpsOf(kind) /\ kind \in Kinds
      BY <1>1, AwaitedIs, ScriptIs
    <2>2. c.want \in SUBSET Program(c.op)[c.stage] /\ c.stage \in {1, 2} /\ (c.stage = 2 => TwoStage(c.op))
      BY <2>1 DEF BusyCall
    <2>3. Stage(Program(c.op)[c.stage])
      BY <2>1, <2>2, StagesAre
    <2> QED
      BY <2>1, <2>2, <2>3 DEF Stage
  <1>4. d.op = c.op /\ d.n = c.n /\ d.want = c.want \ {r} /\ d.since = c.since /\ d.got = With(c.got, r, a)
    BY <1>3, AfterIs DEF Same
  <1>5. GoodCall(d)
    <2>1. c.want \ {r} # {}
      BY <1>2, <1>4
    <2> QED
      BY <1>1, <2>1, WaitIs
  <1>6. Reading(c) => Backed(r, a, c.since)
    BY DEF Shows
  <1>7. ASSUME NEW f, f.op = d.op, f.want = d.want, f.got = d.got, d.since \subseteq f.since PROVE GotFresh(f)
    <2>1. f.op = c.op /\ f.want = c.want \ {r} /\ f.got = With(c.got, r, a) /\ c.since \subseteq f.since
      BY <1>4, <1>7
    <2>2. Reading(c) => Backed(r, a, f.since)
      BY <1>6, <2>1, BackedMore
    <2>3. ASSUME NEW S, S = f.since PROVE GotFresh(f)
      BY <1>1, <2>1, <2>2, <2>3, GotMore
    <2> QED
      BY <2>3
  <1>8. d.op = call[t].op /\ d.n = call[t].n /\ d.since = call[t].since /\ (d.want = {"join"} => call[t].want = {"join"})
    BY <1>3, <1>4
  <1>9. FreshInv(call', w, cache', crossed', seen', Snap') /\ log' = log
    BY <1>2, <1>5, <1>7, <1>8, FreshContinues
  <1> QED
    BY <1>2, <1>9

LEMMA FreshGoesOn ==
  ASSUME script \in Scripts, GoodCalls(call), Snap' \in Views, NEW y,
         FreshInv(call, wire, cache, crossed, seen, y), wire \in Wires,
         NEW t \in Tasks, NEW c, c = call[t], NEW r \in c.want \ {"join"}, NEW a, NEW w \in Wires, OldViews(wire, w),
         NEW d, d = After(c, r, a), GoesOn(t, c, d, w)
  PROVE  FreshInv(call', wire', cache', crossed', seen', Snap') /\ log' = log
  <1> SUFFICES ASSUME NEW f, f = Onward(d), NEW rs, rs = Program(c.op)[2]
               PROVE  FreshInv(call', wire', cache', crossed', seen', Snap') /\ log' = log
    OBVIOUS
  <1>1. GoodCall(c)
    BY DEF GoodCalls
  <1>2. c.stage = 1 /\ TwoStage(c.op) /\ wire' = w \o Lines(t, c.n, rs) /\ Continue(t, f)
    BY DEF GoesOn
  <1>3. /\ GoodCall(f) /\ f.op = c.op /\ f.n = c.n /\ f.want = rs /\ f.since = c.since /\ Stage(rs)
    BY <1>1, <1>2, OnwardIs
  <1>4. c.n \in Nat
    BY <1>1 DEF GoodCall, Record
  <1>5. rs \in SUBSET Reqs /\ IsFiniteSet(rs) /\ "join" \notin rs
    BY <1>3 DEF Stage
  <1>6. OldViews(wire, w \o Lines(t, c.n, rs)) /\ w \o Lines(t, c.n, rs) \in Wires
    BY <1>4, <1>5, AddViews, AddIs
  <1>7. ASSUME NEW e, e.op = f.op PROVE GotFresh(e)
    BY <1>2, <1>3, <1>7 DEF GotFresh, Reading, TwoStage
  <1>8. f.op = call[t].op /\ f.n = call[t].n /\ f.since = call[t].since /\ (f.want = {"join"} => call[t].want = {"join"})
    BY <1>3, <1>5
  <1>9. ASSUME NEW v, v = w \o Lines(t, c.n, rs) PROVE FreshInv(call', v, cache', crossed', seen', Snap') /\ log' = log
    <2>1. v \in Wires /\ OldViews(wire, v) /\ GoodCall(f) /\ Continue(t, f)
      BY <1>2, <1>3, <1>6, <1>9
    <2>2. \A e : e.op = f.op /\ e.want = f.want /\ e.got = f.got /\ f.since \subseteq e.since => GotFresh(e)
      BY <1>7
    <2> QED
      BY <1>8, <2>1, <2>2, FreshContinues
  <1> QED
    BY <1>2, <1>9

LEMMA FreshSettle ==
  ASSUME script \in Scripts, GoodCalls(call), Runner(call, running), Snap' \in Views, NEW y,
         FreshInv(call, wire, cache, crossed, seen, y), wire \in Wires,
         NEW t \in Tasks, NEW r \in call[t].want \ {"join"}, NEW a, NEW w \in Wires, OldViews(wire, w), Settle(t, r, a, w), Shows(t, r, a)
  PROVE  FreshInv(call', wire', cache', crossed', seen', Snap') /\ \A e \in log' \ log : e.fresh \/ e.late
  <1> SUFFICES ASSUME NEW c, c = call[t], NEW d, d = After(c, r, a), NEW v, v = Verdict(c.op, c.stage, d.want, d.got)
               PROVE  FreshInv(call', wire', cache', crossed', seen', Snap') /\ \A e \in log' \ log : e.fresh \/ e.late
    OBVIOUS
  <1>1. GoodCall(c) /\ r \in c.want \ {"join"}
    BY DEF GoodCalls
  <1>2. Taken(t, c, d, w, v)
    BY <1>1, TakenIs
  <1>3. CASE Waits(t, c, d, w)
    BY <1>1, <1>3, FreshWaits
  <1>4. CASE GoesOn(t, c, d, w)
    BY <1>1, <1>4, FreshGoesOn
  <1>5. CASE v[1] = "done" /\ Ends(t, w, v[2])
    <2>1. \A u \in Tasks : GotFresh(call[u])
      BY DEF FreshInv
    <2>2. ASSUME Reading(call[t]) PROVE Fresh_(v[2], call[t].since)
      <3>1. Reading(c) /\ Backed(r, a, c.since)
        BY <2>2 DEF Shows
      <3> QED
        BY <1>1, <1>5, <2>1, <3>1, ReadReturns
    <2>3. ASSUME NEW out, out = v[2] PROVE FreshInv(call', wire', cache', crossed', seen', Snap') /\ \A e \in log' \ log : e.fresh \/ e.late
      <3>1. Ends(t, w, out) /\ (Reading(call[t]) => Fresh_(out, call[t].since))
        BY <1>5, <2>2, <2>3
      <3> QED
        BY <3>1, FreshEnds
    <2> QED
      BY <2>3
  <1> QED
    BY <1>2, <1>3, <1>4, <1>5 DEF Taken

(***************************************************************************)
(* The steps, for reads                                                    *)
(***************************************************************************)
FreshNow == FreshInv(call, wire, cache, crossed, seen, Snap) /\ \A e \in log : e.fresh \/ e.late
FreshThen == FreshInv(call', wire', cache', crossed', seen', Snap') /\ \A e \in log' \ log : e.fresh \/ e.late

LEMMA FreshStays ==
  ASSUME BackInv, FreshNow, x' \in Exchange, NEW t \in Tasks, Continue(t, call[t]), NEW w \in Wires, OldViews(wire, w), wire' = w
  PROVE  FreshThen
  <1> SUFFICES ASSUME NEW c, c = call[t] PROVE FreshThen
    OBVIOUS
  <1>1. GoodCalls(call) /\ GoodCall(c) /\ wire \in Wires /\ Continue(t, c)
    BY DEF BackInv, TypeInv, GoodCalls
  <1>2. Snap' \in Views
    BY SnapNext
  <1>3. FreshInv(call, wire, cache, crossed, seen, Snap) /\ GotFresh(c)
    BY DEF FreshNow, FreshInv
  <1>4. \A d : d.op = c.op /\ d.want = c.want /\ d.got = c.got /\ c.since \subseteq d.since => GotFresh(d)
    BY <1>3, GotKept
  <1>5. c.op = call[t].op /\ c.n = call[t].n /\ c.since = call[t].since /\ (c.want = {"join"} => call[t].want = {"join"})
    OBVIOUS
  <1>6. FreshInv(call', w, cache', crossed', seen', Snap') /\ log' = log
    BY <1>1, <1>2, <1>3, <1>4, <1>5, FreshContinues
  <1> QED
    BY <1>6 DEF FreshThen

\* A read awaits only requests that read.
LEMMA ReadsAwait ==
  ASSUME BackInv, FreshNow, NEW t \in Tasks, NEW r \in call[t].want \ {"join"}, Reading(call[t])
  PROVE  r \in {"pos", "orders", "algos", "acct"} /\ (kind = "agent" => r = "acct")
  <1>1. GotFresh(call[t])
    BY DEF FreshNow, FreshInv
  <1>2. r \in Reads
    BY <1>1 DEF GotFresh
  <1> QED
    BY <1>2 DEF Reads

LEMMA ReplyShows ==
  ASSUME NEW r \in {"pos", "orders", "algos", "acct"}, NEW S, Snap \in S
  PROVE  Backed(r, Reply(x, r), S)
  <1> SUFFICES ASSUME NEW a, a = Reply(x, r) PROVE Backed(r, a, S)
    OBVIOUS
  <1>1. Accepts(x, r)
    BY DEF Accepts
  <1>2. a = Answer("ok", Value(x, r))
    BY <1>1 DEF Reply
  <1>3. a.val = Value(x, r)
    BY <1>2 DEF Answer
  <1>4. Snap.pos = (x.pos > 0) /\ Snap.stop = x.stop
    BY DEF Snap
  <1>5. CASE r = "pos"
    <2>1. a.val = Snap.pos
      BY <1>3, <1>4, <1>5 DEF Value
    <2> QED
      BY <1>5, <2>1 DEF Backed
  <1>6. CASE r \in {"orders", "algos"}
    <2>1. a.val = Snap.stop \/ a.val = FALSE
      BY <1>3, <1>4, <1>6 DEF Value
    <2> QED
      BY <1>6, <2>1 DEF Backed
  <1>7. CASE r = "acct"
    <2>1. a.val = Snap
      BY <1>3, <1>7 DEF Value, Snap
    <2> QED
      BY <1>7, <2>1 DEF Backed
  <1> QED
    BY <1>5, <1>6, <1>7

\* What the exchange reports, or what a run saw when it looked.
LEMMA ExecuteShows ==
  ASSUME BackInv, FreshNow, NEW i \in DOMAIN wire, NEW l, l = wire[i], NEW t \in Tasks, t = l.task, call[t].n = l.n,
         Asked(l) \in call[t].want \ {"join"}
  PROVE  Shows(t, Asked(l), Reported(l))
  <1> SUFFICES ASSUME Reading(call[t]), NEW r, r = Asked(l) PROVE Backed(r, Reported(l), call[t].since)
    BY DEF Shows
  <1>1. Looked(wire)
    BY DEF BackInv, TypeInv
  <1>2. r \in {"pos", "orders", "algos", "acct"} /\ l.req = r
    <2>1. r \in {"pos", "orders", "algos", "acct"}
      BY ReadsAwait
    <2> QED
      BY <2>1 DEF Asked
  <1>3. CASE l.view = <<>>
    <2>1. Reported(l) = Reply(x, r)
      BY <1>2, <1>3 DEF Reported
    <2>2. Snap \in call[t].since
      BY DEF FreshNow, FreshInv, Held, Reading
    <2> QED
      BY <1>2, <2>1, <2>2, ReplyShows
  <1>4. CASE l.view # <<>>
    <2>1. r = "acct"
      BY <1>1, <1>2, <1>4 DEF Looked
    <2>2. Reported(l) = Answer("ok", l.view[1])
      BY <1>2, <1>4 DEF Reported
    <2>3. LineFresh(l, call)
      BY <1>4 DEF FreshNow, FreshInv, LinesFresh
    <2>4. l.view[1] \in call[t].since
      BY <2>3 DEF LineFresh
    <2>5. ASSUME NEW a, a = Reported(l) PROVE Backed("acct", a, call[t].since)
      <3>1. a.val = l.view[1]
        BY <2>2, <2>5 DEF Answer
      <3> QED
        BY <2>4, <3>1 DEF Backed
    <2> QED
      BY <2>1, <2>5
  <1> QED
    BY <1>3, <1>4

\* A failure shows nothing.
LEMMA FailureShows == ASSUME NEW t, NEW r, NEW a, a.kind # "ok" PROVE Shows(t, r, a)
  BY DEF Shows, Backed

LEMMA SettledFresh ==
  ASSUME BackInv, FreshNow, x' \in Exchange, NEW t \in Tasks, NEW r \in call[t].want \ {"join"}, NEW a, NEW w \in Wires,
         OldViews(wire, w), Settle(t, r, a, w), Shows(t, r, a)
  PROVE  FreshThen
  <1>1. script \in Scripts /\ GoodCalls(call) /\ Runner(call, running) /\ wire \in Wires
    BY DEF BackInv, TypeInv
  <1>2. FreshInv(call, wire, cache, crossed, seen, Snap)
    BY DEF FreshNow
  <1>3. Snap' \in Views
    BY SnapNext
  <1> QED
    BY <1>1, <1>2, <1>3, FreshSettle DEF FreshThen

LEMMA ExecuteFresh ==
  ASSUME BackInv, FreshNow, NEW i \in DOMAIN wire, Execute(i)
  PROVE  FreshThen
  <1> SUFFICES ASSUME NEW l, l = wire[i], NEW t, t = l.task, NEW w, w = RemoveAt(wire, i)
               PROVE  FreshThen
    OBVIOUS
  <1>1. x \in Exchange /\ wire \in Wires /\ effects \in SUBSET EffectSet
    BY DEF BackInv, TypeInv
  <1>2. l \in LineSet /\ t \in Tasks
    BY <1>1, LineIs
  <1>3. /\ Effect(l)
        /\ IF BothLegs(l)
           THEN wire' = [wire EXCEPT ![i].req = "protect"] /\ Continue(t, call[t])
           ELSE IF Awaits([l EXCEPT !.req = Asked(l)]) THEN Settle(t, Asked(l), Reported(l), w)
           ELSE wire' = w /\ Continue(t, call[t])
    BY DEF Execute, BothLegs, Asked, Reported
  <1>4. x' \in Exchange
    BY <1>1, <1>2, <1>3, EffectIs
  <1>5. w \in Wires /\ OldViews(wire, w)
    BY <1>1, RemoveIs, RemoveViews
  <1>6. CASE BothLegs(l)
    <2>1. wire' = LegLine(wire, i) /\ Continue(t, call[t])
      BY <1>3, <1>6 DEF LegLine
    <2>2. OldViews(wire, wire')
      BY <1>1, <2>1, LegViews
    <2>3. wire' \in Wires
      <3>1. \A m \in LineSet : [m EXCEPT !.req = "protect"] \in LineSet
        BY DEF LineSet, Reqs
      <3>2. [wire[i] EXCEPT !.req = "protect"] \in LineSet
        BY <1>2, <3>1
      <3> QED
        BY <1>1, <2>1, <3>2 DEF LegLine, Wires
    <2> QED
      BY <1>2, <1>4, <2>1, <2>2, <2>3, FreshStays
  <1>7. CASE ~BothLegs(l) /\ ~Awaits([l EXCEPT !.req = Asked(l)])
    <2>1. wire' = w /\ Continue(t, call[t])
      BY <1>3, <1>7
    <2> QED
      BY <1>2, <1>4, <1>5, <2>1, FreshStays
  <1>8. CASE ~BothLegs(l) /\ Awaits([l EXCEPT !.req = Asked(l)])
    <2>1. Settle(t, Asked(l), Reported(l), w)
      BY <1>3, <1>8
    <2>2. call[t].n = l.n /\ Asked(l) \in call[t].want \ {"join"}
      BY <1>2, <1>8 DEF Awaits, LineSet, Reqs, Asked
    <2>3. Shows(t, Asked(l), Reported(l))
      BY <1>2, <2>2, ExecuteShows
    <2> QED
      BY <1>2, <1>4, <1>5, <2>1, <2>2, <2>3, SettledFresh
  <1> QED
    BY <1>6, <1>7, <1>8

LEMMA FailsFresh ==
  ASSUME BackInv, FreshNow, NEW i \in DOMAIN wire, NEW k \in {"local", "rejected", "torn", "garbled"}, Fails(i, k)
  PROVE  FreshThen
  <1> SUFFICES ASSUME NEW l, l = wire[i], NEW t, t = l.task, NEW w, w = RemoveAt(wire, i), NEW a, a = Answer(k, k = "rejected"),
                      NEW r, r = Asked(l)
               PROVE  FreshThen
    OBVIOUS
  <1>1. x \in Exchange /\ wire \in Wires /\ effects \in SUBSET EffectSet
    BY DEF BackInv, TypeInv
  <1>2. l \in LineSet /\ t \in Tasks
    BY <1>1, LineIs
  <1>3. Awaits([l EXCEPT !.req = r]) /\ (Effect(l) \/ x' = x) /\ Settle(t, r, a, w)
    BY DEF Fails, Asked, exchangeVars
  <1>4. x' \in Exchange
    BY <1>1, <1>2, <1>3, EffectIs
  <1>5. w \in Wires /\ OldViews(wire, w)
    BY <1>1, RemoveIs, RemoveViews
  <1>6. r \in call[t].want \ {"join"}
    BY <1>2, <1>3 DEF Awaits, LineSet, Reqs, Asked
  <1>7. Shows(t, r, a)
    <2>1. a.kind # "ok"
      BY DEF Answer
    <2> QED
      BY <2>1, FailureShows
  <1> QED
    BY <1>2, <1>3, <1>4, <1>5, <1>6, <1>7, SettledFresh

LEMMA BoastsFresh ==
  ASSUME BackInv, FreshNow, NEW i \in DOMAIN wire, Boasts(i)
  PROVE  FreshThen
  <1> DEFINE told == IF wire[i].req = "protect" THEN [entry |-> "filled", stop |-> "submitted"] ELSE "submitted"
  <1> SUFFICES ASSUME NEW l, l = wire[i], NEW t, t = l.task, NEW w, w = RemoveAt(wire, i), NEW a, a = Answer("ok", told),
                      NEW r, r = Asked(l)
               PROVE  FreshThen
    OBVIOUS
  <1>1. x \in Exchange /\ wire \in Wires
    BY DEF BackInv, TypeInv
  <1>2. l \in LineSet /\ t \in Tasks
    BY <1>1, LineIs
  <1>3. x' = x /\ l.req \in {"algo", "protect"} /\ Awaits([l EXCEPT !.req = r]) /\ Settle(t, r, a, w)
    BY DEF Boasts, Asked
  <1>4. x' \in Exchange
    BY <1>1, <1>3
  <1>5. w \in Wires /\ OldViews(wire, w)
    BY <1>1, RemoveIs, RemoveViews
  <1>6. r \in call[t].want \ {"join"} /\ r \in {"algo", "openprot"}
    BY <1>2, <1>3 DEF Awaits, LineSet, Reqs, Asked
  <1>7. Shows(t, r, a)
    <2>1. ~Reading(call[t])
      BY <1>2, <1>6, ReadsAwait
    <2> QED
      BY <2>1 DEF Shows
  <1> QED
    BY <1>2, <1>3, <1>4, <1>5, <1>6, <1>7, SettledFresh

LEMMA TimerFresh ==
  ASSUME BackInv, FreshNow, NEW t \in Tasks, Timer(t)
  PROVE  FreshThen
  <1> SUFFICES ASSUME NEW a, a = Answer("lost", FALSE) PROVE FreshThen
    OBVIOUS
  <1>1. x \in Exchange /\ wire \in Wires
    BY DEF BackInv, TypeInv
  <1>2. x' \in Exchange
    BY <1>1 DEF Timer
  <1>3. PICK r \in call[t].want \ {"join"} :
           \/ Settle(t, r, a, wire)
           \/ \E i \in OwnLine(t, r) : Settle(t, r, a, RemoveAt(wire, i))
    BY DEF Timer
  <1>4. Shows(t, r, a)
    <2>1. a.kind # "ok"
      BY DEF Answer
    <2> QED
      BY <2>1, FailureShows
  <1>5. CASE Settle(t, r, a, wire)
    <2>1. OldViews(wire, wire)
      BY DEF OldViews
    <2> QED
      BY <1>1, <1>2, <1>4, <1>5, <2>1, SettledFresh
  <1>6. CASE \E i \in OwnLine(t, r) : Settle(t, r, a, RemoveAt(wire, i))
    <2>1. PICK i \in OwnLine(t, r) : Settle(t, r, a, RemoveAt(wire, i))
      BY <1>6
    <2>2. i \in DOMAIN wire
      BY DEF OwnLine
    <2>3. RemoveAt(wire, i) \in Wires /\ OldViews(wire, RemoveAt(wire, i))
      BY <1>1, <2>2, RemoveIs, RemoveViews
    <2> QED
      BY <1>2, <1>4, <2>1, <2>3, SettledFresh
  <1> QED
    BY <1>3, <1>5, <1>6

LEMMA LooksFresh ==
  ASSUME BackInv, FreshNow, NEW i \in DOMAIN wire, Looks(i)
  PROVE  FreshThen
  <1>1. wire \in Wires /\ GoodCalls(call) /\ x \in Exchange
    BY DEF BackInv, TypeInv
  <1>2. /\ kind = "agent" /\ wire' = LookLine(wire, i, Snap)
        /\ x' = x /\ call' = call /\ cache' = cache /\ crossed' = crossed /\ log' = log /\ seen' = seen
    BY DEF Looks, LookLine, cacheVars, Value, Snap
  <1>3. DOMAIN wire' = DOMAIN wire /\ \A j \in DOMAIN wire : j # i => wire'[j] = wire[j]
    BY <1>2 DEF LookLine
  <1>4. wire'[i].task = wire[i].task /\ wire'[i].n = wire[i].n /\ wire'[i].view[1] = Snap
    <2>1. wire'[i] = [wire[i] EXCEPT !.view = <<Snap>>]
      BY <1>2 DEF LookLine
    <2>2. wire[i] \in LineSet
      BY <1>1, LineIs
    <2>3. ASSUME NEW l \in LineSet, NEW v, NEW m, m = [l EXCEPT !.view = v] PROVE m.task = l.task /\ m.n = l.n /\ m.view = v
      BY <2>3 DEF LineSet
    <2>4. wire'[i].task = wire[i].task /\ wire'[i].n = wire[i].n /\ wire'[i].view = <<Snap>>
      BY <2>1, <2>2, <2>3
    <2> QED
      BY <2>4
  <1>5. FreshInv(call, wire, cache, crossed, seen, Snap)
    BY DEF FreshNow
  <1>6. LineFresh(wire'[i], call)
    <2>1. wire[i].task \in Tasks
      BY <1>1, LineIs
    <2> QED
      BY <1>4, <1>5, <2>1 DEF LineFresh, FreshInv, Held, Reading
  <1>7. LinesFresh(wire', call)
    <2>1. \A j \in DOMAIN wire : wire[j].view # <<>> => LineFresh(wire[j], call)
      BY <1>5 DEF FreshInv, LinesFresh
    <2> QED
      BY <1>2, <1>3, <1>6, <2>1 DEF LinesFresh
  <1>8. Snap' = Snap
    BY <1>2 DEF Snap
  <1>9. FreshInv(call, wire', cache, crossed, seen, Snap)
    BY <1>5, <1>7 DEF FreshInv
  <1> QED
    BY <1>2, <1>8, <1>9 DEF FreshThen

LEMMA TradesFresh ==
  ASSUME BackInv, FreshNow, Trades
  PROVE  FreshThen
  <1>1. wire \in Wires /\ GoodCalls(call) /\ x \in Exchange
    BY DEF BackInv, TypeInv
  <1>2. /\ cache' = cache /\ crossed' = crossed /\ log' = log /\ seen' = seen \cup {Snap'} /\ wire' = wire
        /\ call' = [u \in Tasks |-> IF Busy(u) THEN Since(call[u], Snap') ELSE call[u]]
    BY DEF Trades, cacheVars, Since
  <1>3. Snap' \in Views
    <2>1. x' \in Exchange
      BY <1>1, TradesIs DEF Trades
    <2> QED
      BY <2>1, SnapNext
  <1>4. FreshInv(call, wire, cache, crossed, seen, Snap)
    BY DEF FreshNow
  <1>5. ASSUME NEW u \in Tasks
        PROVE  /\ call'[u].op = call[u].op /\ call'[u].n = call[u].n
               /\ call'[u].since = IF call[u].op # "none" THEN call[u].since \cup {Snap'} ELSE call[u].since
               /\ call'[u].want = {"join"} => call[u].want = {"join"}
               /\ GotFresh(call'[u])
    <2>1. GoodCall(call[u]) /\ GotFresh(call[u])
      BY <1>1, <1>4 DEF GoodCalls, FreshInv
    <2>2. CASE Busy(u)
      <3>1. call'[u] = Since(call[u], Snap')
        BY <1>2, <2>2
      <3>2. /\ call'[u].op = call[u].op /\ call'[u].n = call[u].n /\ call'[u].want = call[u].want /\ call'[u].got = call[u].got
            /\ call'[u].since = call[u].since \cup {Snap'}
        BY <1>3, <2>1, <3>1, SinceIs DEF Same
      <3>3. call[u].since \subseteq call'[u].since
        BY <3>2
      <3>4. GotFresh(call'[u])
        BY <2>1, <3>2, <3>3, GotKept
      <3> QED
        BY <2>2, <3>2, <3>4 DEF Busy
    <2>3. CASE ~Busy(u)
      <3>1. call'[u] = call[u]
        BY <1>2, <2>3
      <3> QED
        BY <2>1, <2>3, <3>1 DEF Busy
    <2> QED
      BY <2>2, <2>3
  <1>6. Advance(call, call', {}, Snap')
    BY <1>5 DEF Advance
  <1>7. Sees(seen, seen', Snap') /\ CacheStep(cache, crossed, cache', crossed', seen, seen') /\ OldViews(wire, wire)
    BY <1>2 DEF Sees, CacheStep, OldViews
  <1>8. {} \in SUBSET Tasks /\ \A i \in DOMAIN wire : wire[i].task \in Tasks
    BY <1>1, LineIs
  <1>9. FreshInv(call', wire, cache', crossed', seen', Snap')
    BY <1>4, <1>6, <1>7, <1>8, AdvanceFresh
  <1> QED
    BY <1>2, <1>9 DEF FreshThen

LEMMA ChildExitsFresh ==
  ASSUME BackInv, FreshNow, ChildExits
  PROVE  FreshThen
  <1> DEFINE ts == {u \in Tasks : Busy(u)}
             entry(u) == [task |-> u, n |-> call[u].n, op |-> call[u].op,
                          out |-> Verdict(call[u].op, call[u].stage, {}, Orphan(call[u]))[2], fresh |-> TRUE, late |-> FALSE]
  <1>1. wire \in Wires /\ GoodCalls(call)
    BY DEF BackInv, TypeInv
  <1>2. /\ kind = "demo" /\ x' = x /\ wire' = <<>> /\ cache' = cache /\ crossed' = crossed
        /\ seen' \in {{Snap}, seen}
        /\ log' = log \cup {entry(u) : u \in ts}
        /\ call' = [u \in Tasks |-> IF Busy(u) THEN [Idle EXCEPT !.n = call[u].n] ELSE call[u]]
    BY DEF ChildExits, Orphan, cacheVars
  <1>3. \A e \in log' \ log : e.fresh \/ e.late
    BY <1>2
  <1>4. FreshInv(call, wire, cache, crossed, seen, Snap)
    BY DEF FreshNow
  <1>5. Snap' = Snap /\ Snap \in seen
    BY <1>2, <1>4 DEF Snap, FreshInv, Held
  <1> HIDE DEF entry
  <1>6. ASSUME NEW u \in ts PROVE call'[u].op = "none" /\ call'[u].want = {}
    <2>1. GoodCall(call[u]) /\ call'[u] = [Idle EXCEPT !.n = call[u].n]
      BY <1>1, <1>2 DEF GoodCalls
    <2> QED
      BY <2>1, FreeIs, ZenonT(40)
  <1>7. ASSUME NEW u \in Tasks \ ts PROVE call'[u] = call[u] /\ call[u].op = "none"
    BY <1>2 DEF Busy
  <1>8. Advance(call, call', ts, Snap)
    <2>1. \A u \in Tasks : GotFresh(call[u])
      BY <1>4 DEF FreshInv
    <2> QED
      BY <1>6, <1>7, <2>1 DEF Advance
  <1>9. Sees(seen, seen', Snap)
    BY <1>2, <1>5 DEF Sees
  <1>10. CacheStep(cache, crossed, cache', crossed', seen, seen') /\ OldViews(wire, wire')
    BY <1>2 DEF CacheStep, OldViews
  <1>11. (\A i \in DOMAIN wire : wire[i].task \in Tasks) /\ (\A i \in DOMAIN wire' : wire'[i].task \in Tasks)
    BY <1>1, <1>2, LineIs
  <1>12. ts \in SUBSET Tasks
    OBVIOUS
  <1> HIDE DEF ts
  <1>13. FreshInv(call', wire', cache', crossed', seen', Snap)
    BY <1>4, <1>8, <1>9, <1>10, <1>11, <1>12, AdvanceFresh
  <1> QED
    BY <1>3, <1>5, <1>13 DEF FreshThen

\* Steps that change no call and send nothing; the cache may be dropped.
LEMMA QuietFresh ==
  ASSUME FreshNow, call' = call, log' = log, x' = x, wire' = wire, crossed' = crossed, seen' = seen, cache' \in {cache, <<>>}
  PROVE  FreshThen
  <1>1. Snap' = Snap
    BY DEF Snap
  <1>2. CacheFresh(cache', crossed, seen)
    BY DEF FreshNow, FreshInv, CacheFresh
  <1>3. FreshInv(call, wire, cache', crossed, seen, Snap)
    BY <1>2 DEF FreshNow, FreshInv
  <1> QED
    BY <1>1, <1>3 DEF FreshThen

\* Call d begins at t, or is answered at once.
LEMMA PutFresh ==
  ASSUME BackInv, FreshNow, NEW t \in Tasks, call[t].op = "none", NEW d, call' = Put(call, t, d), d.n = call[t].n + 1,
         \/ d.op = "none" /\ d.want = {}
         \/ d.since = seen,
         GotFresh(d), x' = x, seen' = seen, cache' = cache, crossed' = crossed, OldViews(wire, wire')
  PROVE  FreshInv(call', wire', cache', crossed', seen', Snap')
  <1>1. wire \in Wires /\ GoodCalls(call) /\ \A i \in DOMAIN wire : wire[i].n \in 1..call[wire[i].task].n
    BY DEF BackInv, TypeInv, Sane
  <1>2. call[t].n \in Nat
    BY <1>1 DEF GoodCalls, GoodCall, Record
  <1>3. call'[t] = d /\ \A u \in Tasks \ {t} : call'[u] = call[u]
    BY <1>1 DEF GoodCalls, Put
  <1>4. FreshInv(call, wire, cache, crossed, seen, Snap)
    BY DEF FreshNow
  <1>5. Snap' = Snap /\ Snap \in seen
    BY <1>4 DEF Snap, FreshInv, Held
  <1>6. ASSUME NEW u \in Tasks PROVE u # t => call'[u] = call[u]
    BY <1>3
  <1>7. Held(call', seen', Snap')
    <2>1. ASSUME NEW u \in Tasks, call'[u].op # "none" PROVE seen \subseteq call'[u].since
      <3>1. CASE u = t
        BY <1>3, <1>5, <2>1, <3>1
      <3>2. CASE u # t
        BY <1>4, <1>6, <2>1, <3>2 DEF FreshInv, Held
      <3> QED
        BY <3>1, <3>2
    <2> QED
      BY <1>5, <2>1 DEF Held
  <1>9. CacheFresh(cache', crossed', seen')
    BY <1>4 DEF FreshInv
  <1>10. ASSUME NEW j \in DOMAIN wire', wire'[j].view # <<>> PROVE kind = "agent" /\ LineFresh(wire'[j], call')
    <2>1. PICK k \in DOMAIN wire : wire'[j].task = wire[k].task /\ wire'[j].n = wire[k].n /\ wire'[j].view = wire[k].view
      BY <1>10 DEF OldViews
    <2>2. kind = "agent" /\ LineFresh(wire[k], call)
      BY <1>4, <1>10, <2>1 DEF FreshInv, LinesFresh
    <2> SUFFICES ASSUME NEW s, s = wire[k].task, NEW z, z = wire[k].view[1], Reading(call'[s]), call'[s].n = wire[k].n
                 PROVE  z \in call'[s].since
      BY <2>1, <2>2 DEF LineFresh
    <2>3. s \in Tasks /\ wire[k].n \in 1..call[s].n
      BY <1>1, LineIs
    <2>4. s # t
      BY <1>2, <1>3, <2>3
    <2>5. call'[s] = call[s]
      BY <1>6, <2>3, <2>4
    <2> QED
      BY <2>2, <2>5 DEF LineFresh
  <1>11. \A u \in Tasks : GotFresh(call'[u])
    BY <1>3, <1>4, <1>6 DEF FreshInv
  <1> QED
    BY <1>7, <1>9, <1>10, <1>11 DEF FreshInv, LinesFresh

\* What opens has nothing yet.
LEMMA OpeningFresh ==
  ASSUME kind \in Kinds, NEW op \in OpsOf(kind), NEW d, NEW n, NEW stage, NEW want, NEW since, Fields(d, op, n, stage, want, since),
         op \in {"account", "netCheck"} => want = {"join"} \/ want = Program(op)[1]
  PROVE  GotFresh(d)
  <1> SUFFICES ASSUME Reading(d), d.want # {"join"}
               PROVE  DOMAIN d.got \cup d.want = Reads /\ \A q \in DOMAIN d.got : Backed(q, d.got[q], d.since)
    BY DEF GotFresh
  <1>1. op \in {"account", "netCheck"} /\ d.want = Program(op)[1] /\ d.got = <<>>
    BY DEF Fields, Reading
  <1>2. op \in ReadOps
    BY <1>1 DEF ReadOps
  <1>3. Program(op)[1] = Reads
    BY <1>2, ProgramIs
  <1> QED
    BY <1>1, <1>3

LEMMA HitFresh ==
  ASSUME FreshNow, NEW op, op = "account", kind = "demo" \/ (kind = "agent" /\ cache # <<>>), NEW since, since = seen \cup {Snap}
  PROVE  Fresh_(HitValue(op), since) \/ crossed
  <1>1. CASE kind = "demo"
    <2> SUFFICES ASSUME NEW got, got = [r \in Program(op)[1] |-> Answer("local", FALSE)], NEW v, v = Verdict(op, 1, {}, got)
                 PROVE  Fresh_(HitValue(op), since) \/ crossed
      OBVIOUS
    <2>1. HitValue(op) = v[2]
      BY <1>1 DEF HitValue
    <2>2. v = ReadVerdict(op, {}, got)
      BY DEF Verdict
    <2>3. Program(op) = <<{"pos", "orders"}>>
      BY <1>1 DEF Program, DemoProgram
    <2>4. ReadFailed(got)
      <3>1. Program(op)[1] = {"pos", "orders"}
        BY <2>3
      <3>2. got = [r \in {"pos", "orders"} |-> Answer("local", FALSE)]
        BY <3>1
      <3>3. "pos" \in DOMAIN got /\ got["pos"] = Answer("local", FALSE)
        BY <3>2
      <3> QED
        BY <3>3 DEF ReadFailed, Answer
    <2>5. v = Done("throw")
      BY <2>2, <2>4 DEF ReadVerdict
    <2>6. v[2].word = "throw"
      BY <2>5, DoneIs
    <2> QED
      BY <2>1, <2>6 DEF Fresh_
  <1>2. CASE kind = "agent" /\ cache # <<>>
    <2>1. HitValue(op) = cache[1]
      BY <1>2 DEF HitValue
    <2>2. Fresh_(cache[1], seen) \/ crossed
      BY <1>2, SMTT(30) DEF FreshNow, FreshInv, CacheFresh
    <2> QED
      BY <2>1, <2>2, FreshMore
  <1> QED
    BY <1>1, <1>2

LEMMA BeginFresh ==
  ASSUME BackInv, FreshNow, NEW t \in Tasks, Calls(t)
  PROVE  FreshThen
  <1> SUFFICES ASSUME NEW n, n = call[t].n + 1, NEW op, op = script.ops[t][n],
                      NEW since, since = seen \cup {Snap}, NEW c, c = Opening(op, n, since)
               PROVE  FreshThen
    OBVIOUS
  <1>1. script \in Scripts /\ GoodCalls(call) /\ wire \in Wires /\ kind \in Kinds
    BY ScriptIs DEF BackInv, TypeInv
  <1>2. GoodCall(call[t])
    BY <1>1 DEF GoodCalls
  <1>3. call[t].n < Len(script.ops[t]) /\ Begin(t, op) /\ call[t].n \in Nat /\ n \in Nat
    BY <1>2 DEF Calls, GoodCall, Record
  <1>4. op \in OpsOf(kind)
    <2>1. script.ops[t] \in Seq(OpsOf(kind))
      BY <1>1, ScriptIs
    <2> QED
      BY <1>3, <2>1
  <1>5. Kept /\ call[t].op = "none" /\ Starting(t, op, n, c)
    BY <1>3, BeginIs
  <1>6. x' = x /\ seen' = seen /\ cache' = cache /\ crossed' = crossed
    BY <1>5 DEF Kept
  <1>7. Fields(c, op, n, 1, {}, since)
    BY OpeningFields
  <1>8. since = seen
    BY DEF FreshNow, FreshInv, Held
  <1>10. ASSUME NEW d, NEW stage, NEW want, Fields(d, op, n, stage, want, since), call' = Put(call, t, d), log' = log,
                op \in {"account", "netCheck"} => want = {"join"} \/ want = Program(op)[1],
                OldViews(wire, wire')
         PROVE  FreshThen
    <2>1. d.op = op /\ d.n = n /\ d.since = since
      BY <1>10 DEF Fields
    <2>2. GotFresh(d)
      BY <1>1, <1>4, <1>10, OpeningFresh
    <2>4. d.n = call[t].n + 1 /\ d.since = seen
      BY <1>8, <2>1
    <2>5. FreshInv(call', wire', cache', crossed', seen', Snap')
      BY <1>5, <1>6, <1>10, <2>2, <2>4, PutFresh
    <2> QED
      BY <1>10, <2>5 DEF FreshThen
  <1>11. ASSUME NEW rs \in SUBSET Reqs, IsFiniteSet(rs) PROVE OldViews(wire, wire \o Lines(t, n, rs))
    <2>1. OldViews(wire, wire)
      BY SMTT(30) DEF OldViews
    <2> QED
      BY <1>1, <1>3, <1>11, <2>1, AddViews
  <1>12. CASE /\ call' = Put(call, t, WithWant(c, Program(op)[1])) /\ wire' = wire \o Lines(t, n, Program(op)[1]) /\ log' = log
              /\ running' = IF kind = "agent" /\ op = "account" THEN t ELSE running
    <2> SUFFICES ASSUME NEW rs, rs = Program(op)[1], NEW d, d = WithWant(c, rs) PROVE FreshThen
      BY SMTT(30)
    <2>1. Fields(d, op, n, 1, rs, since)
      BY <1>7, PutWant
    <2>2. Stage(rs)
      BY <1>1, <1>4, StagesAre, SMTT(30)
    <2>3. call' = Put(call, t, d) /\ log' = log /\ wire' = wire \o Lines(t, n, rs)
      BY <1>12, ZenonT(40)
    <2>4. OldViews(wire, wire')
      BY <1>11, <2>2, <2>3, ZenonT(40) DEF Stage
    <2> QED
      BY <1>10, <2>1, <2>3, <2>4, Zenon
  <1>13. CASE op = "account" /\ call' = Put(call, t, WithWant(c, {"join"})) /\ wire' = wire /\ log' = log /\ running' = running
    <2> SUFFICES ASSUME NEW rs, rs = {"join"}, NEW d, d = WithWant(c, rs) PROVE FreshThen
      OBVIOUS
    <2>1. Fields(d, op, n, 1, rs, since)
      BY <1>7, PutWant
    <2>2. OldViews(wire, wire')
      BY <1>13 DEF OldViews
    <2>3. call' = Put(call, t, d) /\ log' = log
      BY <1>13
    <2> QED
      BY <1>10, <2>1, <2>2, <2>3
  <1>14. CASE /\ op = "reduce" /\ call' = Put(call, t, WithWant(WithStage(c, 2), {"reduce"}))
              /\ wire' = wire \o Lines(t, n, {"reduce"}) /\ log' = log /\ running' = running
    <2> SUFFICES ASSUME NEW rs, rs = {"reduce"}, NEW b, b = WithStage(c, 2), NEW d, d = WithWant(b, rs) PROVE FreshThen
      OBVIOUS
    <2>1. Fields(d, op, n, 2, rs, since)
      <3>1. Fields(b, op, n, 2, {}, since)
        BY <1>7, PutStage
      <3> QED
        BY <3>1, PutWant
    <2>2. rs \in SUBSET Reqs /\ IsFiniteSet(rs)
      BY FS_Singleton DEF Reqs
    <2>3. call' = Put(call, t, d) /\ log' = log /\ wire' = wire \o Lines(t, n, rs) /\ op = "reduce"
      BY <1>14
    <2>4. OldViews(wire, wire')
      BY <1>11, <2>2, <2>3
    <2> QED
      BY <1>10, <2>1, <2>3, <2>4
  <1>15. CASE /\ kind = "demo" \/ (kind = "agent" /\ op \in {"account", "reduce", "getOrder"})
              /\ call' = Put(call, t, WithN(call[t], n)) /\ wire' = wire /\ running' = running
              /\ op = "account" => kind = "demo" \/ cache # <<>>
              /\ \E entry : /\ Entered(entry, op, t, n, HitValue(op)) /\ log' = log \cup {entry}
                            /\ (op = "account" => Fresh_(HitValue(op), c.since) \/ crossed) => entry.fresh \/ entry.late
    <2> SUFFICES ASSUME NEW d, d = WithN(call[t], n), NEW entry, log' = log \cup {entry},
                        (op = "account" => Fresh_(HitValue(op), c.since) \/ crossed) => entry.fresh \/ entry.late
                 PROVE  FreshThen
      BY <1>15
    <2>1. ASSUME NEW k, k = call[t] PROVE GoodCall(d) /\ d.op = "none" /\ d.n = n
      <3>1. GoodCall(k) /\ k.op = "none" /\ n \in Nat /\ d = WithN(k, n)
        BY <1>2, <1>3, <1>5, <2>1
      <3> QED
        BY <3>1, FreeAt
    <2>2. d.want = {} /\ GotFresh(d)
      BY <2>1 DEF GoodCall, GotFresh, Reading
    <2>3. op = "account" => Fresh_(HitValue(op), c.since) \/ crossed
      <3>1. c.since = since
        BY <1>7, Zenon DEF Fields
      <3>2. op = "account" => Fresh_(HitValue(op), since) \/ crossed
        BY <1>15, HitFresh
      <3> QED
        BY <3>1, <3>2
    <2>4. \A e \in log' \ log : e.fresh \/ e.late
      BY <2>3, SMTT(30)
    <2>5. OldViews(wire, wire') /\ call' = Put(call, t, d)
      BY <1>15 DEF OldViews
    <2>6. d.n = call[t].n + 1
      BY <2>1
    <2>7. FreshInv(call', wire', cache', crossed', seen', Snap')
      BY <1>5, <1>6, <2>1, <2>2, <2>5, <2>6, PutFresh
    <2> QED
      BY <2>4, <2>7, SMTT(30) DEF FreshThen
  <1> QED
    BY <1>5, <1>12, <1>13, <1>14, <1>15, Zenon DEF Starting

LEMMA FreshInit == ASSUME BackendInit PROVE FreshNow
  <1>1. wire = <<>> /\ cache = <<>> /\ log = {} /\ seen = {Snap} /\ \A t \in Tasks : call[t] = Idle
    BY DEF BackendInit
  <1>2. Idle.op = "none"
    BY DEF Idle
  <1> QED
    BY <1>1, <1>2 DEF FreshNow, FreshInv, Held, CacheFresh, LinesFresh, GotFresh, Reading

\* The script stays, and with it what the kind of the backend decides.
LEMMA FreshLater ==
  ASSUME FreshNow, FreshThen, script' = script
  PROVE  FreshNow'
  <1>1. kind' = kind
    BY DEF kind
  <1>2. \A e \in log' : e.fresh \/ e.late
    BY DEF FreshNow, FreshThen
  <1>3. Held(call, seen, Snap)'
    BY DEF FreshThen, FreshInv, Held
  <1>5. CacheFresh(cache, crossed, seen)'
    BY <1>1 DEF FreshThen, FreshInv, CacheFresh
  <1>6. LinesFresh(wire, call)'
    BY <1>1 DEF FreshThen, FreshInv, LinesFresh, LineFresh
  <1>7. (\A t \in Tasks : GotFresh(call[t]))'
    BY <1>1 DEF FreshThen, FreshInv, GotFresh, Reads
  <1> QED
    BY <1>2, <1>3, <1>5, <1>6, <1>7 DEF FreshNow, FreshInv

LEMMA FreshNext ==
  ASSUME BackInv, FreshNow, [BackendNext]_backendVars
  PROVE  FreshNow'
  <1>0. script' = script
    BY Zenon DEF BackendNext, Calls, Begin, Timer, Execute, Fails, Boasts, Looks, ChildExits, CacheExpires, Trades, backendVars
  <1> SUFFICES FreshThen
    BY <1>0, FreshLater
  <1>1. CASE \E t \in Tasks : Calls(t)
    BY <1>1, BeginFresh
  <1>2. CASE \E t \in Tasks : Timer(t)
    BY <1>2, TimerFresh
  <1>3. CASE \E i \in DOMAIN wire : Execute(i)
    BY <1>3, ExecuteFresh
  <1>4. CASE \E i \in DOMAIN wire : \E k \in {"local", "rejected", "torn", "garbled"} : Fails(i, k)
    BY <1>4, FailsFresh
  <1>5. CASE \E i \in DOMAIN wire : Boasts(i)
    BY <1>5, BoastsFresh
  <1>6. CASE \E i \in DOMAIN wire : Looks(i)
    BY <1>6, LooksFresh
  <1>7. CASE ChildExits
    BY <1>7, ChildExitsFresh
  <1>8. CASE CacheExpires
    BY <1>8, QuietFresh DEF CacheExpires
  <1>9. CASE Trades
    BY <1>9, TradesFresh
  <1>10. CASE UNCHANGED backendVars
    BY <1>10, QuietFresh DEF backendVars
  <1> QED
    BY <1>1, <1>2, <1>3, <1>4, <1>5, <1>6, <1>7, <1>8, <1>9, <1>10 DEF BackendNext

\* What an account read returns is no older than the last write that returned
\* before the read began: always in a backend without a cache, and in
\* AgentMcpBackend for the reader whose run it is (execution-agent.ts).  A reader
\* that joined the run of another, and one the cache answered, may see what is
\* older only if a write returned between the start of that run and its end.
THEOREM ReadsStayFresh == BackendSpec => []ReadsAreFresh
  <1>1. BackendInit => BackInv /\ FreshNow
    BY BackInit, FreshInit
  <1>2. (BackInv /\ FreshNow) /\ [BackendNext]_backendVars => (BackInv /\ FreshNow)'
    BY BackNext, FreshNext
  <1>3. BackInv /\ FreshNow => ReadsAreFresh
    BY DEF FreshNow, ReadsAreFresh
  <1> QED
    BY <1>1, <1>2, <1>3, PTL DEF BackendSpec
=============================================================================
