-------------------------------- MODULE Desk --------------------------------
(***************************************************************************)
(* The desk around the brain queue: packages/gateway/src/demo/runtime.ts   *)
(* with radar.ts and graph.ts.  Timers, market moves and people ask for    *)
(* judgments; a judgment proposes or reviews a thread; proposals, chat and *)
(* the order panel open threads beside each other; a position may be       *)
(* adopted and the execution backend switched meanwhile.  What an order    *)
(* does at the exchange is in TradeLoop: here an entry that was sent       *)
(* fills, and a position leaves.                                           *)
(*                                                                         *)
(* Synchronous code that asks for several judgments is a list of requests  *)
(* in `asks`, and nothing else runs before the list is empty.              *)
(***************************************************************************)
EXTENDS BrainQueue, JudgmentGraph, Integers, FiniteSets, SequencesExt

CONSTANTS
    Symbols,            \* the watch list, in its order: a sequence
    Channels,           \* execution backends of the process
    ThreadIds,          \* 1..n: rows of the thread table
    Plays,              \* [parts, asks, max_open_threads, daily_judgment_cap]: who is active in
                        \* a behaviour, the bound on its triggers, and limits of the settings
    max_opens_per_day,
    Losses, Transfers,  \* percent of the equity of 100
    LossStop            \* daily_loss_stop_pct

ASSUME DeskAssumption ==
    /\ Symbols \in Seq(Range(Symbols)) /\ Channels # {}
    /\ IsFiniteSet(ThreadIds) /\ ThreadIds \subseteq Nat \ {0}
    /\ \A p \in Plays : /\ p.asks \in Nat
                         /\ p.max_open_threads \in Nat \ {0} /\ p.daily_judgment_cap \in Nat \ {0}
    /\ max_opens_per_day \in Nat \ {0}
    /\ Losses \subseteq 1..99 /\ Transfers \subseteq Int /\ LossStop \in 1..99

VARIABLES
    play,      \* the parts that are active
    thr,       \* demo_threads: [status, symbol, channel, source, step]
    channel,   \* this.backend.kind
    settings,  \* [paused, execution, watch]
    halted,
    acct,      \* this.account: [channel, held, eq]
    held,      \* the exchange, per channel: symbols with a position
    asks,      \* requests of the running synchronous code
    job,       \* the episode of the running job
    used,      \* episodes of today
    tasks,     \* requests of people in flight: order panel, adoption, switch
    timers,    \* armed timers: "info", "infoRetry", "radar", "kline"
    screen,    \* radar: "idle" or the screening in flight
    money,     \* equity, its start of the day, and rows older than the day
    misfits,   \* history: effects of reviews on a thread of another status
    count      \* triggers so far

deskVars == <<play, thr, channel, settings, halted, acct, held, asks, job, used, tasks, timers,
              screen, money, misfits, count>>
allVars == <<vars, deskVars>>

Watched == Range(Symbols)
Key(kind, of) == [kind |-> kind, of |-> of]
scanKey(s) == Key("scan", s)
reviewKey(i) == Key("review", ToString(i))
infoKey == Key("info", "none")

\* What the desk enqueues: chat:<ms> is the only key that is not named above.
ASSUME DeskKeysAssumption ==
    /\ IsFiniteSet(Keys) /\ \A k \in ChatKeys : k.kind = "chat"
    /\ Keys = {scanKey(s) : s \in Watched} \cup {reviewKey(i) : i \in ThreadIds} \cup {infoKey} \cup ChatKeys

\* A thread row.  step is how far its opening has come: the intent waits for
\* approval, the client order id is saved, the checks are passed, the entry is sent.
NoThread == [status |-> "none", symbol |-> "none", channel |-> "none", source |-> "none", step |-> "none"]
isOpen(t) == t.status \in {"pending_entry", "in_position"}
openThreads == {i \in ThreadIds : isOpen(thr[i]) /\ thr[i].channel = channel}
Free == {i \in ThreadIds : thr[i].status = "none"}
Next_id == CHOOSE i \in Free : \A j \in Free : i <= j

NoJob == [phase |-> "none", seen |-> "none", thread |-> 0, symbol |-> "none", source |-> "agent", allowed |-> {}]
IdleTask == [pc |-> "idle", symbol |-> "none", to |-> "none"]

AccountNow == [channel |-> channel, held |-> held[channel], eq |-> money.eq]

Quiet == asks = <<>>
In(part) == part \in play.parts /\ Quiet
Trigger(part) == In(part) /\ count < play.asks /\ count' = count + 1

DeskInit ==
    /\ Init
    /\ play \in Plays
    /\ thr = [i \in ThreadIds |-> NoThread]
    /\ channel = CHOOSE c \in Channels : TRUE
    /\ settings = [paused |-> FALSE, execution |-> channel, watch |-> Watched]
    /\ halted = FALSE
    /\ acct = [channel |-> channel, held |-> {}, eq |-> 100]
    /\ held = [c \in Channels |-> {}]
    /\ asks = <<>> /\ job = NoJob /\ used = 0
    /\ tasks = [p \in {"order", "adopt", "switch", "halt"} |-> IdleTask]
    /\ timers = {"info", "radar", "kline"} /\ screen = "idle"
    /\ money = [eq |-> 100, start |-> 100, moved |-> FALSE, lost |-> 0, day |-> TRUE, old |-> {}, ended |-> {}]
    /\ misfits = {} /\ count = 0

-----------------------------------------------------------------------------
(***************************************************************************)
(* Asking for judgments.                                                   *)
(***************************************************************************)
capReached == used >= play.daily_judgment_cap

\* scan, reviewThread and runInfoNow up to the queue.
ScanAllowed(s) == /\ ~halted /\ ~settings.paused
                  /\ \A i \in openThreads : thr[i].symbol # s
                  /\ ~capReached
ReviewAllowed(i) == isOpen(thr[i]) /\ ~capReached

\* The job that starts saves its episode, with the thread as it is now, in the
\* same stretch.
JobOf(k) ==
    IF k = None THEN NoJob
    ELSE IF k.kind = "review"
    THEN LET i == CHOOSE j \in ThreadIds : reviewKey(j) = k IN
         [NoJob EXCEPT !.phase = "read", !.thread = i, !.seen = thr'[i].status, !.symbol = thr'[i].symbol]
    ELSE [NoJob EXCEPT !.phase = IF k.kind = "scan" THEN "read" ELSE k.kind,
                       !.symbol = k.of, !.source = IF k.kind = "chat" THEN "chat" ELSE "agent"]
Queued ==
    /\ job' = IF running' = running THEN job ELSE JobOf(running')
    /\ used' = IF running' # running /\ running' # None /\ running'.kind \in {"scan", "review"}
               THEN used + 1 ELSE used
Enqueue(k) ==
    IF Accepts(k) THEN enqueue(k) /\ Queued ELSE UNCHANGED <<vars, job, used>>

\* The next request of the running synchronous code.
Ask ==
    /\ asks # <<>>
    /\ UNCHANGED thr
    /\ LET k == Head(asks)
           ok == IF k.kind = "scan" THEN ScanAllowed(k.of)
                 ELSE ReviewAllowed(CHOOSE j \in ThreadIds : reviewKey(j) = k) IN
       IF ok THEN Enqueue(k) ELSE UNCHANGED <<vars, job, used>>
    /\ asks' = Tail(asks)
    /\ UNCHANGED <<play, channel, settings, halted, acct, held, tasks, timers, screen, money, misfits, count>>

ReviewsOf(ids) == SetToSeq({reviewKey(i) : i \in ids})
\* The scans of the symbols ss, in the order of the watch list.
ScansOf(ss) ==
    LET places == {n \in DOMAIN Symbols : Symbols[n] \in ss}
        inOrder == {f \in [1..Cardinality(places) -> places] : \A a, b \in DOMAIN f : a < b => f[a] < f[b]}
    IN  {[n \in DOMAIN f |-> scanKey(Symbols[f[n]])] : f \in inOrder}

\* onKlineClose: the threads a trigger, the heartbeat or a near stop wakes are
\* reviewed; then, unless paused or halted, symbols without a thread are scanned.
onKlineClose ==
    /\ Trigger("kline") /\ "kline" \in timers
    /\ \E woken \in SUBSET openThreads, hit \in SUBSET settings.watch :
         \E scans \in ScansOf(IF settings.paused \/ halted THEN {}
                             ELSE {s \in hit : \A i \in openThreads : thr[i].symbol # s}) :
             asks' = ReviewsOf(woken) \o scans
    /\ UNCHANGED <<vars, play, thr, channel, settings, halted, acct, held, job, used, tasks, timers, screen,
                   money, misfits>>

\* onFastMove: the thread of the symbol is reviewed, else the symbol is scanned.
onFastMove(s) ==
    /\ Trigger("move") /\ ~settings.paused /\ ~halted
    /\ LET mine == {i \in openThreads : thr[i].symbol = s} IN
       asks' = IF mine # {} THEN ReviewsOf({CHOOSE i \in mine : TRUE})
               ELSE IF s \in settings.watch THEN <<scanKey(s)>> ELSE <<>>
    /\ UNCHANGED <<vars, play, thr, channel, settings, halted, acct, held, job, used, tasks, timers, screen,
                   money, misfits>>

\* sendChat: the user's turn jumps the queue.
sendChat ==
    /\ Trigger("chat")
    /\ UNCHANGED thr
    /\ \E k \in ChatKeys : enqueue(k) /\ Queued
    /\ UNCHANGED <<play, channel, settings, halted, acct, held, asks, tasks, timers, screen, money, misfits>>

\* The timer of the information officer: when paused or refused it looks again
\* after the interval, otherwise the job re-arms it as it ends.
InfoDue ==
    /\ Trigger("info") /\ "info" \in timers
    /\ UNCHANGED thr
    /\ LET runs == ~settings.paused /\ ~capReached /\ Accepts(infoKey) IN
       /\ IF runs THEN enqueue(infoKey) /\ Queued ELSE UNCHANGED <<vars, job, used>>
       /\ timers' = (timers \ {"info"}) \cup (IF runs THEN {} ELSE {"infoRetry"})
    /\ UNCHANGED <<play, channel, settings, halted, acct, held, asks, tasks, screen, money, misfits>>
scheduleInfo(ts) == (ts \ {"infoRetry"}) \cup {"info"}
InfoRetry ==
    /\ In("info") /\ "infoRetry" \in timers
    /\ timers' = scheduleInfo(timers)
    /\ UNCHANGED <<vars, play, thr, channel, settings, halted, acct, held, asks, job, used, tasks, screen, money,
                   misfits, count>>
\* runInfoNow from the page, whatever the timer does.
runInfoNow ==
    /\ Trigger("info") /\ ~capReached
    /\ UNCHANGED thr
    /\ enqueue(infoKey) /\ Queued
    /\ UNCHANGED <<play, channel, settings, halted, acct, held, asks, tasks, timers, screen, money, misfits>>

-----------------------------------------------------------------------------
\* openingBlockers and preflightOpen; self is the row that is being opened.
opensToday(self) ==
    Cardinality({i \in ThreadIds \ (money.old \cup {self}) : /\ thr[i].status \notin {"none", "canceled"} /\ thr[i].source # "manual"
                                            /\ thr[i].step \in {"saved", "cleared", "sent"}})
dailyLossHit(a) == a.channel = channel /\ (money.start - a.eq) * 100 >= LossStop * money.start
\* Mutant: the open threads are not counted.
openingBlockedUncounted(s, a, self) ==
    LET others == openThreads \ {self} IN
    \/ \E i \in others : thr[i].symbol = s
    \/ opensToday(self) >= max_opens_per_day
    \/ dailyLossHit(a)
openingBlocked(s, a, self) ==
    LET others == openThreads \ {self} IN
    \/ \E i \in others : thr[i].symbol = s
    \/ Cardinality(others) >= play.max_open_threads
    \/ opensToday(self) >= max_opens_per_day
    \/ dailyLossHit(a)
preflightBlocked(s, a, self) ==
    halted \/ settings.paused \/ s \in a.held \/ openingBlocked(s, a, self)

-----------------------------------------------------------------------------
(***************************************************************************)
(* The running job: runEpisode and executeEpisode.                         *)
(***************************************************************************)
OthersStay == UNCHANGED <<play, channel, settings, halted, held, tasks, screen, money, count>>
JobGoes(j) == job' = j /\ UNCHANGED <<vars, used>>
EndJob == finishJob /\ Queued

\* Market data and the account are read, and the context is built: the market data
\* may be old, the symbol watched only.
ReadAccount(stale, watch_only) ==
    /\ Quiet /\ job.phase = "read"
    /\ acct' = AccountNow
    /\ JobGoes([job EXCEPT !.phase = "think",
                           !.allowed = allowedActions(nodeFor(IF job.thread = 0 THEN "none" ELSE job.seen, halted, stale, watch_only))])
    /\ UNCHANGED <<thr, asks, timers, misfits>> /\ OthersStay

\* The officer's job ends, also when it throws: its timer is armed again.
\* Mutant: the timer is armed on success only.
RearmedIfDone(ts) == ts
Rearmed(ts) == IF running = infoKey THEN scheduleInfo(ts) ELSE ts

\* A read fails, or the brain does: the episode is saved as failed.
EpisodeFails ==
    /\ Quiet /\ job.phase \in {"read", "think", "again", "open", "info", "chat"}
    /\ UNCHANGED thr
    /\ EndJob
    /\ timers' = Rearmed(timers)
    /\ UNCHANGED <<acct, asks, misfits>> /\ OthersStay

\* The answer is outside the contract: one repair, then HOLD or NO_TRADE.
BadAnswer ==
    /\ Quiet /\ job.phase = "think"
    /\ JobGoes([job EXCEPT !.phase = "again"])
    /\ UNCHANGED <<thr, acct, asks, timers, misfits>> /\ OthersStay

\* What a review does to its thread: judged on the row as it is now.
\* Mutant: the row read when the episode began.
StatusReadBefore(i) == job.seen
StatusNow(i) == thr[i].status
ReviewDecided(action) ==
    LET i == job.thread
        effect == edgeFor(StatusNow(i), action) IN
    IF ~isOpen(thr[i]) \/ effect = "none" THEN UNCHANGED <<thr, misfits>> /\ EndJob
    ELSE /\ misfits' = IF (effect = "cancel_entry") # (thr[i].status = "pending_entry")
                       THEN misfits \cup {<<effect, thr[i].status>>} ELSE misfits
         /\ \/ effect = "reduce_half" /\ UNCHANGED thr
            \/ effect # "reduce_half"
               /\ thr' = [thr EXCEPT ![i].status = IF @ = "pending_entry" THEN "canceled" ELSE "closed"]
            \/ effect # "reduce_half" /\ UNCHANGED thr  \* the exchange refused
         /\ EndJob
ScanDecided(action) ==
    /\ UNCHANGED <<thr, misfits>>
    /\ IF action = "PROPOSE" /\ ~preflightBlocked(job.symbol, acct, 0)
       THEN JobGoes([job EXCEPT !.phase = "open"])
       ELSE EndJob
Decided(action) ==
    /\ Quiet /\ job.phase \in {"think", "again"}
    /\ \/ action \in job.allowed
       \/ job.phase = "again" /\ action = IF job.thread = 0 THEN "NO_TRADE" ELSE "HOLD"
    /\ IF job.thread = 0 THEN ScanDecided(action) ELSE ReviewDecided(action)
    /\ UNCHANGED <<acct, asks, timers>> /\ OthersStay

\* openThreadFromProposal after its reads: the last check and the new row are one
\* stretch.  A chat proposal waits for approval, others do unless auto_approve is set.
NewRow(s, source, auto) ==
    [status |-> "pending_entry", symbol |-> s, channel |-> channel, source |-> source,
     step |-> IF source = "chat" \/ ~auto THEN "waiting" ELSE "saved"]
openThreadFromProposal ==
    /\ Quiet /\ job.phase = "open"
    /\ acct' = AccountNow
    /\ \/ /\ preflightBlocked(job.symbol, AccountNow, 0)
          /\ UNCHANGED thr /\ EndJob
       \/ /\ ~preflightBlocked(job.symbol, AccountNow, 0) /\ Free # {}
          /\ \E auto \in BOOLEAN :
               LET row == NewRow(job.symbol, job.source, auto) IN
               /\ thr' = [thr EXCEPT ![Next_id] = row]
               /\ IF row.step = "waiting" THEN EndJob
                  ELSE JobGoes([job EXCEPT !.phase = "opening", !.thread = Next_id])
    /\ UNCHANGED <<asks, timers, misfits>> /\ OthersStay
\* The job awaits executeOpen.
OpeningDone ==
    /\ Quiet /\ job.phase = "opening" /\ thr[job.thread].step \notin {"saved", "cleared"}
    /\ UNCHANGED thr /\ EndJob
    /\ UNCHANGED <<acct, asks, timers, misfits>> /\ OthersStay

\* A chat turn proposes a thread (propose_thread) or just talks.
ChatTurn ==
    /\ Quiet /\ job.phase = "chat"
    /\ UNCHANGED thr
    /\ \/ \E s \in Watched :
            /\ ~preflightBlocked(s, acct, 0)
            /\ job' = [job EXCEPT !.phase = "open", !.symbol = s]
            /\ used' = used + 1 /\ UNCHANGED vars    \* its episode is saved
       \/ EndJob
    /\ UNCHANGED <<acct, asks, timers, misfits>> /\ OthersStay

\* The information officer: a changed bias or a risk event wakes every thread.
\* Its reviews are queued before the job ends; the timer is armed again.
InfoDone ==
    /\ Quiet /\ job.phase = "info"
    /\ \E flipped \in BOOLEAN : asks' = IF flipped THEN ReviewsOf(openThreads) ELSE <<>>
    /\ timers' = scheduleInfo(timers)
    /\ JobGoes([job EXCEPT !.phase = "ending"])
    /\ UNCHANGED <<thr, acct, misfits>> /\ OthersStay
InfoEnds ==
    /\ Quiet /\ job.phase = "ending"
    /\ UNCHANGED thr /\ EndJob
    /\ UNCHANGED <<acct, asks, timers, misfits>> /\ OthersStay

JobStep ==
    \/ \E stale, watch_only \in BOOLEAN : ReadAccount(stale, watch_only)
    \/ EpisodeFails \/ BadAnswer \/ \E a \in Actions : Decided(a)
    \/ openThreadFromProposal \/ OpeningDone \/ ChatTurn \/ InfoDone \/ InfoEnds

-----------------------------------------------------------------------------
(***************************************************************************)
(* Opening: approval, executeOpen, the order panel, adoption.              *)
(***************************************************************************)
QueueStays == UNCHANGED <<vars, job, used>>
ThreadsOnly == QueueStays /\ UNCHANGED <<play, channel, settings, halted, held, asks, tasks, timers, screen,
                                         money, misfits, count>>

\* approveIntent, or the end of openThreadFromProposal: the id of the entry is saved.
approveIntent(i) ==
    /\ In("people") /\ thr[i].step = "waiting" /\ isOpen(thr[i]) /\ ~halted /\ ~settings.paused
    /\ thr' = [thr EXCEPT ![i].step = "saved"]
    /\ UNCHANGED acct /\ ThreadsOnly

\* executeOpen: the check before sending, then the order unless halted meanwhile.
OpenChecked(i) ==
    /\ Quiet /\ thr[i].step = "saved"
    /\ acct' = AccountNow
    /\ thr' = [thr EXCEPT ![i] =
                  IF preflightBlocked(@.symbol, AccountNow, i)
                  THEN [@ EXCEPT !.status = "canceled", !.step = "none"] ELSE [@ EXCEPT !.step = "cleared"]]
    /\ ThreadsOnly
OpenSent(i) ==
    /\ Quiet /\ thr[i].step = "cleared"
    /\ thr' = [thr EXCEPT ![i] = IF halted THEN [@ EXCEPT !.status = "canceled", !.step = "none"]
                                 ELSE [@ EXCEPT !.step = "sent"]]
    /\ UNCHANGED acct /\ ThreadsOnly

TaskGoes(p, t) ==
    /\ tasks' = [tasks EXCEPT ![p] = t]
    /\ QueueStays /\ UNCHANGED <<play, halted, held, asks, timers, screen, money, misfits>>

\* manualOrder: halted is checked at once, the rest after the reads, with the
\* account of the last poll.
manualOrder(s) ==
    /\ Trigger("people") /\ ~halted /\ tasks["order"].pc = "idle"
    /\ TaskGoes("order", [IdleTask EXCEPT !.pc = "reads", !.symbol = s])
    /\ UNCHANGED <<thr, acct, channel, settings>>
ManualPlaced ==
    /\ Quiet /\ tasks["order"].pc = "reads"
    /\ LET s == tasks["order"].symbol IN
       IF preflightBlocked(s, acct, 0) THEN UNCHANGED thr
       ELSE Free # {} /\ thr' = [thr EXCEPT ![Next_id] = NewRow(s, "manual", TRUE)]
    /\ TaskGoes("order", IdleTask)
    /\ UNCHANGED <<acct, channel, settings, count>>

\* adoptPosition: the symbol must have no thread when the account is asked for.
adoptPosition(s) ==
    /\ Trigger("adopt") /\ ~halted /\ tasks["adopt"].pc = "idle"
    /\ \A i \in openThreads : thr[i].symbol # s
    /\ TaskGoes("adopt", [IdleTask EXCEPT !.pc = "reads", !.symbol = s])
    /\ UNCHANGED <<thr, acct, channel, settings>>
Adopted ==
    /\ Quiet /\ tasks["adopt"].pc = "reads"
    /\ acct' = AccountNow
    /\ LET s == tasks["adopt"].symbol IN
       IF s \notin held[channel] THEN UNCHANGED thr
       ELSE Free # {} /\ thr' = [thr EXCEPT ![Next_id] =
                                   [NewRow(s, "manual", TRUE) EXCEPT !.status = "in_position", !.source = "adopted",
                                                               !.step = "none"]]
    /\ TaskGoes("adopt", IdleTask)
    /\ UNCHANGED <<channel, settings, count>>

-----------------------------------------------------------------------------
(***************************************************************************)
(* Settings, halt, the switch of the backend, radar.                       *)
(***************************************************************************)
\* setWorkflow keeps `execution` the backend that runs.
\* Mutant: the patch wins over the backend that runs.
setWorkflowAsAsked(w) == settings' = w
setWorkflow(w) == settings' = [w EXCEPT !.execution = channel']

Pause(p) ==
    /\ Trigger("settings") /\ settings.paused # p
    /\ UNCHANGED channel
    /\ setWorkflow([settings EXCEPT !.paused = p])
    /\ timers' = timers \cup {"radar"}     \* radar.reschedule
    /\ UNCHANGED <<vars, play, thr, halted, acct, held, asks, job, used, tasks, screen, money, misfits>>
\* The patch of an approved proposal, or of a chat, may name another backend.
SaveForm(execution) ==
    /\ Trigger("form")
    /\ UNCHANGED channel
    /\ setWorkflow([settings EXCEPT !.execution = execution])
    /\ UNCHANGED <<vars, play, thr, halted, acct, held, asks, job, used, tasks, timers, screen, money, misfits>>
\* halt refuses openings at once and closes symbol by symbol (TradeLoop has the
\* calls); then the open threads end, but for the symbols where a call failed.
halt ==
    /\ Trigger("halt") /\ tasks["halt"].pc = "idle"
    /\ halted' = TRUE
    /\ tasks' = [tasks EXCEPT !["halt"] = [IdleTask EXCEPT !.pc = "closes"]]
    /\ UNCHANGED <<vars, play, thr, channel, settings, acct, held, asks, job, used, timers, screen, money, misfits>>
HaltEnds(failed) ==
    /\ Quiet /\ tasks["halt"].pc = "closes"
    /\ held' = [held EXCEPT ![channel] = @ \cap failed]
    /\ thr' = [i \in ThreadIds |->
                 IF i \in openThreads /\ thr[i].symbol \notin failed
                 THEN [thr[i] EXCEPT !.status = IF @ = "pending_entry" THEN "canceled" ELSE "closed"]
                 ELSE thr[i]]
    /\ tasks' = [tasks EXCEPT !["halt"] = IdleTask]
    /\ UNCHANGED <<vars, play, channel, settings, halted, acct, asks, job, used, timers, screen, money, misfits, count>>
\* resume with its confirmation lifts the stop and the pause.
resume ==
    /\ Trigger("halt") /\ halted
    /\ halted' = FALSE
    /\ UNCHANGED channel
    /\ setWorkflow([settings EXCEPT !.paused = FALSE])
    /\ timers' = IF settings.paused THEN timers \cup {"radar"} ELSE timers
    /\ UNCHANGED <<vars, play, thr, acct, held, asks, job, used, tasks, screen, money, misfits>>

\* switchBackend: refused with an open thread; the new backend starts before
\* the old one is replaced, and stops after it.
switchBackend(c) ==
    /\ Trigger("switch") /\ tasks["switch"].pc = "idle" /\ c # channel /\ openThreads = {}
    /\ TaskGoes("switch", [IdleTask EXCEPT !.pc = "starts", !.to = c])
    /\ UNCHANGED <<thr, acct, channel, settings>>
SwitchStarted ==
    /\ Quiet /\ tasks["switch"].pc = "starts"
    /\ \/ /\ channel' = tasks["switch"].to
          /\ TaskGoes("switch", [tasks["switch"] EXCEPT !.pc = "stops"])
       \/ UNCHANGED channel /\ TaskGoes("switch", IdleTask)
    /\ UNCHANGED <<thr, acct, settings, count>>
SwitchDone ==
    /\ Quiet /\ tasks["switch"].pc = "stops"
    /\ UNCHANGED channel
    /\ setWorkflow([settings EXCEPT !.execution = tasks["switch"].to])
    /\ acct' = AccountNow
    /\ TaskGoes("switch", IdleTask)
    /\ UNCHANGED <<thr, count>>

\* radar.ts: onTimer, run, and the application of a proposal, which touches the
\* watch list only.  One screening at a time; `waits` means onTimer awaits it.
RadarStays == UNCHANGED <<vars, play, thr, channel, halted, acct, held, asks, job, used, tasks, money, misfits>>
RadarDue ==
    /\ Trigger("radar") /\ "radar" \in timers
    /\ IF settings.paused \/ halted
       THEN UNCHANGED <<timers, screen>>      \* armed again for RECHECK_MS
       ELSE timers' = timers \ {"radar"} /\ screen' = "waits"
    /\ UNCHANGED settings /\ RadarStays
RadarRun ==
    /\ Trigger("radar") /\ screen = "idle"
    /\ screen' = "runs"
    /\ UNCHANGED <<settings, timers>> /\ RadarStays
RadarEnds ==
    /\ In("radar") /\ screen # "idle"
    /\ screen' = "idle"
    /\ timers' = IF screen = "waits" THEN timers \cup {"radar"} ELSE timers
    /\ UNCHANGED channel
    /\ \/ \E ws \in SUBSET Watched \ {{}} : setWorkflow([settings EXCEPT !.watch = ws])
       \/ UNCHANGED settings
    /\ UNCHANGED <<vars, play, thr, halted, acct, held, asks, job, used, tasks, money, misfits, count>>
\* A new interval arms the officer's timer and every horizon of the radar again.
Reschedule ==
    /\ Trigger("radar")
    /\ timers' = scheduleInfo(timers) \cup {"radar"}
    /\ UNCHANGED <<settings, screen>> /\ RadarStays

-----------------------------------------------------------------------------
(***************************************************************************)
(* The account poll and the exchange.                                      *)
(***************************************************************************)
\* trackDailyEquity: a change of 20% without a position, an order and a thread
\* that ended today is a transfer and moves the start of the day.
Ended == {i \in ThreadIds : thr[i].status \in {"closed", "canceled"} /\ thr[i].channel = channel}
OrdersWait == \E i \in openThreads : thr[i].step = "sent" /\ thr[i].symbol \notin held[channel]
Transferred(closed) ==
    LET gap == IF money.eq > money.start THEN money.eq - money.start ELSE money.start - money.eq IN
    held[channel] = {} /\ ~OrdersWait /\ ~closed /\ gap * 100 >= 20 * money.start
\* Mutant: threads that ended today are not looked for.
trackDailyEquityAlways ==
    IF money.day \/ Transferred(FALSE) THEN money.eq ELSE money.start
trackDailyEquity ==
    IF money.day \/ Transferred(Ended \ money.ended # {}) THEN money.eq ELSE money.start

\* pollAccountInner: the day first, then the threads.
Reconciled(t) ==
    IF t.channel # channel THEN t
    ELSE CASE t.status = "pending_entry" /\ t.step = "sent" /\ t.symbol \in held[channel] -> [t EXCEPT !.status = "in_position"]
           [] t.status = "in_position" /\ t.symbol \notin held[channel] -> [t EXCEPT !.status = "closed"]
           [] OTHER -> t
Polled == [i \in ThreadIds |-> Reconciled(thr[i])]
Events == {i \in ThreadIds : Polled[i].status # thr[i].status /\ isOpen(Polled[i])}
pollAccount ==
    /\ In("poll")
    /\ acct' = AccountNow
    /\ thr' = Polled
    /\ money' = [money EXCEPT !.start = trackDailyEquity, !.day = FALSE, !.lost = 0,
                              !.moved = @ /\ trackDailyEquity = money.start]
    /\ asks' = IF "review" \in play.parts THEN ReviewsOf(Events) ELSE <<>>
    /\ <<acct', thr', money', asks'>> # <<acct, thr, money, asks>>
    /\ QueueStays /\ UNCHANGED <<play, channel, settings, halted, held, tasks, timers, screen, misfits, count>>

ExchangeStays == QueueStays /\ UNCHANGED <<play, channel, settings, halted, acct, asks, tasks, timers, screen, misfits>>
EntryFills(i) ==
    /\ In("exchange") /\ thr[i].step = "sent" /\ thr[i].status = "pending_entry"
    /\ held' = [held EXCEPT ![thr[i].channel] = @ \cup {thr[i].symbol}]
    /\ held' # held
    /\ UNCHANGED <<thr, money, count>> /\ ExchangeStays
PositionEnds(s, loss) ==
    /\ In("exchange") /\ s \in held[channel] /\ money.eq > loss /\ (loss > 0 => "day" \in play.parts)
    /\ held' = [held EXCEPT ![channel] = @ \ {s}]
    /\ money' = [money EXCEPT !.eq = @ - loss, !.lost = @ + loss]
    /\ UNCHANGED <<thr, count>> /\ ExchangeStays
ForeignPosition(s) ==
    /\ Trigger("adopt") /\ s \notin held[channel]
    /\ held' = [held EXCEPT ![channel] = @ \cup {s}]
    /\ UNCHANGED <<thr, money>> /\ ExchangeStays
Transfer(d) ==
    /\ Trigger("day") /\ money.eq + d > 0
    /\ money' = [money EXCEPT !.eq = @ + d, !.moved = TRUE]
    /\ UNCHANGED <<thr, held>> /\ ExchangeStays
Midnight ==
    /\ Trigger("day") /\ ~money.day
    /\ money' = [money EXCEPT !.day = TRUE, !.ended = Ended, !.old = ThreadIds \ Free]
    /\ UNCHANGED <<thr, held>> /\ ExchangeStays

DeskNext ==
    \/ Ask \/ JobStep \/ pollAccount
    \/ onKlineClose \/ sendChat \/ InfoDue \/ InfoRetry \/ runInfoNow
    \/ \E s \in Watched : onFastMove(s) \/ manualOrder(s) \/ adoptPosition(s) \/ ForeignPosition(s)
    \/ \E i \in ThreadIds : approveIntent(i) \/ OpenChecked(i) \/ OpenSent(i) \/ EntryFills(i)
    \/ \E s \in Watched, loss \in Losses \cup {0} : PositionEnds(s, loss)
    \/ ManualPlaced \/ Adopted \/ halt \/ resume \/ SwitchStarted \/ SwitchDone
    \/ \E failed \in SUBSET Watched : HaltEnds(failed)
    \/ \E p \in BOOLEAN : Pause(p)
    \/ \E c \in Channels : SaveForm(c) \/ switchBackend(c)
    \/ RadarDue \/ RadarRun \/ RadarEnds \/ Reschedule
    \/ \E d \in Transfers : Transfer(d)
    \/ Midnight

\* The desk without fairness: what its steps may do.
SafeDesk == DeskInit /\ [][DeskNext]_allVars

-----------------------------------------------------------------------------
DeskTypeOK ==
    /\ \A i \in ThreadIds : thr[i].status \in {"none", "pending_entry", "in_position", "closed", "canceled"}
    /\ channel \in Channels /\ settings.watch \subseteq Watched /\ acct.held \subseteq Watched
    /\ timers \subseteq {"info", "infoRetry", "radar", "kline"}
    /\ (job.phase = "none") = (running = None)

\* However proposals of the model, of a chat and of the order panel interleave, a
\* symbol has at most one open thread that they opened.
Opened == {i \in openThreads : thr[i].source # "adopted"}
OneThreadPerSymbol == \A i, j \in Opened : thr[i].symbol = thr[j].symbol => i = j

\* Nor do they open more threads than max_open_threads, or send more entries in
\* a day than max_opens_per_day: both are checked before the row is saved and
\* again, beside the other rows that are on their way, before the order is sent.
\* (Rows of today: a proposal made before midnight and approved after counts for
\* the day it was made.)
WithinMaximum ==
    /\ Cardinality(Opened) <= play.max_open_threads
    /\ Cardinality({i \in ThreadIds \ money.old : thr[i].source \in {"agent", "chat"} /\ thr[i].status # "canceled"
                                      /\ thr[i].step \in {"cleared", "sent"}}) <= max_opens_per_day

\* The daily cap is looked at when a judgment is asked for.  What is queued then
\* still runs, and a chat's proposal counts without being asked, so the day may end
\* above the cap, by no more than the queue can hold and the chat turns.
EpisodeKeys == {k \in Keys : k.kind \in {"scan", "review"}}
CapOvershoot ==
    used + Cardinality(Waiting \cap EpisodeKeys) < play.daily_judgment_cap + Cardinality(EpisodeKeys) + chats

\* A review acts on the thread as it is when the model answers: an entry is
\* canceled only while it waits, a position closed or halved only while it is held.
ReviewFitsStatus == misfits = {}

\* `execution` in the settings names the backend that runs, except while the old
\* one is being stopped (the comment of setWorkflow).
ExecutionNamesBackend == tasks["switch"].pc # "stops" => settings.execution = channel

\* The start of the day moves only with a new day or a transfer: losses that add up
\* to 20% over several polls are not taken for a withdrawal, so the daily-loss stop
\* stays hit.  (20% lost between two polls are: the equity is looked at before the
\* poll has seen a thread closed.)
LossesCount ==
    [][money'.start # money.start => money.day \/ money.moved \/ money.lost >= 20]_money

\* No timer is forgotten: the officer's next look is armed or its job is queued,
\* and the radar's is armed or awaits the screening in flight.
NoTimerLost ==
    /\ {"info", "infoRetry"} \cap timers # {} \/ isBusy(infoKey)
    /\ "radar" \in timers \/ screen = "waits"

\* What may be opened stays within what the person allowed, although the limits
\* are checked before awaits and again after them by several openers at once
\* (runtime.ts:634, 1590): threads per symbol, threads in all, judgments a day.
OpeningsWithinLimits == DeskTypeOK /\ OneThreadPerSymbol /\ WithinMaximum /\ CapOvershoot
=============================================================================
