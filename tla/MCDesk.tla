------------------------------- MODULE MCDesk -------------------------------
(***************************************************************************)
(* The desk for TLC: two symbols, two channels, three thread rows.  A play *)
(* names the parts that are active in a behaviour; every play has the      *)
(* queue, the running job and the last steps of an opening.                *)
(***************************************************************************)
EXTENDS Desk

MCSymbols == <<"A", "B">>
MCChannels == {"paper", "agent"}
MCThreads == 1..3
MCChats == {Key("chat", "1"), Key("chat", "2")}
MCNone == Key("none", "none")
MCKeys == {scanKey("A"), scanKey("B"), infoKey} \cup {reviewKey(i) : i \in MCThreads} \cup MCChats
MCLosses == {12}
MCTransfers == {-30}

Play(parts, n, threads, cap) ==
    [parts |-> parts, asks |-> n, max_open_threads |-> threads, daily_judgment_cap |-> cap]
MCPlays == {
    Play({"kline", "people", "poll"}, 3, 2, 2),                           \* openings
    Play({"kline", "chat", "people"}, 3, 1, 2),
    Play({"chat", "people", "exchange", "poll"}, 4, 2, 2),
    Play({"chat", "people", "halt"}, 4, 2, 2),
    Play({"kline", "move", "exchange", "poll", "review"}, 4, 2, 3),       \* reviews
    Play({"kline", "poll"}, 4, 2, 1),
    Play({"adopt", "people", "poll"}, 5, 2, 2),
    Play({"switch", "form", "people", "exchange", "poll"}, 4, 2, 2),
    Play({"info", "chat", "settings", "move"}, 4, 2, 2),                  \* timers
    Play({"radar", "info", "settings", "halt"}, 5, 2, 2),
    Play({"people", "exchange", "poll", "day"}, 2, 2, 2)}                 \* money

\* Not invariants, though one may expect them:
\*   - one open thread per symbol, adopted ones included: adoptPosition looks for a
\*     thread before its await (runtime.ts:2011), an opening may save one meanwhile;
\*   - every open thread belongs to the channel that runs: switchBlocker is asked
\*     before the await of next.start() (runtime.ts:587), so a thread may fall asleep;
\*   - used <= daily_judgment_cap: the cap is looked at when a job is queued;
\*   - LossesCount without its last disjunct (runtime.ts:932).

\* The queue's jobs end: every read, every order and every run of a brain has a
\* time-out.
Opening == \E i \in ThreadIds : OpenChecked(i) \/ OpenSent(i)
DeskSpec == SafeDesk /\ WF_allVars(JobStep) /\ WF_allVars(Ask) /\ WF_allVars(Opening)
=============================================================================
