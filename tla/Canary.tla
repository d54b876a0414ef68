------------------------------- MODULE Canary -------------------------------
(***************************************************************************)
(* verifyProtection of packages/gateway/src/demo/runtime.ts: the smallest  *)
(* real position is opened on the agent backend, its stop placed, looked   *)
(* up and canceled, and the position closed.  The record it leaves is what *)
(* lets threads open positions on this channel.  The canary is a task of   *)
(* Backends whose next call depends on the answers so far.                 *)
(***************************************************************************)
EXTENDS Backends

VARIABLES
    can,      \* the canary: [pc, existing, entered, stopLive, tidy]
    record    \* kv protection record: verified

canaryVars == <<can, record>>

me == "canary"
Off == [pc |-> "off", existing |-> FALSE, entered |-> FALSE, stopLive |-> FALSE, tidy |-> TRUE]

\* protectionOk: openings need the record, and wait while the canary runs.
protectionOk == record /\ can.pc \in {"off", "over"}

\* openThreads() on the symbol: a thread from before, or the one task "a" runs.
Owned == script.left = "owned" \/ call["a"].n > 0

CanaryInit == can = Off /\ record = FALSE

Asks(op, pc) == Begin(me, op) /\ can' = [can EXCEPT !.pc = pc] /\ UNCHANGED record

\* The answer to the canary's last call.
Answered == (CHOOSE e \in log : e.task = me /\ e.n = call[me].n).out
At(pc) == can.pc = pc /\ ~Busy(me)
Moves(c) == can' = c /\ UNCHANGED record /\ UNCHANGED backendVars
Goes(pc) == Moves([can EXCEPT !.pc = pc])

verifyProtection == /\ can.pc = "off" 
                    /\ me \in Tasks /\ call[me].n = 0
                    /\ Asks("account", "account")

\* An unowned position is taken over, one of a thread ends the attempt.
AccountRead ==
    /\ At("account")
    /\ IF Answered.word = "throw" \/ (Answered.pos /\ Owned) THEN Goes("failed")
       ELSE Moves([can EXCEPT !.pc = "list", !.existing = Answered.pos])
ListStale == At("list") /\ Asks("listAlgos", "listed")
Listed == At("listed") /\ Goes(IF Answered.word = "yes" THEN "clean" ELSE "size")
Clean == At("clean") /\ Asks("cancelStale", "cleaned")
Cleaned == At("cleaned") /\ Goes(IF Answered.word = "ok" THEN "size" ELSE "failed")

\* symbolRules and markPrice are public reads, which may fail.
Sized == At("size") /\ \E pc \in {"open", "failed"} : Goes(pc)
Open ==
    /\ At("open")
    /\ Begin(me, IF can.existing THEN "stop" ELSE "openprot")
    /\ can' = [can EXCEPT !.pc = IF can.existing THEN "stopped" ELSE "opened",
                          !.entered = can.existing]
    /\ UNCHANGED record
StopAdopted ==
    /\ At("stopped")
    /\ LET on == Answered.word \in {"submitted", "filled"} IN
       Moves([can EXCEPT !.stopLive = on, !.pc = IF on THEN "look" ELSE "failed"])
OpenAnswered ==
    /\ At("opened")
    /\ LET in == Answered.word # "failed"
           on == Answered.word = "filled" /\ Answered.leg = "submitted" IN
       Moves([can EXCEPT !.entered = in, !.stopLive = on, !.pc = IF on THEN "look" ELSE "failed"])

Look == At("look") /\ Asks("algoExists", "looked")
LookedAnyhow == At("looked") /\ Goes("cancel")
Looked == At("looked") /\ Goes(IF Answered.word = "yes" THEN "cancel" ELSE "failed")
CancelStop == At("cancel") /\ Asks("cancelAlgo", "canceled")

\* What was to be shown is shown: the record is written before the clean-up.
StopCanceled ==
    /\ At("canceled")
    /\ IF Answered.word = "ok"
       THEN /\ can' = [can EXCEPT !.stopLive = FALSE, !.pc = "close"]
            /\ record' = TRUE
       ELSE can' = [can EXCEPT !.pc = "failed"] /\ UNCHANGED record
    /\ UNCHANGED backendVars

Close == At("close") /\ Asks("close", "closed")
Closed == At("closed") /\ Moves([can EXCEPT !.pc = "confirm", !.tidy = Answered.word = "closed",
                                            !.entered = @ /\ Answered.word # "closed"])
Confirm == At("confirm") /\ Asks("account", "confirmed")
Confirmed ==
    /\ At("confirmed")
    /\ LET flat == Answered.word # "throw" /\ ~Answered.pos
           tidy == can.tidy /\ flat IN
       Moves([can EXCEPT !.tidy = tidy, !.entered = @ /\ ~flat,
                         !.pc = IF ~tidy /\ can.entered /\ ~flat THEN "again" ELSE "end"])
CloseAgain == At("again") /\ Asks("close", "end")

\* The catch: the stop is canceled and the position closed, best effort.
Failed ==
    /\ At("failed")
    /\ IF can.stopLive THEN Asks("cancelAlgo", "failedClose")
       ELSE Moves([can EXCEPT !.pc = "failedClose", !.tidy = FALSE])
FailedClose ==
    /\ At("failedClose")
    /\ IF can.entered THEN Asks("close", "failedEnd")
       ELSE Moves([can EXCEPT !.pc = "failedEnd", !.tidy = FALSE])
FailedEnd == At("failedEnd") /\ Moves([can EXCEPT !.pc = "over", !.tidy = FALSE])

\* The finally: the runtime's account is read once more.
End == At("end") /\ Asks("account", "over")

\* invalidateProtection: a thread's stop the exchange refused for another reason
\* than a missing position withdraws the record.
invalidateProtection ==
    /\ record /\ \E e \in log : e.op = "stop" /\ e.task # me /\ e.out.leg = "refused"
    /\ record' = FALSE
    /\ UNCHANGED can /\ UNCHANGED backendVars

CanaryStep ==
    \/ verifyProtection \/ AccountRead \/ ListStale \/ Listed \/ Clean \/ Cleaned \/ Sized \/ Open
    \/ StopAdopted \/ OpenAnswered \/ Look \/ Looked \/ CancelStop \/ StopCanceled \/ Close \/ Closed
    \/ Confirm \/ Confirmed \/ CloseAgain \/ Failed \/ FailedClose \/ FailedEnd \/ End

-----------------------------------------------------------------------------
\* The record that opens the channel stands only if the exchange held the canary's
\* own stop, even when a run reports a stop it did not place.
OwnStop == \E z \in effects : z[1] = me /\ z[3] \in {"algo", "protect"}
VerifiedWasSeen == record => OwnStop

\* A canary that ends with a clean report has left nothing at the exchange: no
\* position and no stop, until a thread opens.
CleanReportMeansFlat == (can.pc = "over" /\ can.tidy /\ ~Owned) => x.pos = 0 /\ ~x.stop

\* The record that opens a channel to threads was seen at the exchange, and a
\* report that promises a clean account leaves one (runtime.ts:448).
CanaryHonest == VerifiedWasSeen /\ CleanReportMeansFlat
=============================================================================
