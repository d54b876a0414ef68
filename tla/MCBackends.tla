----------------------------- MODULE MCBackends -----------------------------
(***************************************************************************)
(* The execution backends for TLC.  A behaviour uses one of them: the      *)
(* paper simulator, or one of the three that reach an exchange, driven by  *)
(* a script of calls; on the agent backend also by the protection canary.  *)
(***************************************************************************)
EXTENDS Canary, Paper

VARIABLE paper    \* the backend is the paper simulator

vars == <<paper, backendVars, canaryVars, paperVars>>
remoteVars == <<backendVars, canaryVars>>

MCTasks == {"a", "b", "canary"}
Sc(k, limit, a, b, left) ==
    [kind |-> k, limit |-> limit, left |-> left, ops |-> [t \in MCTasks |->
        IF t = "a" THEN a ELSE IF t = "b" THEN b ELSE <<>>]]

\* What the trading loop asks of a backend, two callers at a time.
Opening(k) == {Sc(k, FALSE, <<"entry", "stop", "account">>, <<"account">>, "nothing"),
               Sc(k, FALSE, <<"entry", "stop">>, <<"close", "account">>, "nothing"),
               Sc(k, TRUE, <<"entry", "getOrder", "cancelOrder">>, <<"account">>, "nothing"),
               Sc(k, TRUE, <<"entry", "cancelAll", "account">>, <<"getOrder">>, "nothing"),
               Sc(k, FALSE, <<"entry", "reduce">>, <<"cancelAll">>, "nothing")}
AgentOnly == {Sc("agent", FALSE, <<"account", "openprot", "account">>, <<"netCheck">>, "nothing"),
              Sc("agent", TRUE, <<"openprot", "getOrder", "account">>, <<"cancelOrder">>, "nothing")}
Canaries == {Sc("agent", FALSE, <<>>, <<>>, left) : left \in {"nothing", "stop", "owned"}}
            \cup {Sc("agent", FALSE, <<"entry", "stop">>, <<>>, "position")}
MCScripts == UNION {Opening(k) : k \in {"demo", "cli", "agent"}} \cup AgentOnly \cup Canaries

\* Refusals a backend can tell from an order that is gone.
MCRefusals == {<<k, r>> : k \in {"demo", "cli", "agent"}, r \in {"new", "algo", "close", "closeq", "reduce", "openprot"}}
              \cup {<<"demo", "cancel">>, <<"agent", "cancel">>, <<"demo", "cancelAll">>, <<"agent", "cancelAll">>}
BlindRefusals == MCRefusals \cup {<<"cli", "cancel">>, <<"cli", "cancelPlain">>}
TwoPrices == {36, 72}
None == {}
OppositeEntry == {"opposite entry"}
StopAlone == {"stop without position"}

Init ==
    /\ PaperInit /\ CanaryInit /\ BackendInit /\ paper \in BOOLEAN
    /\ paper => script.kind = "demo" /\ script = CHOOSE s \in Scripts : s.kind = "demo"

\* The canary is started from the execution page by hand; a thread opens once
\* the channel is verified.
IsCanary == script \in Canaries

Next ==
    \/ /\ paper /\ PaperNext
       /\ UNCHANGED <<paper, remoteVars>>
    \/ /\ ~paper /\ BackendNext /\ (IsCanary /\ call["a"].n < call'["a"].n => protectionOk \/ call["a"].n > 0)
       /\ UNCHANGED <<paper, canaryVars, paperVars>>
    \/ /\ ~paper /\ IsCanary /\ (CanaryStep \/ invalidateProtection)
       /\ UNCHANGED <<paper, paperVars>>

Spec == Init /\ [][Next]_vars

(***************************************************************************)
(* Where properties of the run stop holding:                               *)
(*   CanceledIsGone  Refusals <- BlindRefusals: the cli backend counts a   *)
(*                   refused cancel as done (any refusal in cancelAll; in  *)
(*                   cancelOrder when the algo endpoint then knows no such *)
(*                   order)                                                *)
(*   AlwaysFresh     an agent account read in flight while a write returns *)
(*                   refills the cache with the state before the write     *)
(*   Ledger          Careless <- {"opposite entry"}: the remainder of an   *)
(*                   entry larger than the opposite position vanishes      *)
(*   NoStrayStop     Careless <- {"stop without position"}                 *)
(***************************************************************************)
AlwaysFresh == \A e \in log : e.fresh
=============================================================================
