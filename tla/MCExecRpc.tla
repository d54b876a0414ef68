----------------------------- MODULE MCExecRpc -----------------------------
(***************************************************************************)
(* Instances of ExecRpc for TLC, and what does not hold of it.             *)
(***************************************************************************)
EXTENDS ExecRpc

CONSTANTS k1, b1, b2

Propose_(who, key, body) ==
    [method |-> "propose", who |-> who, surface |-> "rpc", account |-> "sub",
     kind |-> "order", sound |-> TRUE, key |-> key, body |-> body]
SetTo(version, mode) ==
    [method |-> "set", confirmed |-> TRUE,
     policy |-> [version |-> version, mode |-> mode, authority |-> "draft",
                 stop |-> FALSE, valid |-> TRUE]]
StopTo(mode) == [method |-> "stop", mode |-> mode]
RejectOf(i) == [method |-> "reject", target |-> i]

\* Callers without a subscription: racing proposals under one key, a stop
\* beside a proposal, two rejects of one intent, policy writes, refused
\* requests; and subscribers beside two writers, or resubscribing.
Refused == [Propose_("agent", k1, b1) EXCEPT !.account = "main"]
Racing == {{Propose_("user", k1, b1)},
           {Propose_("user", k1, b1), Propose_("user", k1, b2)},
           {Propose_("agent", NoKey, b1), StopTo("halt_all")},
           {Propose_("user", NoKey, b1), RejectOf(1)},
           {Propose_("agent", NoKey, b1), RejectOf(1)},
           {SetTo(1, "halt_all")},
           {Refused, [method |-> "get", target |-> 1], [method |-> "authorize"]}}
Watched == {{Propose_("agent", k1, b1)}, {StopTo("flatten_only")}}
TwoWriters == {Propose_("user", k1, b1), Propose_("user", NoKey, b2)}
Script(c, subs, faults) ==
    [calls |-> c, subs |-> subs, faults |-> faults, waits |-> FALSE]
\* Four events, one more than the bus and one page hold: a forwarder that falls
\* behind has one overwritten and fetches it with the rows of the hole.
Stops ==
    {[Script({StopTo("flatten_only"), StopTo("halt_all")}, 1, 0) EXCEPT !.waits = TRUE]}
\* A stop and one or two policy.set that may all have read one policy.
PolicyRace ==
    {Script({SetTo(1, m), StopTo("flatten_only")}, 0, 0) : m \in {"run", "halt_all"}}
    \cup {Script({SetTo(1, "halt_all"), SetTo(2, "run"), StopTo("flatten_only")}, 0, 0)}
MCScripts == {Script(c, 0, 1) : c \in Racing}
        \cup {Script(c, 1, 1) : c \in Watched}
        \cup {Script(TwoWriters, 1, 0), Script({StopTo("halt_all")}, 2, 1),
              Script({Propose_("user", k1, b1)}, 0, 3)}
        \cup Stops \cup PolicyRace

\* "HALT rejects every new proposal" (intents.rs:164): the handler reads the
\* policy before the transaction that inserts, and a stop may commit between.
HaltStopsProposals ==
    [][Len(intents') > Len(intents) /\ is_halted(policy)
         => intents'[Len(intents')].status = "rejected"]_vars

\* "version strictly + 1" (policy.rs:48): two writers read one version.
VersionsAdvance == [][policy' # policy => policy'.version = policy.version + 1]_vars

\* "An emergency stop can only tighten" (policy.rs:88): it tightens the policy
\* it read, and a policy.set that read the same one undoes it.
EmergencyStays ==
    [][\A n \in DOMAIN tasks :
         At(n, "stop", "write") /\ tasks'[n].pc = "publish"
         => severity(policy'.mode) >= severity(policy.mode)]_vars

HaltRace == {Script({Propose_("user", NoKey, b1), StopTo("halt_all")}, 0, 0)}

\* The last halt event says whether the policy is halted: not when a stop is
\* overwritten by a set that read the policy before it.
HaltIsTold ==
    is_halted(policy) =
    \E s \in DOMAIN events :
       /\ events[s].name = "halt" /\ events[s].halted
       /\ \A t \in DOMAIN events : events[t].name = "halt" => t <= s

\* PolicyRace breaks VersionsAdvance, EmergencyStays and HaltIsTold, HaltRace
\* HaltStopsProposals.
\* With BusCap = 1 and Page = 1 EventsArrive fails for Stops: what one page of
\* the refill does not cover is passed over, and with it lost.

=============================================================================
