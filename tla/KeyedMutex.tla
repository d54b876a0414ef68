----------------------------- MODULE KeyedMutex -----------------------------
(***************************************************************************)
(* What the brain queue promises its callers, with the order of the        *)
(* waiting jobs left out: one job runs at a time, a key is asked for at    *)
(* most once until its run ends, and the runner is never idle while a job  *)
(* waits.  BrainQueue.tla implements this specification.                   *)
(***************************************************************************)
CONSTANTS Keys, None

VARIABLES waiting, running

avars == <<waiting, running>>

AInit == waiting = {} /\ running = None

\* A request for a key that nobody holds or waits for; an idle runner takes it.
Ask(k) ==
    /\ k \notin waiting \cup {running}
    /\ \/ running = None /\ running' = k /\ waiting' = waiting
       \/ running # None /\ running' = running /\ waiting' = waiting \cup {k}

\* The running job ends, however it ends; some waiting job takes over.
Release ==
    /\ running # None
    /\ \/ waiting = {} /\ running' = None /\ waiting' = waiting
       \/ \E k \in waiting : running' = k /\ waiting' = waiting \ {k}

ANext == Release \/ \E k \in Keys : Ask(k)

ASpec == AInit /\ [][ANext]_avars
=============================================================================
