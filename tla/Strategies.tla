----------------------------- MODULE Strategies ------------------------------
(***************************************************************************)
(* The strategy library (strategies.ts, class StrategyLibrary): versions   *)
(* of a strategy, their promotion, and which version a live judgment uses. *)
(* Backtests and experiments run outside and report when they end; people  *)
(* create, promote and retire versions meanwhile.                          *)
(*                                                                         *)
(* The content of a version is its parameters; its hash is its content.    *)
(* Statistics are what the gates tell apart: enough trades or not, the     *)
(* sign of the expectancy, and the version the run was about.              *)
(***************************************************************************)
EXTENDS Naturals, Sequences, FiniteSets, SequencesExt

CONSTANTS
    Strategies,     \* ids of the built-in strategies
    Params,         \* keys of their parameters
    NewParam,       \* the key old files lack
    Values,         \* values a parameter may take
    Relaxed,        \* id and params of the variant created at every start
    BuiltIn,        \* id -> params and status of the first version
    None,           \* no version, no statistics
    MaxVersions,    \* bound: versions of a strategy
    MaxRuns         \* bound: runs started

VARIABLES
    library,    \* id -> its versions, oldest first
    runs,       \* unfinished backtests and experiments: kind, id, version
    started     \* runs started

libraryVars == <<library, runs, started>>

ParamMaps == UNION {[K -> Values] : K \in SUBSET Params}
STATUS_ORDER == <<"draft", "backtest", "shadow", "paper", "live_capped">>
Rank(s) == IF \E i \in 1..5 : STATUS_ORDER[i] = s THEN CHOOSE i \in 1..5 : STATUS_ORDER[i] = s ELSE 0
PaperUp(v) == Rank(v.status) >= Rank("paper")

\* The built-in strategies and the relaxed variant have parameters of the
\* right kind; what is absent is no version and no sign.
ASSUME StrategiesAssumption ==
    /\ BuiltIn \in [Strategies -> [params : ParamMaps, status : Range(STATUS_ORDER)]]
    /\ Relaxed.id \in Strategies /\ Relaxed.params \in ParamMaps
    /\ None \notin Nat \cup {"pos", "neg"}

NoStats == [runs |-> 0, enough |-> FALSE, sign |-> None, of |-> None]
First(id) == [params |-> BuiltIn[id].params, hash |-> BuiltIn[id].params, status |-> BuiltIn[id].status, eval |-> NoStats, lab |-> NoStats]

---------------------------------------------------------------------------
\* Reads.

versions(id) == Reverse(library[id])
head(id) == library[id][Len(library[id])]

\* Mutant: an unfinished version silences the strategy.
resolveHead(lib, id) ==
    LET h == lib[id][Len(lib[id])] IN IF lib[id] = <<>> THEN None ELSE IF h.status # "retired" /\ PaperUp(h) THEN Len(lib[id]) ELSE None

\* The version a live judgment uses: the newest, or, while that is not yet
\* at paper, the newest that is.
resolve(lib, id) ==
    LET h == lib[id][Len(lib[id])]
        F == {i \in DOMAIN lib[id] : PaperUp(lib[id][i])}
    IN  IF lib[id] = <<>> \/ h.status = "retired" THEN None
        ELSE IF F = {} THEN None ELSE CHOOSE i \in F : \A j \in F : j <= i

---------------------------------------------------------------------------
\* At every start: the built-in strategies are written once; a parameter
\* the code has and the file lacks is added with its default.  The write
\* updates the row's json, whose hash is new, and not its hash column.
Filled(id, v) ==
    LET b == BuiltIn[id].params
        p == v.params
    IN  [v EXCEPT !.params = [k \in DOMAIN b \cup DOMAIN p |-> IF k \in DOMAIN p THEN p[k] ELSE b[k]]]
seed(lib) == [id \in Strategies |-> IF lib[id] = <<>> THEN <<First(id)>> ELSE [lib[id] EXCEPT ![1] = Filled(id, @)]]

Written(id, v) == [library EXCEPT ![id][Len(library[id])] = v]

\* A new draft with no evidence of its own.
Drafted(lib, id, patch) ==
    LET h == lib[id][Len(lib[id])]
        p == [k \in DOMAIN h.params |-> IF k \in DOMAIN patch THEN patch[k] ELSE h.params[k]]
    IN  IF DOMAIN patch \subseteq DOMAIN h.params /\ p # h.params
        THEN [lib EXCEPT ![id] = Append(@, [params |-> p, hash |-> p, status |-> "draft", eval |-> NoStats, lab |-> NoStats])]
        ELSE lib

\* The relaxed variant, unless some version already has its numbers; it is
\* promoted at once to backtest.
ensureBreakoutRetestV2(lib) ==
    LET id == Relaxed.id
        has(v) == \A k \in DOMAIN Relaxed.params : k \in DOMAIN v.params /\ v.params[k] = Relaxed.params[k]
        new == Drafted(lib, id, Relaxed.params)
    IN  IF (\E i \in DOMAIN lib[id] : has(lib[id][i])) \/ NewParam \notin DOMAIN lib[id][Len(lib[id])].params \/ new = lib THEN lib
        ELSE [new EXCEPT ![id][Len(new[id])].status = "backtest"]

---------------------------------------------------------------------------
\* An empty database, one of this version, or one written before NewParam.
OldFirst(id) == [First(id) EXCEPT !.params = [k \in DOMAIN @ \ {NewParam} |-> @[k]], !.hash = [k \in DOMAIN @ \ {NewParam} |-> @[k]]]
LibraryInit ==
    /\ library \in {[id \in Strategies |-> <<>>], [id \in Strategies |-> <<OldFirst(id)>>]}
    /\ runs = {} /\ started = 0

\* The process starts; what was running elsewhere is lost.
Boot ==
    /\ library' = ensureBreakoutRetestV2(seed(library))
    /\ runs' = {}
    /\ UNCHANGED started

Open == \A id \in Strategies : library[id] # <<>>

createVersion(id) ==
    /\ Open /\ Len(library[id]) < MaxVersions
    /\ \E k \in Params, x \in Values : library' = Drafted(library, id, [j \in {k} |-> x])
    /\ UNCHANGED <<runs, started>>

\* One step forward, with the evidence the step asks for.
promoteGate(v, to, confirm) ==
    /\ v.status # "retired"
    /\ Rank(to) = Rank(v.status) + 1
    /\ to = "shadow" => (v.lab.enough /\ v.lab.sign = "pos") \/ (v.eval.runs >= 1 /\ v.eval.enough)
    /\ to = "paper" => v.eval.sign = "pos"
    /\ to = "live_capped" => confirm

promote(id, to, confirm) ==
    /\ Open /\ promoteGate(head(id), to, confirm)
    /\ library' = Written(id, [head(id) EXCEPT !.status = to])
    /\ UNCHANGED <<runs, started>>

retire(id) ==
    /\ Open /\ head(id).status # "retired"
    /\ library' = Written(id, [head(id) EXCEPT !.status = "retired"])
    /\ UNCHANGED <<runs, started>>

\* A run is about the newest version when it starts.
RunStarts(id, kind) ==
    /\ Open /\ started < MaxRuns
    /\ runs' = runs \cup {[kind |-> kind, id |-> id, version |-> Len(library[id]), nth |-> started]}
    /\ started' = started + 1
    /\ UNCHANGED library

\* An experiment writes to the version it was about.
updateLabStats(r, enough, sign) ==
    /\ r.kind = "lab"
    /\ library' = [library EXCEPT ![r.id][r.version].lab = [runs |-> 1, enough |-> enough, sign |-> sign, of |-> r.version]]
    /\ runs' = runs \ {r} /\ UNCHANGED started

\* A backtest writes to the version that is the newest when it ends.
updateEvalStats(r, enough, sign) ==
    /\ r.kind = "backtest"
    /\ library' = Written(r.id, [head(r.id) EXCEPT !.eval = [runs |-> @.runs + 1, enough |-> enough, sign |-> sign, of |-> r.version]])
    /\ runs' = runs \ {r} /\ UNCHANGED started

LibraryNext ==
    \/ Boot
    \/ \E id \in Strategies :
         \/ createVersion(id) \/ retire(id)
         \/ \E to \in Range(STATUS_ORDER), confirm \in BOOLEAN : promote(id, to, confirm)
         \/ \E kind \in {"lab", "backtest"} : RunStarts(id, kind)
    \/ \E r \in runs, enough \in BOOLEAN, sign \in {"pos", "neg"} : updateLabStats(r, enough, sign) \/ updateEvalStats(r, enough, sign)

LibrarySpec == LibraryInit /\ [][LibraryNext]_libraryVars

---------------------------------------------------------------------------
\* No version that judges live trades got there unearned: every version after
\* the first that is at paper or above has had a backtest since it was made,
\* and one that is a draft has had no promotion.
Earned == \A id \in Strategies : \A i \in DOMAIN library[id] : i > 1 /\ PaperUp(library[id][i]) => library[id][i].eval.runs >= 1

\* A step of the library never changes what a version says, except that a
\* missing parameter gets its default; never takes a version away; adds
\* one only below paper; moves a
\* version by one step or retires it, and only the newest; and only a
\* retirement leaves a strategy that judged live trades without a version
\* that does.
SameContent(v, u) == DOMAIN v.params \subseteq DOMAIN u.params /\ \A k \in DOMAIN v.params : v.params[k] = u.params[k]
Moves(v, u) == u.status = v.status \/ (v.status # "retired" /\ (u.status = "retired" \/ Rank(u.status) = Rank(v.status) + 1))
LibraryStep(lib, new) == \A id \in Strategies :
    /\ Len(lib[id]) <= Len(new[id])
    /\ \A i \in DOMAIN new[id] \ DOMAIN lib[id] : i > 1 => ~PaperUp(new[id][i])
    /\ \A i \in DOMAIN lib[id] : /\ SameContent(lib[id][i], new[id][i]) /\ Moves(lib[id][i], new[id][i])
                                 /\ lib[id][i].status # new[id][i].status => i = Len(lib[id]) /\ i = Len(new[id])
    /\ resolve(lib, id) # None =>
         LET was == resolve(lib, id)
             is == resolve(new, id)
         IN  IF is = None THEN new[id][Len(new[id])].status = "retired" ELSE is >= was /\ PaperUp(new[id][is])

LiveIsEarned == [][LibraryStep(library, library') /\ Earned']_library

\* Known not to hold: a backtest of one version that ends after the next was
\* made is the next one's evidence (strategies.ts updateEvalStats).
EvidenceIsOwn == \A id \in Strategies : \A i \in DOMAIN library[id] : library[id][i].eval.of \in {None, i}

\* Known not to hold: after the newest version was retired, a new draft
\* brings back the version before it, which nobody promoted again.
RetiredStaysOut == [][\A id \in Strategies : library[id] # <<>> /\ head(id).status = "retired" => resolve(library', id) = None]_library

\* Known not to hold: the hash column of a row that was filled up is the old
\* one, for its write leaves that column alone.
HashIsContent == \A id \in Strategies : \A i \in DOMAIN library[id] : library[id][i].hash = library[id][i].params
=============================================================================
