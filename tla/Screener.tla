------------------------------ MODULE Screener -------------------------------
(***************************************************************************)
(* One screening of the radar from its start to the watchlist: runScreen,  *)
(* resolveUniverse, brainPass, guardBrainLines and proposalPatch of        *)
(* screener.ts, the rows of ScreenStore, and Radar.runInner and apply of   *)
(* radar.ts.  A screening takes minutes; the settings it read at its start *)
(* change meanwhile, and screenings of other horizons run beside it.       *)
(*                                                                         *)
(* A card is the fit of every strategy on a scale of 0..2, where 1 stands  *)
(* for 0.5, and the expectancy of the best; Fits has its arithmetic.       *)
(***************************************************************************)
EXTENDS Integers, Sequences, FiniteSets, SequencesExt

CONSTANTS
    Horizons,       \* screenings that run beside each other
    Symbols,        \* symbols in the order of their volume, largest first
    Tradable,       \* those the exchange trades
    Perpetuals,     \* those a watchlist may hold
    Heads,          \* strategies of the library that are not retired
    CardFits,       \* fits and expectancy a symbol may show; NoCard without bars
    Answers,        \* sequences of lines a model may answer: symbol, strategy
    Whitelist,      \* screener_whitelist, also the explicit list
    MaxSymbols,     \* screener_max_symbols
    TopCards,       \* cards the model sees (25)
    Picks,          \* lists a person may choose
    Ttl,            \* ticks a proposal may be applied by itself
    Earlier,        \* rows saved before the process started
    NoCard, Absent,
    LastTick,       \* bound: ticks
    MaxScreens      \* bound: screenings started

VARIABLES
    settings,   \* watchlist, watchlist_max, apply, use_brain, universe, paused
    screening,  \* horizon -> the running screening, or Absent
    screens,    \* the rows saved, in order
    lastWrite,  \* who wrote the watchlist: a person, or a screening by itself
    ticks       \* the clock

screenVars == <<settings, screening, screens, lastWrite, ticks>>

PlaceOf(x, s) == CHOOSE i \in DOMAIN s : s[i] = x
Prefix(s, n) == SubSeq(s, 1, IF Len(s) < n THEN Len(s) ELSE n)
Unique(s) == FoldLeft(LAMBDA out, x : IF x \in Range(out) THEN out ELSE Append(out, x), <<>>, s)

---------------------------------------------------------------------------
\* Which symbols; without the tickers there is no ranking by volume.
resolveUniverse(w, tickers) ==
    LET wanted == CASE w.universe = "explicit" -> Prefix(Whitelist, MaxSymbols)
                    [] w.universe = "top_volume" -> IF tickers THEN Prefix(SelectSeq(Symbols, LAMBDA s : s \in Tradable), MaxSymbols) ELSE <<>>
                    [] OTHER -> Prefix(Unique(w.watchlist \o Whitelist), MaxSymbols)
    IN  SelectSeq(wanted, LAMBDA s : s \in Tradable)

best(card) == CHOOSE s \in Heads : \A t \in Heads : card.fits[t] <= card.fits[s]
BestFit(card) == IF card.fits = NoCard THEN 0 ELSE card.fits[best(card)]
Worth(card) == IF card.fits = NoCard THEN -99 ELSE card.expectancy

\* A stable sort of the cards by a relation.
Ordered(cards, Before(_, _)) ==
    LET order == SetToSortSeq(DOMAIN cards, LAMBDA i, j : Before(cards[i], cards[j]) \/ (~Before(cards[j], cards[i]) /\ i < j))
    IN  [i \in DOMAIN cards |-> cards[order[i]]]
\* By fit, then expectancy, then volume, where it is known.
ByRank(cards, tickers) ==
    Ordered(cards, LAMBDA a, b :
        \/ BestFit(a) > BestFit(b)
        \/ BestFit(a) = BestFit(b) /\ Worth(a) > Worth(b)
        \/ BestFit(a) = BestFit(b) /\ Worth(a) = Worth(b) /\ tickers /\ PlaceOf(a.symbol, Symbols) < PlaceOf(b.symbol, Symbols))

\* A line is kept if the model was shown its symbol and its strategy, it is
\* the first for both, and it makes up no number.
guardBrainLines(lines, top) ==
    FoldLeft(LAMBDA kept, l :
        IF /\ \E c \in Range(top) : c.symbol = l.symbol /\ c.fits # NoCard /\ l.strategy \in Heads
           /\ ~\E k \in Range(kept) : k.symbol = l.symbol /\ k.strategy = l.strategy
           /\ ~l.invented
        THEN Append(kept, l) ELSE kept, <<>>, lines)
\* What comes of asking the model about the first cards: what is kept of an
\* answer, or nothing, as it may fail. Without cards it is not asked.
brainPass(cards) == IF cards = <<>> THEN {<<>>} ELSE {guardBrainLines(a, Prefix(cards, TopCards)) : a \in Answers} \cup {<<>>}
\* A symbol named twice stands where it is named last; the others follow.
ByModel(cards, lines) ==
    LET at(s) == LET L == {i \in DOMAIN lines : lines[i].symbol = s} IN IF L = {} THEN 1000 ELSE CHOOSE i \in L : \A j \in L : j <= i
    IN  Ordered(cards, LAMBDA a, b : at(a.symbol) < at(b.symbol))

Candidates(cards) ==
    LET with == SelectSeq(cards, LAMBDA c : c.fits # NoCard)
    IN  [i \in DOMAIN with |-> [symbol |-> with[i].symbol, strategy |-> best(with[i]), fit |-> BestFit(with[i]), rank |-> i]]
SymbolsOf(candidates) == [i \in DOMAIN candidates |-> candidates[i].symbol]

---------------------------------------------------------------------------
\* Mutant: a list is applied as it was picked.
PatchAsPicked(proposal, max, pick, current) == IF pick # Absent /\ pick # <<>> THEN Prefix(Unique(pick), max) ELSE Prefix(proposal, max)

\* What a proposal may write: its own symbols, and of a pick also those that
\* are watched already.
proposalPatch(proposal, max, pick, current) ==
    IF pick # Absent /\ pick # <<>>
    THEN Prefix(SelectSeq(Unique(pick), LAMBDA s : s \in Range(proposal) \cup Range(current)), max)
    ELSE Prefix(proposal, max)

\* applyWorkflowPatch: only perpetuals, at least one, at most the maximum.
Watched(list) == SelectSeq(Unique(list), LAMBDA s : s \in Perpetuals)

ApplyTo(n, row, pick, by) ==
    LET list == Watched(proposalPatch(row.proposal, settings.watchlist_max, pick, settings.watchlist))
    IN  IF row.status # "done" \/ list = <<>> \/ (by = "auto" /\ ticks > row.at + Ttl) THEN UNCHANGED <<settings, lastWrite>>
        ELSE /\ settings' = [settings EXCEPT !.watchlist = Prefix(list, settings.watchlist_max)]
             /\ lastWrite' = [by |-> by, row |-> n, pick |-> pick]

---------------------------------------------------------------------------
ScreenerInit ==
    /\ settings \in [watchlist : {<<Symbols[1]>>}, watchlist_max : {1, 2}, apply : {"propose", "auto"}, use_brain : BOOLEAN,
                     universe : {"watchlist+whitelist", "top_volume", "explicit"}, paused : {FALSE}]
    /\ screening = [h \in Horizons |-> Absent]
    /\ screens = Earlier /\ lastWrite = Absent /\ ticks = 0

Running(h, stage) == screening[h] # Absent /\ screening[h].stage = stage
Started == Len(screens) + Cardinality({h \in Horizons : screening[h] # Absent})

\* A timer or a person; a second caller shares the running one.
ScreenStarts(h) ==
    /\ screening[h] = Absent /\ Started < MaxScreens
    /\ screening' = [screening EXCEPT ![h] = [stage |-> "universe", w |-> settings, brain |-> settings.use_brain /\ ~settings.paused, at |-> ticks,
                                              tickers |-> FALSE, todo |-> <<>>, symbols |-> <<>>, cards |-> <<>>]]
    /\ UNCHANGED <<settings, screens, lastWrite, ticks>>

\* The market is read: without tickers it goes on, without the list of
\* symbols it fails.
ScreenFails(h) ==
    /\ Running(h, "universe")
    /\ screens' = Append(screens, [status |-> "failed", horizon |-> h, at |-> screening[h].at, symbols |-> <<>>, cards |-> <<>>,
                                   candidates |-> <<>>, proposal |-> <<>>, lines |-> <<>>])
    /\ screening' = [screening EXCEPT ![h] = Absent]
    /\ UNCHANGED <<settings, lastWrite, ticks>>

Universe(h) ==
    /\ Running(h, "universe")
    /\ \E tickers \in BOOLEAN : LET list == resolveUniverse(screening[h].w, tickers) IN
         screening' = [screening EXCEPT ![h].stage = "cards", ![h].tickers = tickers, ![h].todo = list, ![h].symbols = list]
    /\ UNCHANGED <<settings, screens, lastWrite, ticks>>

\* One symbol: its card, or an error and no card.
Card(h) ==
    /\ Running(h, "cards") /\ screening[h].todo # <<>>
    /\ \E c \in CardFits \cup {Absent} :
         screening' = [screening EXCEPT ![h].todo = Tail(@),
                          ![h].cards = IF c = Absent THEN @ ELSE Append(@, [symbol |-> Head(screening[h].todo), fits |-> c.fits, expectancy |-> c.expectancy])]
    /\ UNCHANGED <<settings, screens, lastWrite, ticks>>

\* The model answers, fails, or is not asked; the row is saved, and applied
\* by itself if that was the setting when the screening began.
ScreenEnds(h) ==
    /\ Running(h, "cards") /\ screening[h].todo = <<>>
    /\ LET s == screening[h]
           ranked == ByRank(s.cards, s.tickers)
       IN  \E lines \in IF s.brain THEN brainPass(ranked) ELSE {<<>>} :
             LET cands == Candidates(ByModel(ranked, lines))
                 row == [status |-> "done", horizon |-> h, at |-> s.at, symbols |-> s.symbols, cards |-> ranked, candidates |-> cands,
                         proposal |-> Prefix(SymbolsOf(cands), s.w.watchlist_max), lines |-> lines]
             IN  /\ screens' = Append(screens, row)
                 /\ IF s.w.apply = "auto" /\ row.proposal # <<>> THEN ApplyTo(Len(screens) + 1, row, Absent, "auto") ELSE UNCHANGED <<settings, lastWrite>>
    /\ screening' = [screening EXCEPT ![h] = Absent]
    /\ UNCHANGED ticks

\* A person applies a proposal, in whole or as picked from it.
apply(n) ==
    /\ n \in DOMAIN screens
    /\ \E pick \in Picks \cup {Absent} : ApplyTo(n, screens[n], pick, "user")
    /\ UNCHANGED <<screening, screens, ticks>>

\* A person changes the settings.
SettingsChange ==
    /\ \E a \in {"propose", "auto"}, m \in {1, 2} :
         settings' = [settings EXCEPT !.apply = a, !.watchlist_max = m, !.watchlist = Prefix(@, m)]
    /\ UNCHANGED <<screening, screens, lastWrite, ticks>>

ScreenTick == ticks < LastTick /\ ticks' = ticks + 1 /\ UNCHANGED <<settings, screening, screens, lastWrite>>

ScreenerNext ==
    \/ \E h \in Horizons : ScreenStarts(h) \/ ScreenFails(h) \/ Universe(h) \/ Card(h) \/ ScreenEnds(h)
    \/ \E n \in 1..MaxScreens : apply(n)
    \/ SettingsChange
    \/ ScreenTick

---------------------------------------------------------------------------
\* Every candidate was screened and has a card with its best strategy; no
\* symbol twice; the model only reorders: who is proposed by rank is decided
\* by the cards, and without an answer so is the order.
Backed(r) ==
    /\ Range(r.symbols) \subseteq Tradable
    /\ \A i, j \in DOMAIN r.candidates : r.candidates[i].symbol = r.candidates[j].symbol => i = j
    /\ {c.symbol : c \in Range(r.candidates)} = {c.symbol : c \in {x \in Range(r.cards) : x.fits # NoCard}}
    /\ {c.symbol : c \in Range(r.candidates)} \subseteq Range(r.symbols)
    /\ IsPrefix(r.proposal, SymbolsOf(r.candidates))
    /\ \A l \in Range(r.lines) : l.symbol \in Range(SymbolsOf(r.candidates)) /\ l.strategy \in Heads
    /\ r.lines = <<>> => \A i, j \in DOMAIN r.candidates : i < j => r.candidates[i].fit >= r.candidates[j].fit

\* A watchlist changes only by a person's settings or by a proposal of a
\* finished screening, and then holds only what that proposed or what was
\* watched before, within the maximum that is set now.
WatchlistStep ==
    settings'.watchlist # settings.watchlist =>
        /\ Len(settings'.watchlist) <= settings'.watchlist_max /\ settings'.watchlist # <<>> /\ Range(settings'.watchlist) \subseteq Perpetuals
        /\ \/ IsPrefix(settings'.watchlist, settings.watchlist)
           \/ LET r == screens'[lastWrite'.row]
                  old == IF lastWrite'.pick = Absent THEN {} ELSE Range(settings.watchlist)
              IN  lastWrite' # Absent /\ r.status = "done" /\ Range(settings'.watchlist) \subseteq Range(r.proposal) \cup old

\* What the radar puts before a person, or on the watchlist by itself, comes
\* from what it screened (screener.ts, radar.ts).
PicksAreBacked == [][(\A i \in DOMAIN screens' : Backed(screens'[i])) /\ WatchlistStep]_screenVars

\* Known not to hold: the setting is read when a screening begins; switched
\* to "propose" meanwhile, the watchlist is still replaced (radar.ts:246).
AutoIsWanted == [][lastWrite' # lastWrite /\ lastWrite'.by = "auto" => settings.apply = "auto"]_screenVars

\* Known not to hold: a person who picks nothing gets everything.
PickIsApplied == [][lastWrite' # lastWrite /\ lastWrite'.pick # Absent => Range(settings'.watchlist) \subseteq Range(lastWrite'.pick)]_screenVars

\* Known not to hold: a symbol the model names first and again last comes
\* after those it names between.
ModelOrderKept == \A i \in DOMAIN screens : screens[i].lines # <<>> => screens[i].candidates[1].symbol = screens[i].lines[1].symbol
=============================================================================
