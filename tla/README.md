# Trading Swarm: TLA+ models, checks and proofs

This directory specifies the parts of the repository that decide over money: the trading loop of the gateway
(`packages/gateway/src/demo/`) with everything that feeds it (queue, timers, confirmations, sizing, indicators,
screener, strategy library), the execution backends below it, the Rust execution daemon and its client
(`crates/execd`, `crates/exec-core`, `exec-client.ts`), and the contracts both languages share. Every definition
is read off the source; `PROJECT.json` maps each one to its lines.

## 1. Inventory

The system is a TypeScript gateway, a web UI and an optional Rust execution daemon.

| Component | State it keeps | Operations | Hard behaviour | What makes it correct |
|---|---|---|---|---|
| Brain queue (`queue.ts`) | waiting jobs, running job | `enqueue`, `drain`, end of a job | priority jobs, throwing jobs, re-entry from callbacks | a key at most once, never idle with work, order among equals, every job starts |
| Strategy threads (`threads.ts`) | status, entry id, submit marks, attention flag | `newThread`, `reconcileThread`, `reduceReview`, `openingBlockers` | facts that are missing, late or contradict each other | no verdict from a missing fact; an unprotected position is flagged |
| Trading loop (`runtime.ts`) | thread and intent rows, halt flag, last account read, timers, passes and calls in progress | opening, `pollAccount`, reconciliation, `placeProtection`, `halt`, closing, adoption, switch of the backend, canary | every operation awaits the exchange several times and others run meanwhile; answers are lost or late; crashes | one entry order per thread, none orphaned, stop or flat, a halt flattens, limits hold |
| Backends (`execution*.ts`) | caches, paper account, child process | account, orders, stops, closes | unknown outcomes, orders not visible yet, several requests per call, caches | an outcome that is not known is reported as unknown; reads after writes are fresh |
| Confirmations (`confirm.ts`, parts of `runtime.ts`) | tokens, intents, settings proposals | issue, consume, approve, reject, propose, apply | content that changes between dialogue and click, restarts, expiry | a token works once, for what was shown; chat alone widens nothing |
| Workflow settings (`workflow.ts`) | one settings object | `applyWorkflowPatch` | keys that bound each other | bounds hold in whatever order keys are edited |
| Gates, sizing (`gates.ts`, `filters.rs`) | none | `evaluateGates`, `computeSizing`, lots and filters | rounding, values that moved between sizing and sending | the order sent stays within the risk the settings allow |
| Episodes (`graph.ts`, `context.ts`, `schema.ts`, `info.ts`, `brain.ts`, `chat.ts`) | episode rows, the registry of evidence, the market state | scans, reviews, chat turns, the information officer | minutes between question and answer; answers outside the contract, a second attempt | a review acts on the thread as it is; what counts of an answer is legal and cited, or the fail-closed one; what opens a thread was fresh |
| Market data (`indicators.ts`, `market.ts`, `bar-metrics.ts`, `triggers.ts`, `outcome.ts`, `klines.ts`) | bars on disk | series, rows, cards, paging | warm-up, the forming bar, overlapping loads, lost pages | no value uses a later bar; what the cache says it covers it holds |
| Strategies, screener, radar (`strategies.ts`, `screener.ts`, `radar.ts`) | versions, screenings, watch list | draft, promote, retire, resolve; screen, apply | settings that change during a screening, invented model answers | a live judgment uses a version that earned it; a pick has a card behind it |
| Store, HTTP (`store.ts`, `state-db.ts`, `http.ts`, `routes*.ts`) | SQLite rows | load and save, routing | none: the calls are synchronous | |
| Exec RPC client (`exec-client.ts`) | pending requests, subscription, last event | call, time-out, reconnect, resubscribe | late answers, lost connections | a time-out is no answer; no event skipped or repeated |
| execd (`crates/execd`) | intents, policy, event log, lease | propose, reject, policy, events, start | handlers that read, decide and write in separate transactions; two instances | one intent per key, the log tells every change |
| exec-core (`crates/exec-core`) | rate budget, account cache | `acquire`, requests and retries, stream updates | bans, torn answers, silent streams | no order twice, honest errors, a fresh cache is true |
| Contracts (`packages/contracts`, `crates/contracts-rs`) | none | validate, (de)serialise, canonical form, decoders, status tables | each language has its own code | what one side writes the other reads the same |
| Web UI | none | presentation | | |

How they interact. `executeOpen`, the account poll, `halt` and the closing paths are asynchronous functions of
one process that share the rows in the store, `this.account` and `this.halted`. They call each other and meet at
the exchange. Timers, market moves, chat and people put jobs into the brain queue; a job asks a model, and its
answer opens, reviews or closes threads through the loop, or changes settings through proposals that a person
confirms with a token. The loop reaches the exchange through one of four backends; the demo backend is a child
process built on exec-core. `ExecClient` talks to execd over a Unix socket, in the messages of the contracts.

`PROJECT.json` lists the hazards of this code with their lines and the properties that watch them.

## 2. Modules

| Module | Models | Notes |
|---|---|---|
| `KeyedMutex` | what the queue promises | abstract: a set of waiting keys, one running |
| `BrainQueue` | `queue.ts` | `enqueue` and `finishJob` are its entry points, `drain` is part of both |
| `Threads` | `threads.ts` | `Verdict` is the order-sensitive chain of `reconcileThread`, `Apply` what a verdict writes |
| `TradeLoop` | the order life cycle of `runtime.ts` | extends `Threads`; await points explicit |
| `JudgmentGraph` | `graph.ts`: node, allowed actions, what an action does | shared by the next two |
| `Desk` | the rest of `runtime.ts`, the timers of `radar.ts` | extends `BrainQueue`, `JudgmentGraph` |
| `Judgments` | `context.ts`, `schema.ts`, `executeEpisode`, `info.ts`, the gates on evidence of `gates.ts` | what a model is shown and what of its answer counts |
| `Confirmations` | `confirm.ts`, approvals and proposals of `runtime.ts`, `applyWorkflowPatch` | |
| `Paper` | `PaperBackend` | integer money, snapshot and restore; resting orders are a set, their ids say which came first |
| `Backends`, `Canary` | the demo, cli and agent backends; `verifyProtection` on top of them | a call is a program of requests |
| `Execd`, `ExecRpc` | the daemon; the client, socket and server around it | one store call is one step |
| `Rest` | `rest.rs`, `ratelimit.rs`, `error.rs`, `demo_exec.rs` | relative time |
| `AccountStream` | `account_stream.rs` | with an engine that reads and writes |
| `Rationals`, `Sizing` | `gates.ts`, the two places that size, `filters.rs` | exact fractions |
| `Indicators`, `BarMetrics`, `Fits` | `indicators.ts`; `market.ts`, `bar-metrics.ts`, `review-metrics.ts`, `triggers.ts`, `outcome.ts`, `reversion-stats.ts`; the cards of `screener.ts` and the evidence of `strategies.ts` | pure, on a window of bars that grows |
| `Klines`, `Strategies`, `Screener` | `klines.ts`; `StrategyLibrary`; `runScreen` and `Radar` | |
| `ContractSchemas`, `ContractTypes`, `ContractStructs`, `Contracts` | `schemas.ts`; `contracts.ts`; the structs of contracts-rs; what must agree between the three | the first three are tables |
| `MC…` | | instances for TLC |
| `TradeLoopProofs`, `DeskProofs`, `ConfirmationsProofs`, `ExecRpcProofs`, `RestProofs`, `AccountProofs`, `ResearchProofs`, `BackendsProofs` | | theorems, section 5 |

**TradeLoop.** A process is an asynchronous function in progress: `executeOpen` of a thread, the poll
(single-flight), an emergency stop and a closing path. `op[p]` is its frame: the await point, the thread and the
*copy* of its row in hand, what an earlier call reported. An await takes three steps: the process asks; `Serve` is
the exchange acting and fixing the answer; a step of the process consumes it and runs to the next await. Between
any two of them everything else may happen. Where the code reads the row again the model uses `thr[t]`, where it
goes on with the old object the model uses `op[p].th`. An answer can be lost, a request arrive late, a lookup miss
an existing order, a call fail with or without effect, a stop disappear, the host crash; `Troubles` says which a
run admits, `MaxFaults` how many. Backends differ for the loop in three ways. `GoneIsOk`: canceling an order that is
not live counts as done. `Fifo`: answers come back in the order the requests were acted on, as from a child process
that works through its input (demo). `OneRun`: a market entry goes out with its stop and take profit in one run of
the agent (`openWithProtection`), which is two requests at the exchange, the stop only behind a filled entry; its
report (`leg`) is consumed by `placeProtection` without a call of its own (`StopReported`).
Gates other than "one open thread per symbol, no position, not halted" may refuse at any time.

**Desk.** Synchronous code that asks for several judgments is a list of requests, and nothing else runs before the
list is empty. An entry that was sent fills, and a position leaves: what an order does in between is `TradeLoop`'s.
A *play* names the parts that are active in a behaviour, so that each combination of interest stays small.

**Judgments.** An answer is the record of what the validator tells apart: a value is there, absent (`Null`) or of
the wrong form (`Malformed`), texts are there or not, references are positions in the registry. Lists over a limit
are cut before they are checked, which the model leaves to its inputs. `market.as_of` is taken after the episode's
own time, so on the desk the price line is never marked stale: the age of the snapshot is watched by the gate.

**Backends.** A request is on the wire until the exchange executes it, which may be after its caller has given up.
Two callers or the canary share a backend; the agent backend has its account cache and joins reads in flight.

**Execd and ExecRpc.** Every request of execd is a task on a multi-threaded runtime; a handler that reads,
decides and writes is two or three steps, because it is two or three store calls. A lost connection loses both
directions, except what had arrived; a subscription replays pages of the log and then follows the broadcast.

**Rest and AccountStream.** Timers are ticks that are left, so time has no bound. The engine of `AccountStream`
has no code in the repository; it uses the cache as the comments and tests of `account_stream.rs` say.

**Sizing to Screener.** Numbers are exact fractions where the code has doubles or decimals; the square root of the
standard deviation is compared by squares. Bars come one at a time from a set of four that includes gaps, a flat
bar and a new session. In `Klines` every page is an await, in `Screener` every model call.

**Contracts.** A message is its set of members, those among them that are null, and the literal that decides (the
tag of a union, the method of a request). `schemaValid` is what the schema accepts, `Deserializes` and `Serialized`
what serde does with the struct, and `Typed` what the TypeScript types of `contracts.ts`, against which the gateway
is compiled, let its code assume. Three rules over several members are in the schema only (a cancel names an id,
an order reference is not empty, an authorization by a user carries the echo): values of execd are taken to meet
them. The decoders get bytes of four kinds, in every division into chunks.

## 3. Runs

| Run | Instance | Shows |
|---|---|---|
| `desk` | 2 symbols, 2 channels, 3 rows, 11 plays of 2 to 5 requests | the queue is sound, refines `KeyedMutex` and starts every job; openings stay within limits although the checks lie before awaits; reviews fit the status they meet; settings name the backend that runs; timers are not lost; losses are not taken for transfers |
| `confirmations` | 1 intent, 1 proposal, 2 tokens, clock 0..2 | tokens work once and for what was shown; chat widens nothing; decisions are final |
| `loop` | 1 thread, entry and stop in one run or two, 2 faults of any kind but a position that leaves, FIFO | one entry order per thread, its id stored, nothing orphaned, no naked position unnoticed |
| `loop_stops` | entry and stop in one run or two, positions leave, queries answered | every position gets a stop or is flattened |
| `loop_halt` | restored thread, failures, restart, a person closing or resuming | a halt flattens, and threads end on exchange facts only |
| `loop_close` | an opening and 2 requests to close, `GoneIsOk = FALSE` | the closing paths end threads only on exchange facts and orphan no entry |
| `loop_people` | all requests, partial fills, expiry | the remainder of a partial fill is canceled |
| `exec_rpc` | 1 key, 2 contents, 2 starts, log of a few events, page 3, bus 3 | one intent per key, true answers, a log that tells all, one lease holder, every event once and in order |
| `rest` | 2 tasks, budget 4, 2 faults | orders once, honest errors, known bans kept, every operation ends |
| `account_stream` | 1 order, 2 moves, 2 faults | a fresh cache fed by the stream alone is the account; it recovers |
| `backends` | 2 callers or the canary, 1 fault; paper with 2 prices, 2 sizes, 6 moves | receipts honest, reads fresh, canary record backed, books kept over restarts |
| `research` | 7 proposals x 18 filters; 6 bars of 4 kinds; 2 loaders, 3 loads; 3 versions, 2 runs; 3 symbols, 2 screenings; answers of two models with one fault each, clock 0..4; every message with every set of optional members; 6 bytes in chunks of up to 3, lines of up to 2 | orders within the risk budget; series without hindsight; equal answers from the separate copies of one computation; an honest bar cache; live versions that earned it; picks with a card; judgments that are legal and rest on fresh evidence; gateway, its types and execd agree on the wire |

Why the bounds are enough. One thread suffices for `TradeLoop`: the symbol admits one open thread, and every race
is between processes over one row; several threads are `Desk`'s. Two faults cover a failure and the failure of
what should repair it. Two tokens let a second compete with a used one, and the clock runs past both lifetimes.
Two starts of execd are a crash and a take-over; the script `Stops` logs four events, more than a page and a bus
hold, so that a replay is cut into pages and a follower is told that it lags; its caller waits for each answer. Six bars pass the longest warm-up of the shortened spans (`Span`). Two loaders and three loads
let one write the file while another still holds the old one. The clock of the episodes passes
every age limit once with a market state, news and a snapshot at hand. Two-byte lines and six bytes hold a line that is too
long, a blank line, a broken one and a good one behind it. Bounds are named in the modules and set in the `.cfg`.

`research` puts areas that share no state into one run; a behaviour belongs to one of them. Deadlock checking is
off where the bounded system may stop (`desk`, `exec_rpc`, `rest`, `account_stream`, `backends`, `research`: all
requests made, all bars closed, all bytes sent); the liveness properties of the first four say what must not stop.

Each property of a run has a mutant in `PROJECT.json`: a definition changed as a plausible bug would change it,
under which TLC finds the property violated.

**Fairness.** Loop: the poll timer fires again and again (`setInterval`), a process consumes an answer it has, time
limits pass, a late entry arrives (weak); requests are answered because all backend calls have time-outs (strong,
since on a FIFO channel a request is held up by other requests' unconsumed answers). Queue and desk: a running job
goes on and ends, every call in it has a time-out; synchronous requests and the last steps of an opening go on.
`ExecRpc`: the reconnect timer fires, tasks and forwarders of the runtime are scheduled, execd is started again by
its supervisor. `Rest`: time passes, a request has a fate (the HTTP time-out), a task goes on. `AccountStream`: the
worker goes on, the stream is read again and again (strong on `Receive`, which a disconnection disables). Nothing
is assumed of people, the market or faults.

## 4. What does not hold

These formulas are in the modules with the instance that refutes them. They delimit the passing runs, whose
instances leave out exactly these cases.

| Formula | What the code does |
|---|---|
| `TradeLoop`: `TerminalIsFinal` | a stale copy written by a pass or an opener reopens an ended thread (`runtime.ts:999`) |
| `StopOrFlat`, `OrdersOwned`, answers out of order (`Fifo = FALSE`, so with the agent) | an account read from before a fill closes the new thread and cancels its stop |
| `ProtectionIsRetried` | `PROTECTION_MISSING` is acted on only when it is raised, and outside the retry window (`runtime.ts:1001`) |
| `NoOrphan` with `Closers`, `GoneIsOk` | a close from the order panel or a review ends a thread whose entry is in flight (`runtime.ts:2086`) |
| `HaltFlattens` with an opening in flight | so does an emergency stop (`runtime.ts:1258`) |
| `EndsOnExchangeFact` with `Chat` | rejecting a close proposed in chat cancels the thread in position (`runtime.ts:1905`) |
| `FilledIsNoticed` | filled and gone between two polls: the thread stays `pending_entry` (`threads.ts:111`) |
| `CanceledOnlyWhenFlat` | after a lost receipt CANCELED counts as failed although a part filled (`runtime.ts:1757`) |
| `GoneIsCanceled` | an entry the exchange never got leaves the thread pending (`threads.ts:148`) |
| `RemainderIsCanceled` with `PartialLag` | a lookup that finds nothing clears `ENTRY_REMAINDER` (`runtime.ts:971`) |
| `IntentsSettle` | `halt` and `cancelEntry` do not settle open intents (`runtime.ts:1281`) |
| `Confirmations`: `AppliedAsPreviewed` | `watchlist_max` is not in the fingerprint of a watch list proposal (`runtime.ts:1867`) |
| `Desk`: one thread per symbol, adopted ones included | `adoptPosition` looks before its await (`runtime.ts:2011`) |
| `Desk`: every open thread on the running channel | `switchBlocker` is asked before the await of `start` (`runtime.ts:587`) |
| `Desk`: judgments of a day within the cap | the cap is looked at when a job is queued (`runtime.ts:634`); `CapOvershoot` bounds the excess |
| `Desk`: `LossesCount` without its last disjunct | 20% lost between two polls count as a transfer (`runtime.ts:932`) |
| `Backends`: `CanceledIsGone` with `BlindRefusals` | the cli backend counts a refused cancel as done |
| `Backends`: `AlwaysFresh` | an agent account read in flight while a write returns refills the cache, and shows its joiners, the state before the write |
| `Paper`: `Ledger`, `NoStrayStop` for `Careless` callers | the remainder of an entry larger than the opposite position vanishes; a stop without a position stays |
| `ExecRpc`: `HaltStopsProposals` (`HaltRace`) | the policy is read before the transaction that inserts the intent |
| `ExecRpc`: `VersionsAdvance`, `EmergencyStays`, `HaltIsTold` (`PolicyRace`) | `policy_set` compares `base_version`, and both writers judge what changes, outside the transaction (`app.rs:75`) |
| `ExecRpc`: `EventsArrive` (`Stops` with `BusCap = 1`, `Page = 1`) | a subscriber that falls behind the broadcast loses events, while the comment at `rpc_server.rs:22` says it is told |
| `Rest`: `NoSendIntoKnownBan`, `SkewMeansDrift`, `HonestErrors` with torn writes or two legs | a ticket taken before the ban is used; a torn answer to a write reads as a certain failure |
| `AccountStream`: `Converges`, `ReadAfterInvalidate` | a REST read begun before a write refreshes the cache after it |
| `Sizing`: `StopStillAhead` | the mark may have passed the stop when the order is sent (`runtime.ts:1716`) |
| `Sizing`: `FiltersTakeIt` | the exchange refuses a quantity over a symbol's maximum, which no gate looks at (`gates.ts:77`) |
| `Indicators`: `SnapshotIsCurrent` | a snapshot takes the newest value that is ready, also of an older bar |
| `Klines`: `NewestBarIsThere` | gaps shorter than a bar are not fetched (`klines.ts:72`) |
| `Strategies`: `EvidenceIsOwn`, `RetiredStaysOut`, `HashIsContent` | evidence is inherited, a retired version can be promoted, a migrated version keeps its hash |
| `Judgments`: `ReasonsAreFresh` | a reason may cite a line marked stale that `evidence_refs` leaves out (`gates.ts:46`, `runtime.ts:1557`) |
| `Judgments`: `CitedBriefIsWritten` | the market state that replaces a failed summary is fresh evidence (`info.ts:321`) |
| `Judgments`: `IllegalIsTheModels` | the fail-closed HOLD for an ended thread is recorded as an illegal action of the model (`runtime.ts:1518`) |
| `Judgments`: `TargetIsAhead` | `take_profit_price` is compared with the entry (`gates.ts:65`), the first of `take_profits` is what is placed (`runtime.ts:1736`); `graph.ts:69` states the guard for the target |
| `Screener`: `AutoIsWanted`, `PickIsApplied`, `ModelOrderKept` | settings are read at the start of a screening; whitelist and maximum cut picks |

On the wire, outside `WireAgrees`: execd does not enforce the three rules over several members; `classifyOrderOrigin`
takes any id with the prefix for local, `classify_order_origin` only one that parses; the gateway's canonical form
takes 1.0 and sorts keys by UTF-16 units, execd's refuses it and sorts by code points; the gateway's `encodeFrame`
has no limit, and a line that is too long ends the connection at execd.

## 5. Proofs

TLAPS checks the following for every value of the constants. Each invariant below was checked by TLC on the
instance of its run before it was proved.

- `TradeLoopProofs`. What `reconcileThread` may conclude, for all rows and facts: `ReconcilePending`,
  `ReconcileInPosition`, `ReconcileKeepsEnded`, `ReconcileType`. `LoopTypeOK`: the invariant `TInv` adds to `TypeOK` that a frame waiting for a call about a
  thread names a thread, without which the writes after the await would be ill-typed. `LoopSentAtMostOnce`: the
  invariant `SInv` says that nothing was sent for a thread whose intent nobody has taken over, and that from the
  take-over to the request the intent is decided and the frame is at an opening await point; `QuietSteps` disposes
  of all steps that neither open nor send.
- `DeskProofs`. First the queue: the inductive invariant `IInv` is `TypeOK /\ NoDuplicateKeys /\ WorkConserving`;
  `DrainKeeps` and `InsertKeeps` carry it over `drain` and the insertion, for any list that holds a key at most once.
  `QueueIsSafe` follows. `QueueImplementsKeyedMutex` maps the sequence to the set of its elements; it needs
  `NoDuplicateKeys`, since dropping the head removes a key from the set only if the key occurs once.
  Then the desk: the invariant `DeskInv` is `DeskTypes /\ Limits /\ CapInv /\ TimersInv`. The code checks its limits for
  the channel that runs, and a switch can leave a channel and take it up again: `Limits` therefore speaks of every
  channel, and of what is between the check and the row. `CapInv` bounds the judgments of a day by the cap, what the
  queue still holds and the chat turns that may still propose (`ChatsAhead`). `TimersInv` says of each part of the
  start and of the switch which timers are armed. From it follow `OpeningsStayWithinLimits` and `TimersStayArmed`.
  `ReviewsFit` and `ExecutionNamesTheBackend` need the types and the step that read the row last.
  `DeskKeepsTheQueue` shows that all the desk does to the queue is an enqueue or the end of a job; by it the theorems
  about the queue, the refinement included, hold of the queue inside the desk. That the row id of a new
  thread exists and is free (the least one) rests on the well-foundedness of the naturals.
- `ConfirmationsProofs`. The invariant `CInv` is `TypeOK /\ ProposalInv /\ TokenInv /\ ConfirmedAsShown /\
  ChatWithinRights`. `TokenInv` ties a live token to the dialogue that showed it and to a nonce that was never
  issued before; `ProposalInv` says that what waits to be applied is a patch the settings accept, which keeps the
  settings within their bounds when it is applied later. From it follow `TokensAreSound`, `ChatStaysWithinRights`
  and, as an action property, `DecisionsStayFinal`.
- `ExecRpcProofs`. `LeaseInv` (who runs holds the lock and took the newest lease) gives `RunningHoldsTheLease`.
  `RpcInv` is the invariant of everything between two processes: rows and index of the store (`StoreOK`), handlers
  half done (`TasksOK`), calls and their ids (`CallsOK`, `IdsOK`), who made a row (`OriginOK`), frames on the wire
  (`FramesOK`), forwarders, client and subscription. `IntentsStaySound` needs that an answer under way was computed
  from a row that no later handler rewrites; `LogTellsEveryIntent` that an event number is given once and frames of
  one connection keep their order. `LogTellsEveryChange` adds the policy, without a
  condition on who calls: `app.rs` reads the policy before the transaction that writes it, so two writes under way at
  once can log a version twice (section 4). `PolicyInv` says of each handler under way that the policy it read is the one it will
  replace, or the version it will write is in the log already; so the last policy event always has the version that
  stands, and a log without a repeated version is right about the halt.
- `RestProofs`. The invariant `RestInv` is `RInv /\ FewOrders /\ BanKnown`: what a task is about to send belongs to its
  operation (`Consistent`), where in an operation an order can have been taken, and that the limiter knows each ban
  an answer has told. `OneOrderIsPlaced` holds without conditions. `OrdersAreHonest` holds if no answer to a write
  arrives torn and no close has two legs, since a torn 2xx body and a failed second leg are reported as errors of
  a kind that means "nothing was done" (section 4). `BanIsKept` holds if `BanSpan <= MaxBan`: the limiter cuts a
  longer ban off at `MAX_HONORED_BAN`.
- `AccountProofs`. The cache of a real account: the invariant `StreamInv` is `Types /\ Shape /\ QueueTrue /\ CacheTrue /\ SnapshotTrue /\
  WritesKept`. A cache is never equal to the exchange at every moment; the invariant says that of the events under
  way the last one about an order tells its status, and where there is none the cache, or the snapshot on its way
  into it, has it already. `CacheIsTrue` follows.
  The books of a simulated one: a tick fills resting orders one after the other, and a cancellation finishes them one after the other:
  chains over the ids. `Iterates` shows that such a chain exists and `UpTo` that what every link keeps holds at its end;
  both rest on the least element of a set of naturals. `CloseIs` and `FillIs` say of a single fill what it does to the
  books. The invariant `PaperInv` needs that ids are unique and never both resting and finished (`Sound`): a triggered
  stop is first canceled with its siblings by `closeAt` and then overwritten as filled, which leaves it one fate only
  because an id is on record once. It holds whatever callers do, and gives `RestartsAreSeamless`; that a snapshot of a
  restored desk is the same snapshot is `KeptIs`. `PaperStaysSound` holds if `Careless = {}`: `TidyNow` adds that position
  and orders are on one side, which callers keep up by `openingBlockers` and by placing stops only for a position. With
  the slips of `Careless` the books do not close (section 4).
- `ResearchProofs`. The bar cache: what a load fetched is true of every bar with a tick in it (`Fetched`), what the file says only of
  bars that lie in it whole (`Known`): a bar may lie across a span that was covered before and one fetched now, and
  the two kinds of coverage are joined in `WrittenTrue`. `PagesDown` says that pages continue each other downwards
  without a bar between them, `Paged` and `Asked` which part of which gap is still to come, and `InARun` that what
  is not covered lies in some gap. From `KlinesInv` follows `BarCacheIsHonest`. The spans that are missing are a set
  of which the oldest is asked for next, which is the order of the code and needs no sequence.
  The strategy library: a step may add a version below paper, rewrite one, or move the newest by one rank (`Grows`);
  `GrowthIsAStep` shows that the version a live judgment resolves to then only moves to newer ones, for a version at
  paper or above leaves only by retirement, and only the newest is retired. `RewriteKeeps` and `AppendKeeps` serve all
  actions; `LInv` adds that a positive expectancy comes from a run (`Evidence`). `LiveVersionsAreEarned` follows.
  The judgments: `FaultlessIsLegal`: an answer in which the validator finds no fault is a legal judgment where its
  action is allowed, for any answer. `AttemptRemembered`: the record keeps the first action that was not allowed,
  over both attempts. The invariant `GInv` adds to the claim what holds before there is a judgment: the marks of the
  registry are those of the moment the episode began (`Marked`), and what the first attempt left (`Attempts`).
  `GatesKeepFresh` draws freshness from the marks, `StoredStateHolds` the contract of the market state from its
  validator. From it follows `JudgmentsAreGrounded`, for any replies, feeds and limits.
- `BackendsProofs`. The invariant `BackInv` is `TypeInv /\ Sane`: each call that sends an order (`Pending`) and each
  entry of the history (`Receipt`) is tied to what is on the wire and to what took effect, so that "failed" is only
  said when no request of the call can still arrive. `GoneInv` adds what makes a cancellation final: an entry that was
  reported as resting is settled once a later call of its task has canceled it, and a cancellation in two requests
  remembers what the first of them saw (`Ripe`). `AnswersStayHonest` holds if `Plainly`: the cli backend is refused a
  cancellation only for an order that is gone, for it takes any refusal as that (section 4).
  `FreshInv` is about reads: every call under way may show all that the cache may show and the exchange as it is
  (`Held`), what a run has looked at it has seen (`LinesFresh`, `GotFresh`), and the cache of the agent backend holds
  nothing from before the last write that returned unless a write returned while the read that filled it ran
  (`CacheFresh`, the history variable `crossed`). `ReadsStayFresh` follows for every overlap of reads and writes. What it grants
  to joiners and to the cache is no more than what happens: `AlwaysFresh` (section 4). Both theorems are about `BackendSpec`, whose tasks follow their scripts; that
  they hold while the canary chooses its next call from the answers is checked by the run.

Two proof attempts failed for a reason. The guards of two CASEs of `Desk` (`edgeFor`, `Reconciled`) overlapped, where
TLC takes the first branch and the logic leaves the choice open: they are disjoint now. And `LossesCount` is not
true for every value of the constants: it counts losses in percent of the first equity of the day, and once a
withdrawal has moved the start of the day down, a fifth of it is less than that. It stays a property of the run.

Assumptions: the named `ASSUME`s of the modules (disjointness of thread ids and process names, natural bounds, key
sets), which TLC evaluates on the instances.

Model-checked only: everything under fairness (`NakedIsNoticed`, `StopOrFlat`, `HaltFlattens`,
`RemainderIsCanceled`, `EveryJobStarts`, `EventsArrive`, `OperationsEnd`, `EventuallyTracks`), which is out of the
prover's reach; `LossesCount`; the other properties of `TradeLoop`; the canary; and what is said of sizing,
series on bars, screenings and the contracts, which rests on folds and recursion over data.

## 6. Plan

Theorems to prove next, in the modules of proofs that exist: `OrdersOwned` and the closing of threads only on
exchange facts (`TradeLoopProofs`, with an invariant of what a frame at each await point has read).
`Canary` needs the lemmas of `BackendsProofs` for one task that runs a fixed program of calls. Where recursion is over
data (`Sizing`) the lemmas on single operators come before any invariant.

## 7. Not modelled

- Store and HTTP: synchronous rows, which the models take as durable at once, and routes that call one operation.
- Web UI, including `api/types.ts` and the translations: presentation; what a person can ask for is an action.
- Prompts and the processes of model CLIs: what a model answers is an input, valid or not, and `Judgments` has what
  the validator makes of it; the parsing of the news feeds' XML.
- Formats of single members of a message, signing, hashing, secrets, file modes, migrations, listening sockets.
- Of `contracts.ts` the `Demo…` types, which are those of the console's capacity view.
- The combined run of the agent backend is checked on a FIFO channel only: what fails when answers come out of order
  fails without it too (section 4). Of a run that outlives the gateway, the entry may still arrive, or the stop of a
  filled entry; that a late entry is followed by its stop is left out. The agent is taken to follow the order of
  sending it is given (`execution-agent.ts:477`), and the exchange refuses a stop without a position; where a report
  says of the entry "failed", no stop rests. What an agent that reports otherwise does to the caller is `Backends`'.
- `Confirmations` ends with the decision on an intent; that an approved one is later rejected by `abort`, filled or
  failed is `TradeLoop`'s. `AccountStream` leaves out that a read in flight for more than 60 s is taken over
  (`account_stream.rs:281`), and bounds no time a silent stream may still count as fresh beyond `MaxAge`. The account
  read inside `reducePosition` does not overlap other account reads of the agent in `Backends` (`MayBegin`).
- Account reads of the loop are one step although `DemoBackend.account` sends three requests; `Backends` has the
  three. A backend without `algoOrderExists` answers with null every time; in `TradeLoop` that is a fault and
  counts against `MaxFaults`. One emergency stop and one closing path run at a time.
