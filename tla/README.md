# Verification of the faculty-auxie trading platform

TLA+ models of the data and order paths of this repository, the TLC instances
that check them, and proofs checked by TLAPS.

Check a run with `tlc -config <Run>.cfg <MCModule>.tla`, a proof module with
`tlapm <Module>_proofs.tla`.  `PROJECT.json` lists the runs, the lines each
definition stands for, a mutation of the code that breaks each property, the
findings, the hazards and the theorems.

## The system

Five Node.js agents share one Redis.  Each runs its work in worker threads that a
change of its configuration key terminates and starts again; everything inside
one thread is an interleaving of its `await`s.

| Component | State | Operations | Talks to |
|---|---|---|---|
| gatherer `packages/gatherer` | per subscription: last book (`orderBookClone`), last balance (`balanceClone`), time of the last snapshot; per fetch loop: `lastTimestamp`, error budget, `_shouldRun` | one loop per `watch*`/`fetch*` subscription; handlers for books, trades, orders, OHLCV, balances | exchange (ccxt) in; Redis streams and the hashes `order.<tenant>.<id>` out |
| magicbox `packages/magicbox` | per stream: last id, cache of the newest 30 states; plugins with their own state | stream readers, `handleOrderBookMessage`, `handleOrdersMessage`, delivery to the plugins | Redis streams in; executor by HTTP or pub/sub |
| executor `packages/executor` | one `TradingService` per tenant, the running `createOrder`/`cancelOrder` calls | create with retries, cancel, reload | exchange; Redis stream and hash |
| dbsync `packages/dbsync` | last id per asset | a reader per listed asset that writes rows | Redis streams in, PostgreSQL out |
| apiserver, web | none of their own (the page holds copies of configurations) | read, change and write the configuration keys; queries | Redis, PostgreSQL |
| ConfigurationService, KillSwitchService `packages/utils` | the last configuration or state read, callbacks | read, subscribe, notify | Redis keyspace events |
| Redis | streams with generated ids, trimmed to 1000 entries; hashes; keys | XADD, XTRIM, XREAD, XREVRANGE, HGET, HSET | external |
| exchange | orders and books | accepts, fills, cancels, answers or fails to | external |

Where the difficulty lies, by component, and what correct means there:

* **Order books.** Two streams (deltas, snapshots) are read with one shared id,
  in an order that is not the order of writing; entries share milliseconds, are
  trimmed, and are written by workers that restart.  Correct: the reader's book is
  the book the gatherer published, no level missing and none twice.
* **Orders.** The executor, and two overlapping calls of the gatherer, write the
  same record and the same stream with an await between any two accesses; requests
  are retried; each process can die.  Correct: one order per request, every order
  and its final state reach magicbox, every order keeps the name of the module that
  asked for it.
* **Plugins.** Handlers run while earlier ones await the executor, whose answer
  may be late or missing.  Correct: one live order per grid level, no fill ignored;
  at most one live order of the spread trader.
* **DbSync.** Rows are written one by one from a message that may be replayed.
  Correct: every message gives its rows, and only once.
* **Configuration.** Several writers read, change and write whole documents;
  readers learn of changes by notifications they may miss.  Correct: no change is
  lost, an agent ends up with the stored configuration, the executor's exchanges are
  the gatherer's.
* **Balances, loops, kill switch.** A stale clone across an await; loops that stop
  for good or survive their service; callbacks before the first state.

## Modules

| Module | Content |
|---|---|
| `OrderBookFeed` | order books from the exchange to the cache of magicbox |
| `MCOrderBookFeed` | its instances |
| `OrderBookFeed_proofs` | type correctness, what the streams describe, and what a reader of healed streams holds |
| `OrderPipeline` | the life of orders between executor, exchange, gatherer and magicbox |
| `MCOrderPipeline` | its instances |
| `OrderPipeline_proofs` | type correctness, `RecordedIsAnnounced` and `AttributedUnlessRetried` |
| `GridPlugin` | the grid plugin of magicbox, with the executor and the exchange as it sees them |
| `MCGridPlugin` | its instances |
| `GridPlugin_proofs` | type correctness, `ReplacedAtMostOnce`, and of grids whose orders may cross `EnabledGridIsComplete`, `LiveIsTracked`, `LevelsAlternate` and `SubmissionsDoNotOverlap` |
| `SpreadTrader` | the spread trader plugin of magicbox, likewise |
| `MCSpreadTrader` | its instances |
| `SpreadTrader_proofs` | type correctness, `OpenIsAttended` and `AtMostOneAttended` |
| `ConfigStore` | the configuration documents, and the API requests and pages that change them |
| `MCConfigStore` | its instance |
| `ConfigStore_proofs` | type correctness, `StatusFollowsRequests` and `LoneSaveAgrees` |
| `ConfigMirror` | abstract: a copy of the configuration that may lag, but never goes back |
| `AgentReload` | `ConfigurationService` and the start and reloads of the agents; implements `ConfigMirror` |
| `MCAgentReload` | its instance |
| `AgentReload_proofs` | type correctness, `SettledRunsItsConfiguration`, `NothingEscapes`, the refinement |
| `Delivery` | abstract: the rows of a stream appear in its order |
| `DbSync` | the readers of dbsync and their rows; implements `Delivery` |
| `MCDbSync` | its instance |
| `DbSync_proofs` | type correctness, `NothingSkipped`, `CopiesExplained`, the refinement |
| `BalanceFeed` | the balance loops of the gatherer and their handlers |
| `MCBalanceFeed` | its instance |
| `BalanceFeed_proofs` | type correctness and `KnownIsPublished` |

### OrderBookFeed

One key (tenant, exchange, symbol), as keys share nothing.

| TLA+ | Code |
|---|---|
| `delivered` | the books ccxt handed to the handler; `data.nonce` is the index |
| `orderBookClone`, `snapshotDue` | worker.ts:78-79: the clone, and `(now - time) > ORDER_BOOK_SNAPSHOT_FREQ_MS` |
| `deltas`, `snapshots`, `ms` | the two streams as sets of entries with `<ms, seq>` ids, the clock of Redis |
| `phase`, `id`, `batch` | datastream-service.ts:73-121: before or after the snapshot is loaded, the shared id, the rest of an XREAD reply |
| `cached` | the newest cache entry; a bag of levels, since `concat` can repeat one |
| `HandleOrderBook` | worker.ts:82-114 with its `writeToStream` |
| `LoadSnapshot`, `XRead`, `HandleNext` | XREVRANGE and `<timestamp+1>-0`; XREAD of both streams; one message and its id |
| `LoseWrite`, `lostNonce` | the XADD is rejected after the clone has moved on; the history variable names the book |
| `RestartGatherer`, `RestartMagicbox` | the workers are terminated and started by `onInvalidate`, or die |

Asks and bids are treated alike and sorted at the end, so a book is a set of
levels.  The handler does not await its `writeToStream`, but one connection sends
commands in order and a command never sent is a book never received, so the handler
and its two commands are one step.  A command that Redis rejects is a step of its own,
because nothing looks at the result.  A message is handled to the end before the
next, since `handleOrderBookMessage` has no await.

Properties: `CaughtUpIsCurrent`, whatever was lost before, a reader with nothing left
to read holds the published book once the newest snapshot is retained with its deltas
and is *spaced* from its neighbours in time; `SpoiltOnlyBeforeSnapshot`, a wrong
book is always about to be replaced; `StreamsDescribeTheBook`, the two streams
fit together across restarts of the gatherer, unless a delta behind the snapshot was
trimmed or its write was lost; `EventuallyCurrent`, the reader catches
up.  Without the spacing the code does not give what the documentation says:
`RestartLoadsEntireState` is violated (see Findings).

### OrderPipeline

One tenant, exchange and symbol.  An order is reduced to its stage (absent, open,
closed, canceled): the fields `handleOrders` compares change exactly with it.

| TLA+ | Code |
|---|---|
| `stage`, `pushes` | the exchange: each order, and the changes `watchOrders` has yet to answer |
| `createJob`, `cancelJob` | the await each `createOrder`/`cancelOrder` call stands at, with its local variables |
| `calls` | the running `handleOrders` calls: list left, order, `prevState` |
| `fetched` | the orders older than `lastTimestamp` of the `fetchOrders` loop |
| `hash` | `order.<tenant>.<id>`: fields `order` and `orderSource` |
| `stream`, `read`, `orders` | the `watchOrders` stream, the reader's position, the cached list |
| `lost` | history variable: states a gatherer recorded and failed to announce |
| `StartCreate` ... `RecordCreated` | trading.service.ts:33-89, one action per await; `AfterFailure` is the retry |
| `CallCancelOrder`, `FetchCanceled`, `RecordCanceled` | trading.service.ts:91-103 |
| `WatchOrders`, `FetchOrders` | the two subscriptions that start `handleOrders` |
| `GetPrevState`, `RecordOrder`, `AnnounceOrder` | worker.ts:43, 45 and 50 |
| `RejectCreated`, `RejectCanceled`, `RejectOrder` | Redis rejects a command: the error ends the call, and with it the rest of its list |
| `ReadOrder` | datastream-service.ts:86-120 with `handleOrdersMessage` |
| `CrashExecutor`, `CrashGatherer`, `CrashMagicbox` | a process loses its memory; Redis keeps its own |

A call of the exchange may be refused, may be answered, and may succeed with its
answer lost; `createOrder` may be answered with or without a status.

Properties: `RecordedIsAnnounced`, a recorded state is in the stream or on its way,
with the two exceptions it names (a state `cancelOrder` recorded, and one the gatherer
lost between its two writes); `AttributedUnlessRetried`, orders carry the module
that asked for them unless a request was retried; `EventuallyListed`, every order
the exchange accepted is listed by magicbox although the executor may have lost it.

### GridPlugin

One instance of the plugin.  Its handlers are called for every event and awaited by
nobody, so the callers that may be inside a submission at the same time are
`Initialize`, any number of walks over the grid, and the holder of the lock.  What runs
between two awaits that wait for something is one step; a refused submission waits for
nothing, so a loop passes over refused levels within a step.

| TLA+ | Code |
|---|---|
| `orders`, `late` | the exchange; requests whose caller was not answered in time |
| `initPc` | the await `Initialize` stands at |
| `orderGrid`, `stored`, `enabled` | the grid, and the two keys in Redis (grid.ts:69-93) |
| `market` | `bestBid`, `bestAsk` (0: unknown) and the book `getOrderBook` returns |
| `jobs` | the submission each caller awaits, if any |
| `locked`, `waiting` | async-lock: the lock, and the closed orders queued for it |
| `checkForCross` | grid.ts:205-216.  With a best price 0 it compares with the cached book (`==`) where it means to assign, so 0 stays: every buy is refused, no sell is |
| `Start`, `Load`, `BeginInitLoop`, `InitLoop`, `Enable` | `Initialize` |
| `HandleOrderBook`, `WalkOn`, `AnswerWalk` | `Handle` of a book: the best prices, then a walk over the levels not in the book |
| `CacheBook` | a book older than 3 s reaches the cache, not the plugins |
| `HandleClosed`, `HandleForeign`, `Acquire`, `Dequeue`, `TimeoutWaiting` | `Handle` of a closed order and the lock |
| `onLockAcquired`, `Refuse`, `AnswerLock`, `modifyOrderInGrid` | grid.ts:285-337; every level of the price is changed |
| `Answer`, `AnswerEmpty`, `Timeout` | `submitOrderSynchronously`: an order; the empty body of an executor that caught an error (its `id` is undefined, and the plugin takes it for submitted); the exception after 2 s |
| `Restart` | the worker is terminated and started |

A handler that throws rejects a promise nobody awaits; the listener of logging-service.ts:28
logs it and the worker goes on, as the model does.

Properties: `LiveIsTracked`, the plugin knows the level of every open order whose answer
it got and kept; `LevelsAlternate`, the orders of a level follow each other, each placed when the
one before is filled, on the other side; `SubmissionsDoNotOverlap`, no level is
submitted twice at the same time; `ReplacedAtMostOnce`, a closed order is
replaced once, whatever walks, repeated reports, missing answers and restarts fall in
between, where orders the plugin never heard of do not count (a caller that gets
no answer leaves the entry as it was; once a restart has freed the lock, a second report may
ask again, and both orders may be placed);
`EnabledGridIsComplete`, what a restart loads is a grid all of whose levels were
submitted; `ClosedIsReplaced`, with an executor that answers, an order reported closed
after its level knows it is replaced.  The first three hold when orders may cross,
as then there are no walks; with walks `SubmissionsDoNotOverlap` is violated, and so are
the other two.

### SpreadTrader

| TLA+ | Code |
|---|---|
| `priced` | `this.balance` and `this.spread` are there (spreadtrader.ts:124) |
| `lastOrderId`, `nextAction` | the fields |
| `tick`, `waiting` | what the tick that holds the lock awaits; the ticks queued for it |
| `late`, `forgotten` | requests not answered in time; history: orders of whose fate the plugin did not hear |
| `Interval`, `Acquire` | `setInterval`, and `tick` up to its first await |
| `AnswerCancel`, `AnswerCancelEmpty`, `Canceled` | spreadtrader.ts:119-122; the answer is not looked at |
| `AnswerCreate`, `AnswerCreateEmpty`, `Created` | spreadtrader.ts:127-139 |
| `Timeout` | the catch clause: `done` is called, the fields stay as they are |

Properties: `OpenIsAttended`, an open order the plugin heard of is the one the next tick
cancels; `AtMostOneAttended`, there is one such order at most; `TickEnds`, the lock is
given back.  What the header comment promises, one live order and sides in turn,
holds only while no request fails.

### ConfigStore

The documents of the gatherer, the executor and dbsync under their keys, as the two kinds
of writers see them.  Every command of Redis is a step; nothing locks a key.

| TLA+ | Code |
|---|---|
| `config`, `version` | the keys; how often each was set |
| `Workplan`, `Pairs`, `Stream` | the data points a workplan may ask for; its asset pairs; a stream of a plan, a data point (or `snapshot`) and a pair |
| `assets`, `apiAssets`, `webAssets` | dbsync's list, as how often it names each stream; the list of the API server (datastreamrouter.ts:145-153) and that of a page (GlobalContext.js:107-127) |
| `request` | the await a request of the API server stands at, and the document it made |
| `page` | an open page: the copies of its state, a `getServices` and an `updateService` in progress |
| `alone`, `lastSet` | history variables: writers nobody disturbed, the last SET |
| `Load`, `Save` | the GET and SET of `setAgentState`, of the routes for exchanges and of those for workplans |
| `LoadFollower`, `SaveFollower`, `FollowerDoc` | `saveExchangesConfig` (exchanges.ts:153) and `syncDbsync` (datastreamrouter.ts:133): the second document |
| `Fetch` | `getServices` (GlobalContext.js:23): three GETs, shown at once |
| `Click`, `Updated`, `updateService`, `AfterSet` | a save (GlobalContext.js:80): the copies are changed in place and set one after the other |
| `Die`, `Close` | a request or a page ends half way |

`watchOrders` stands for every data point but the two the API server lists.  `Written` is what
the gatherer writes for its plans, and neither side can list all of it: the API server knows order
books, their snapshots and balances (`ApiKnown`), a page the first pair of a plan and no
snapshots (`PageKnown`).

Properties: `LoneSaveAgrees`, a save that no other SET fell into leaves the exchanges in line, and
dbsync reading, of the streams its writer knows, exactly those the gatherer writes,
whatever lost updates, outdated pages and half-done saves there were before.  Of the others dbsync
then reads none, which is what the code does (see Findings);
`StatusFollowsRequests`, an agent is started or stopped only because someone asked, by
an outdated copy, or, for the executor, by a change of exchanges.  Lost updates
themselves are what the code does: it reads, changes and writes back.

### AgentReload

One process and its key.  `kind` chooses one of the three main programs: the gatherer's,
which magicbox shares; that of dbsync; and that of the executor.

| TLA+ | Code |
|---|---|
| `stored`, `notices`, `replies` | the key (`NoConfig` as long as it does not exist), the notifications and the answers to GET under way |
| `boot` | where `getInstance` (configuration-service.ts:16-85) and the main program stand |
| `localInstance`, `agentConfig` | the copy of the service, the configuration of the last callback |
| `jobs` | the reloads, each at its await |
| `units` | workers, or trading services with their subscription; `listed` while the program knows them |
| `Read` | EXISTS finds the key and GET reads it (configuration-service.ts:35-38) |
| `FindNone`, `SetDefault` | EXISTS finds none; then a stopped default is SET, over whatever was stored in between (configuration-service.ts:39-55) |
| `Subscribe`, `HandleNotice`, `HandleReply` | configuration-service.ts:56-73 |
| `ReloadAtOnce` | gatherer index.ts:42-79, magicbox index.ts:37-56 |
| `ReloadDbsync`, `Prepared`, `RejectSchema` | dbsync index.ts:36-76: the workers start after `syncSchema` |
| `ReloadExecutor`, `Disconnect`, `SetupServices`, `Subscribed`, `Open` | executor index.ts:71-99, `disconnect` and `watchForCommands` |
| `Write` | SET by another process; the notification may be lost, or fall before the subscription |

Properties: `SettledRunsItsConfiguration`, once the reloads ended the agent runs its
last configuration, one unit per tenant; `NothingEscapes`, what runs can be stopped by
the next reload; `EventuallyAdjusted`, every change an agent hears of ends up as what it
runs; `IsMirror`, the copy never goes back.  The first and the third except reloads that
overlap (`overlapped`), the second only those of the executor, which nothing serialises.

`ConfigMirror` is the specification of `ConfigurationService` for its callers: `source` is
`stored.n`, `copy` is `localInstance.n`, and every step is a change, a refresh to a later
version, the default of a process that found none (`Supply`), a restart, or stutters.  It fails
as soon as answers overtake each other.

### DbSync

One stream and its table; assets share no state.

| TLA+ | Code |
|---|---|
| `log`, `first` | the stream: messages by number of rows, the oldest one kept after XTRIM |
| `copies` | how often each row is in the table |
| `up`, `Listed` | the workers that run; how often the list of each names the stream |
| `reader` | per worker and listing, `id`, the rest of the reply and the row of `syncAsset` (dbSyncService.ts:20-46) |
| `bad`, `Unstorable` | a message whose last row PostgreSQL never accepts |
| `gone`, `failedIn`, `begun` | history variables |
| `Start` | a worker is started; connected to the database it begins a reader per listing (worker.ts:23-25), otherwise none |
| `Stop` | it is terminated with its readers (index.ts:38) |
| `xRead`, `create`, `SkipMessage`, `AfterRow` | one XREAD; one insert; the id is noted after the last row |
| `Reject`, `LoseAnswer` | the insert is rejected, or its answer is lost: the rest of the reply is dropped |

Properties: `NothingSkipped`, a message behind a reader's id has all its rows, or left
the stream first; `CopiesExplained`, a row is there at most once per reader that was begun
and once more per failure of its message; `EventuallyStored`, with a reader
up a message is stored, or trimmed, unless one that never can be comes first; `IsDelivery`.
The readers of `CopiesExplained` include those of one worker: the list an API save writes
names a balance once per pair of the plan (datastreamrouter.ts:145-153), the worker begins a
reader for each, and each stores every row, without any failure.

`Delivery` hides readers and copies: `present` is the set of rows with a copy, and rows
appear message by message and in the order of a message.  Two readers, each from the
start of the stream, do not break it, as a reader ahead only leaves whole messages behind.

### BalanceFeed

One account; its plan has several symbols, each with handlers and a clone of its own.

| TLA+ | Code |
|---|---|
| `account`, `watches`, `news` | the exchange: balances, whether it has `watchBalance`, its answers to come |
| `loop` | `executeAction` (datastreamer-service.ts:113-200): `errorCount`, `lastError`, and its await |
| `clone` | `balanceClone` of each symbol (worker.ts:77) |
| `writes`, `added` | `writeToStream` calls that the handlers await, in the order of the connection; how many of them the stream has |
| `latest`, `torn` | the last entry of the stream; history: its handler was cut short |
| `Serve`, `DeliverFetched`, `DeliverWatched`, `Handle`, `Publish`, `Apply` | an answer, handled once per symbol, in the order of the plan, up to the write (worker.ts:154-172) |
| `Add`, `Written` | the XADD lands (worker.ts:31); it and the XTRIM are answered and the clone is set (156-160, 170) |
| `Reject` | the XADD is not carried out, or the handler is cut short behind it |
| `Fail`, `AfterError` | a rejected answer: the budget of errors (datastreamer-service.ts:133-151, 180-194) |
| `Start`, `Die` | the worker |

Properties: `KnownIsPublished`, when all symbols agree on what is known it is the last entry,
although other answers are handled between the XADD and the clone.  It speaks of streams whose
entries are answered: in between the last entry is a balance no clone holds yet, and an answer
like the clones is rightly handled as none.  `StreamFollowsAccount`, the stream ends up with the
account once it stops changing, unless the loop used up its budget or the handler of the
last entry was cut short (`torn`).

## Runs

| Run | Shows | Instance |
|---|---|---|
| `order_book_feed` | types, the three invariants, `EventuallyCurrent` | 1 level, 4 books, 4 ms, streams trimmed to 2, one restart or lost write of the gatherer, one restart of magicbox |
| `order_book_feed_restart` | violation of `RestartLoadsEntireState` | 2 levels, the same otherwise |
| `order_pipeline` | types, `RecordedIsAnnounced`, `AttributedUnlessRetried` | 1 order, 1 create with 2 tries, 1 cancel, 2 overlapping `handleOrders`, 1 crash of each process, 1 rejected Redis command |
| `order_pipeline_live` | `EventuallyListed` | 2 orders, 2 tries, a crash of the executor |
| `order_pipeline_final` | violation of `EventuallyFinal` | 1 order, no failure at all |
| `grid` | types, `EnabledGridIsComplete`, `LiveIsTracked`, `LevelsAlternate`, `SubmissionsDoNotOverlap` where orders may cross; `ClosedIsReplaced` | 2 levels, 4 orders, each reported closed up to twice, one mishap |
| `grid_walks` | `ReplacedAtMostOnce` where they may not | 3 orders, one walk at a time, books in between and one-sided, one repeated report, one mishap |
| `spread_trader` | types, `OpenIsAttended`, `AtMostOneAttended`, `TickEnds` | 4 orders, 2 failed requests, a restart, a queued tick |
| `config_store` | types, `LoneSaveAgrees`, `StatusFollowsRequests` | 2 requests, 1 page loaded once, 1 exchange, 1 workplan of 2 pairs with 4 choices of data points, 3 changes, 1 writer that ends half way |
| `agent_reload` | types, `SettledRunsItsConfiguration`, `NothingEscapes`, `EventuallyAdjusted`, `IsMirror` | each kind of agent; key there or not at the start; stopped, one tenant, two tenants; 3 writes, a lost notification, a restart, a rejected schema |
| `db_sync` | types, `CopiesExplained`, `NothingSkipped`, `EventuallyStored`, `IsDelivery` | a worker that lists the stream twice, two that list it once, 3 messages of no or 2 rows, stream trimmed to 2, 2 readers begun, 1 fault, copies counted to 3 |
| `balance_feed` | types, `KnownIsPublished`, `StreamFollowsAccount` | 2 tokens and values in 3 of their 4 combinations, 2 symbols, 2 changes, 3 errors with a budget of 0, 1 fault, answers handled with up to 1 write under way |

Bounds.  Streams trimmed to 2 entries lose deltas with 4 books, which 1000 entries would need
1001 books for; four milliseconds let entries share one, follow each other and be spaced.  One
level suffices for the run on the feed: it comes and goes, and levels are handled alike.  The
violation uses two: one that changes and one that does not. For orders, two overlapping
`handleOrders` calls are the two subscriptions; one order suffices for the invariants, as no
step relates two orders, and the theorems on `RecordedIsAnnounced` and
`AttributedUnlessRetried` cover any number.  Deadlock is not checked: every bound ends in a
state where nothing more happens, and so does the system when the exchange is quiet.

The two levels of the grid are one of each side, at 90 and 110; the order books lie
between them, where both may be submitted, or lack the asks, where the check of a sell
throws as long as the best ask is unknown.
Three or four orders are the first ones, a replacement, and a replacement of that or one
too many.  One mishap (an empty or missing answer, a foreign closed order, a restart) can
come at any await, and what it leaves behind stays for the rest of the run.

Two requests and a page are one writer of each kind and one to fall in between; three changes
are an exchange, a workplan and a status.  A workplan asks for nothing, for books, for balances
and orders, or for all three: each kind of stream comes and goes, and with two pairs the lists
of both sides differ from what the gatherer writes.  Three writes of a configuration give an
overlap of three reloads, or of two across a restart.  Two readers of dbsync are those of one
worker, or of the old and the new one; with three messages and two entries kept, one message
leaves before, while or after it is stored.  Copies are counted to 3, which is one for each
reader and one for the fault.  A budget of 0 errors is used up by three close together, as the
real one of 10 is by thirteen.  Two symbols are two handlers of one answer; a write under way
while the next answer is handled is what the clone is stale for.  An account that changes in
one currency, in both, and back needs three holdings; the fourth is one of them with the
currencies swapped.

Symmetry is used only in runs without liveness.

Fairness (`FairSpec`).  The reader's loop and the gatherer's loops are `while` loops around one
call and go on as long as their worker does; a call that was begun is resumed by the event
loop.  Hence weak fairness of the reader, of each call's steps and of the subscriptions taken
together.  Nothing is assumed of the exchange delivering a book or filling an order, of
requests arriving, or of crashes. In the plugins a task that is ready is run by the event loop,
a queued task is started when the lock is free, the timer of the spread trader goes off, and a
request is carried out and ends, if in no other way then with the exception after 2 s.  In
`AgentReload` what is awaited comes and the event loop goes on: weak fairness of the service's
steps and of the reloads' steps, none of writers or restarts.  In `DbSync` the loop of each
reader goes on while its worker is up (`WF_vars(syncAsset(r))`); nothing is assumed of
messages, or of a worker being started.  In `BalanceFeed` the worker is started again, the
exchange answers a poll, and answers and writes are handled; a loop that used up its budget
does none of it any more.

## Findings

1. A reader restarting from the snapshot misses deltas of the snapshot's millisecond
   (`RestartLoadsEntireState`, datastream-service.ts:82).
2. A filled or canceled order can stay open in the list of magicbox: executor and
   gatherer append in either sequence and repair nothing, and `cancelOrder` appends nothing
   (`EventuallyFinal`, trading.service.ts:81).

The models show more departures of the kind, for which no run is kept.  Feeds and orders:

* Deltas are applied before the snapshot they build on when one XREAD reply holds both
  (datastream-service.ts:94); `SpoiltOnlyBeforeSnapshot` says how long that lasts.
* A retry repeats `createOrder` and can place further orders (trading.service.ts:79), which is
  the condition of `AttributedUnlessRetried`.
* A gatherer terminated between recording and announcing silences its successor
  (worker.ts:45), which is `lost` in `RecordedIsAnnounced`.
* A first partial answer of `watchBalance` is published as if it were the whole balance, and
  one handled while another write is under way is merged into an older clone and published
  behind a newer balance (worker.ts:163); `StreamFollowsAccount` says the next poll repairs it.
* A handler cut short behind its XADD leaves its clone behind the stream: when the account
  goes back to what the clone holds, that is never published (`torn`, worker.ts:156).
* A loop that counted too many errors ends at the next one, however long after
  (datastreamer-service.ts:136).

Plugins:

* Walks over the grid and `Initialize` submit levels outside the lock, so a level can be
  submitted twice at the same time (grid.ts:110), against the comment at grid.ts:307; hence
  `SubmissionsDoNotOverlap` is checked where there are no walks.
* A handler that throws under the lock keeps it for good, as `done` is not called (grid.ts:131).
* A restart of the grid may go on with an older grid: refused replacements and walks are
  not stored (grid.ts:326-335, 115-118).
* After a failed request the spread trader can have a second live order, or two orders of
  one side in turn (spreadtrader.ts:119, 136); these are the `forgotten` orders.
* With a best price unknown the grid plugin refuses every buy and checks no sell
  (grid.ts:210).

Configuration and dbsync:

* Saving exchanges by the API writes the gatherer's whole document, its status included,
  into the executor's key (exchanges.ts:165): the third case of `StatusFollowsRequests`.
* Neither side lists for dbsync all that the gatherer writes.  A page lists the first pair of a
  workplan and no snapshots (GlobalContext.js:107-127); the API server only order books, snapshots
  and balances (datastreamrouter.ts:145-153).  A save by the API drops the streams of orders a page had
  listed and dbsync would store (dbSyncService.ts:54), and names a balance once per pair.
  `LoneSaveAgrees` compares, for each side, the streams it knows.
* When EXISTS finds no key, the agent sets a stopped default, which overwrites a
  configuration stored in between (configuration-service.ts:35-50).
* A change between the read of a configuration and the subscription is missed until the
  next (configuration-service.ts:35); so is one before `onInvalidate` is registered.
  This is `missed`.
* Overlapping reloads of the executor leave services subscribed that no map holds, or a
  reload ended by a rejected disconnection (executor index.ts:71).
* A message PostgreSQL never accepts is read again for ever, and its earlier rows are
  inserted each time; every restart stores what is in the stream again, and so does
  every further listing of a balance from the start (dbSyncService.ts:41, dbsync
  worker.ts:24): the reasons `CopiesExplained` names.

## Proofs

TLAPS proves, for every value of the constants under the assumptions named in the modules
(`TrimSizeAssumption`, `OpeningAssumption`, `TokenAssumption`, `NoneAssumption`,
`RetriesAssumption`, `QuoteAssumption`, `GridAssumption`, `SettingsAssumption`,
`BoundsAssumption`, `WriterAssumption`, `WorkplanAssumption`, `PairsAssumption`,
`ListedAssumption`, `SizesAssumption`) and, for four theorems about the grid, the hypotheses
they state:

* `OrderBookFeed_proofs!TypeCorrect`: `Spec => []TypeOK`.  `TypeOK` is not inductive:
  `Newest` chooses the entry of a stream no other follows, so a new entry's id is an
  id only if such an entry exists.  The invariant `IdInv` adds that a non-empty stream
  has one (`HasNewest`); it is kept because a generated id lies behind the newest
  (`AutoIdIsNewer`) and trimming keeps the newest (`WriteKeepsNewest`).
* `OrderBookFeed_proofs!StreamsFit`: `Spec => []StreamsDescribeTheBook`.  `StreamInv` adds that
  numbers and ids order a stream alike, that a stream never exceeds `TrimSize` (`Numbered`),
  and what entries are made from (`Contents`, `Chained`).  The crux is `WriteTrims`: XTRIM drops an
  entry only if as many as it may keep are after it, so what is behind the newest snapshot and
  still shorter than `TrimSize` has lost nothing (`DeltaKeeps`).
* `OrderBookFeed_proofs!SpoiltOnlyBefore`, `!CaughtUpCurrent`: `SpoiltOnlyBeforeSnapshot` and
  `CaughtUpIsCurrent`.  The invariant `Tracks` says that a listening reader of healed streams either
  waits (`Waiting`) for the newest snapshot, in its batch or unread with all it has before it, or
  `Follows`: its book is the snapshot's or a later delta's, and what it has and will be sent is
  exactly the deltas behind.  A new snapshot always leads to the first, because neither the
  reader's id (`IdKnown`) nor its batch (`BatchKnown`) is ahead of the streams by more than the
  millisecond `Spaced` allows for; handling the snapshot leads to the second, because a batch
  lists it last.
* `OrderPipeline_proofs!TypeCorrect`: `Spec => []TypeOK`, with `JobsNameOrders`: a call
  past its first answer holds an order, never `None`.
* `OrderPipeline_proofs!RecordedReachesStream`: `Spec => []RecordedIsAnnounced`.  The
  inductive invariant `AccountInv` adds the two facts the code relies on silently:
  what a `handleOrders` call read is accounted for (`PrevIsAccounted`; it stays silent
  when it finds its own state there), and the executor announces before it records
  (`CreatedIsAnnounced`).  First it is shown which steps write the stream, the hash,
  the calls and the jobs; then that what is accounted for stays so
  (`AccountedStays`); then one lemma per conjunct.
* `OrderPipeline_proofs!OrdersAreAttributed`: `Spec => []AttributedUnlessRetried`.  The
  property speaks of requests that have ended; `OwnerInv` says what holds on the way: as
  long as no request has had a failed try (`Clean`), every order of the exchange is held by one, and
  the record names that request when it has ended (`CleanIsOwned`).  A recording does not take an
  order from another request because requests hold different orders (`OwnOrders`), and a
  request that lost its try cannot be clean again because it counts its tries (`Tried`).
* `GridPlugin_proofs!TypeCorrect`: `Spec => []TypeOK`, with where Initialize stands (`Boot`)
  and what a caller knows while it waits (`Asking`).
* `GridPlugin_proofs!ReplacedOnce`: `Spec => []ReplacedAtMostOnce`.  The inductive invariant
  `OnceInv` says that who waits for the answer about an order is alone with it (`Asks`), that
  a grid, the plugin's or the stored one, holds only orders whose answer has come and that are
  not replaced, but for the one being replaced (`Fits`), and that this one is at levels of
  one price (`Aims`), so that the entry written when the answer comes removes it from
  every level.  A caller that ends without its answer makes its order one that does not count
  (`KeptSafe`), and a restart loads a grid without the orders under way (`RestartOnce`).
* `GridPlugin_proofs!EnabledComplete`: `CrossEnabled => (Spec => []EnabledGridIsComplete)`.
  `CompleteInv` says how far Initialize is: the levels below the one it asks for are in the
  book, and once it saves, the grid is complete and stored.  The hypothesis is the option of
  the plugin under which the property is claimed: otherwise `checkForCross` may refuse a level
  and Initialize passes it over.
* `GridPlugin_proofs!LiveTracked`, `!LevelsTradeToAndFro`, `!NoOverlap`: `LiveIsTracked`,
  `LevelsAlternate` and `SubmissionsDoNotOverlap` under
  `CrossEnabled /\ Distance > 0`.  None is inductive; `LadderInv` joins them.  An order under
  way is the youngest of its level and only Initialize and the lock have one (`Steady`); a grid
  holds answered orders at their own levels (`Holds`); the lock replaces the
  closed order its level holds (`LockFits`), while from Initialize's level on there are no
  orders at all (`InitFits`), so the two are apart (`Apart`); an order no entry holds is closed
  and older than its level's (`Tracks`).  A restart finds the known orders in the stored grid
  (`BeforeGrid`, `RestartLadder`).  `Distance > 0` is needed because an answer is noted at every
  level of its price (`PricesDiffer`): levels of one price would share their orders.
* `SpreadTrader_proofs!TypeCorrect`, `!NoneUnattended`, `!OneAttended`: `TypeOK`,
  `OpenIsAttended` and `AtMostOneAttended`.  The inductive invariant `AttendedInv` adds
  what the code gets from its lock and its order of assignments (`TickInv`): a tick
  that submits has cleared `lastOrderId`, one that cancels is about `lastOrderId`, and
  an order the exchange canceled for it is not open again.
* `ConfigStore_proofs!TypeCorrect`, `!StatusIsAskedFor`, `!LoneSaveRepairs`: `TypeOK`,
  `StatusFollowsRequests` and `LoneSaveAgrees`.  The first needs that a document made from
  the version of a key that is still stored has the stored status, but for the one asked for
  (`CopiesAgree`); the second that what an undisturbed writer has set is still stored, and
  that the documents a page is about to set are in line with each other (`Lone`).  That each
  list names exactly the streams its side knows of those written is `ListsAgree`.
* `AgentReload_proofs!TypeCorrect`, `!SettledIsRight`, `!NothingIsLost`: `TypeOK`,
  `SettledRunsItsConfiguration` and `NothingEscapes`.  The invariant `Serving` describes a
  reload under way: which kinds of agent have which reloads (`KindsOfJobs`), that every unit is
  listed (`AllListed`), that units come from reloads only (`SetUpByReloads`), and that without
  overlap the last reload is alone and has set up exactly the tenants it no longer has to do
  (`Alone`).
* `AgentReload_proofs!CopyMirrorsKey`: `Spec => Mirror!Spec`.  Answers under way are
  ordered by version and lie between the copy and the key (`InOrder`), and nothing is
  under way, and no copy taken, before the first read (`QuietStart`).
* `DbSync_proofs!TypeCorrect`, `!NothingIsSkipped`, `!ImplementsDelivery`: `TypeOK`,
  `NothingSkipped` and `Spec => Abstract!Spec`.  The invariant says where a reader may stand
  (`Sound`): all before the message it stores is settled, so are the rows before its row; what left
  the stream is settled (`TrimmedSettled`), and what is settled stays so (`SettledStays`).
* `DbSync_proofs!DuplicatesAreExplained`: `CopiesExplained`.  The copies of a row alone are not
  inductive; `Counted` adds the number of readers that may still store it (`PendingAt`).  A
  start adds `Listed[w]` to both sides, a stop takes from one only, a stored row moves one from
  pending to stored, and a reader that breaks off makes rows of its own message pending again,
  once, and of no other, because it stands right behind its id or where the stream begins
  (`Contiguous`).
* `BalanceFeed_proofs!TypeCorrect`, `!KnownPublished`: `TypeOK` and `KnownIsPublished`.  The
  invariant `LastIsKnown` follows the last entry: its handler has yet to set its clone, or
  was cut short, or some symbol with no entry of its own to be answered knows it or knows
  nothing (`Informed`).  That one symbol is all `KnownIsPublished` needs, because it compares the
  stream with clones that all agree.  `LoopsFit` adds that a worker that is down has no answer
  under way and that `watchBalance` gives no more answers than the account changed.

Only model-checked: liveness, which is out of the prover's reach together with `ENABLED`.
Every invariant and safety property of the passing runs is stated by a theorem.

## Not modelled

Left out of the modules above: the expiry of an order's record after 7 days and the
trimming of the orders stream, the 3 s freshness filter and the older cache entries, and
`unsubscribeAll`, which only a test calls.  Of the plugins: sizes, amounts and what is only
printed; the limit of 50 queued events; the retries of the executor, which are in
`OrderPipeline`.  Of the configuration: what a document says besides status, exchanges,
workplans and streams; requests the API refuses.  Of the balances: the balance of an
exchange without `fetchBalance`, which is never asked for.  Of the rows: what they hold.  Two
departures lie in what is left out: `parseKey` (db-service.ts:32) takes the streams of snapshots for
those of a tenant called snapshot, and the volume of a published candle is its timestamp (worker.ts:148).

Not modelled at all:

* the trades and OHLCV feeds, the balance and OHLCV readers of magicbox and the sample plugins:
  each message is handed on, or kept in a short list, and nothing else is remembered;
* `KillSwitchService`, which no agent uses; its start is that of `ConfigurationService`;
* `ExchangeService`, a table filled once; encryption, logging and the command line tool;
* the presentation part of `web`, and deployment files;
* the vendored ccxt (`utils/src/services/ftx` and its `static_dependencies`), which is
  third-party code and most of the lines of the repository.  The models see it as the
  exchange, so they cover a small share of all lines and most of the agents' own logic.

Two hazards in `PROJECT.json` have no property and say why; others note what a property
excepts.  What is left without a proof is the liveness; of the code, what is listed here as
left out of a module.
