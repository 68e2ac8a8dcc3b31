----------------------------- MODULE GridPlugin -----------------------------
(***************************************************************************)
(* The grid plugin of magicbox: a ladder of price levels, each with one    *)
(* limit order, and an order on the other side whenever one closes.        *)
(*                                                                         *)
(* Initialize, every Handle of an order book (a "walk" over the grid) and  *)
(* the holder of the lock submit orders and await the executor; nothing    *)
(* keeps them apart but the lock, which only the handling of closed orders *)
(* takes.  A step is what runs between two awaits that wait for something. *)
(*                                                                         *)
(* A submission ends in one of three ways: with the order, with an empty   *)
(* body (the executor swallowed an error, so result.id is undefined), or   *)
(* after 2 s with an exception, the request being carried out later or     *)
(* never.  Either failure may hide an accepted order.                      *)
(*                                                                         *)
(* async-lock runs one task at a time and goes on when the task calls      *)
(* done; a task that throws behind its first await never does.             *)
(*                                                                         *)
(* Left out: sizes, orders canceled by somebody else (the plugin ignores   *)
(* them), the limit of 50 waiting events, and the retries of the executor  *)
(* (OrderPipeline).                                                        *)
(***************************************************************************)
EXTENDS Integers, Sequences, FiniteSetsExt

CONSTANTS
    Levels,                  \* the levels are 1..Levels, buy and sell in turn
    StartingPrice, Distance, \* the price in the middle, and between two levels
    CrossEnabled,            \* orders may be submitted that match at once
    Walk,                    \* bound: overlapping Handle calls of an order book
    Quote,                   \* bound: the order books, reduced to their best prices
    None,                    \* undefined
    MaxOrders,               \* bound: orders the exchange accepts
    MaxRepeats,              \* bound: orders reported closed a second time
    MaxMishaps               \* bound: submissions answered empty or not in time, closed orders
                             \* that are not of this plugin, and restarts, taken together

\* A side of an order book without orders has the price 0.
ASSUME QuoteAssumption == Quote \subseteq [bid : Nat, ask : Nat] /\ None \notin Quote

\* Undefined is no grid.
ASSUME NoneAssumption ==
    None \notin [1..Levels -> [side : {"buy", "sell"}, inBook : BOOLEAN, id : Nat]]

ASSUME GridAssumption ==
    /\ Levels \in Nat /\ StartingPrice \in Nat /\ Distance \in Nat
    /\ CrossEnabled \in BOOLEAN /\ MaxOrders \in Nat
    /\ {"init", "lock"} \cap Walk = {}

VARIABLES
    orders,    \* exchange: the orders of this plugin, by id
    late,      \* executor: requests nobody waits for any more
    initPc,    \* what Initialize awaits
    orderGrid, \* the grid, None before it is created or loaded
    market,    \* bestBid and bestAsk, 0 when unknown, and the cached order book
    jobs,      \* the submission each caller awaits
    locked,    \* the lock is held
    waiting,   \* closed orders whose handlers wait for the lock
    stored,    \* redis: orderGrid.<module>
    enabled,   \* redis: isEnabled.<module> is "true"
    mishaps    \* how many mishaps there were

exchangeVars == <<orders, late>>
pluginVars   == <<initPc, orderGrid, market, jobs, locked, waiting>>
redisVars    == <<stored, enabled>>
vars == <<exchangeVars, pluginVars, redisVars, mishaps>>

-----------------------------------------------------------------------------
Level  == 1..Levels
Caller == {"init", "lock"} \cup Walk
Side   == {"buy", "sell"}

\* Variant: an order is replaced by its like.
SameSide(side) == side

Opposite(side) == IF side = "buy" THEN "sell" ELSE "buy"

\* createOrderGrid: pairs of a buy below and a sell above the starting price.
Pair(l) == (l + 1) \div 2
StartingSide(l) == IF l % 2 = 1 THEN "buy" ELSE "sell"
Price(l) == IF l % 2 = 1 THEN StartingPrice - Distance * Pair(l)
                         ELSE StartingPrice + Distance * Pair(l)

\* The ids -1 and undefined: equal to the id of no order.
NoId == 0

createOrderGrid == [l \in Level |-> [side |-> StartingSide(l), inBook |-> FALSE, id |-> NoId]]

Unknown == [bestBid |-> 0, bestAsk |-> 0, book |-> None]

\* order is the id of the order the exchange accepted, NoId before it did.
Request(level, side, replaces) == [level |-> level, side |-> side, replaces |-> replaces]
Idle == [pc |-> "idle", request |-> None, order |-> NoId]
Asked(request) == [pc |-> "asked", request |-> request, order |-> NoId]

Mishap == mishaps < MaxMishaps /\ mishaps' = mishaps + 1

-----------------------------------------------------------------------------
(* The exchange and the executor *)

PlaceOrder(request, lost) ==
    /\ Len(orders) < MaxOrders
    /\ orders' = Append(orders, [request |-> request, open |-> TRUE, lost |-> lost, told |-> 0])

\* The exchange accepts the order a caller asked for.
Accept(c) ==
    /\ jobs[c].pc = "asked" /\ jobs[c].order = NoId
    /\ PlaceOrder(jobs[c].request, FALSE)
    /\ jobs' = [jobs EXCEPT ![c].order = Len(orders) + 1]
    /\ UNCHANGED <<late, initPc, orderGrid, market, locked, waiting, redisVars, mishaps>>

\* It accepts one whose caller has given up.
AcceptLate ==
    /\ \E r \in late : PlaceOrder(r, TRUE) /\ late' = late \ {r}
    /\ UNCHANGED <<pluginVars, redisVars, mishaps>>

Fill(o) ==
    /\ orders[o].open
    /\ orders' = [orders EXCEPT ![o].open = FALSE]
    /\ UNCHANGED <<late, pluginVars, redisVars, mishaps>>

-----------------------------------------------------------------------------
(* submitGridOrderToExchange, in the market m *)

\* With a best price unknown it looks at the cached book, but compares where it
\* means to assign: the best price stays 0.
checkForCross(m, price, side) ==
    LET unknown == m.bestBid = 0 \/ m.bestAsk = 0
        near == IF side = "sell" THEN m.book.bid ELSE m.book.ask
        far  == IF side = "sell" THEN m.book.ask ELSE m.book.bid
    IN  CASE unknown /\ m.book = None -> "throws"
          [] unknown /\ m.book # None /\ near = 0 -> "no"
          [] unknown /\ m.book # None /\ near # 0 /\ far = 0 -> "throws"
          [] OTHER -> IF (side = "sell" /\ m.bestBid < price) \/ (side = "buy" /\ m.bestAsk > price)
                      THEN "no" ELSE "yes"

Crossing(m, l, side) == IF CrossEnabled THEN "no" ELSE checkForCross(m, Price(l), side)

\* What is left of a list of levels when those that are refused are passed over,
\* which takes no time.
Unrefused(m, list, side) == {l \in list : Crossing(m, l, side[l]) # "yes"}

Submit(c, l, side, replaces) == jobs' = [jobs EXCEPT ![c] = Asked(Request(l, side, replaces))]
Finish(c) == jobs' = [jobs EXCEPT ![c] = Idle]

\* Variant: a stored grid is not stored again.
pushGridToRedisOnce(grid) == stored' = IF stored = None THEN grid ELSE stored

pushGridToRedis(grid) == stored' = grid

SetLevel(l, id) == [orderGrid EXCEPT ![l].inBook = TRUE, ![l].id = id]

-----------------------------------------------------------------------------
(* Initialize *)

\* Connected, and isEnabled read.
Start ==
    /\ initPc = "connecting"
    /\ market' = [market EXCEPT !.bestBid = 0, !.bestAsk = 0]
    /\ \/ /\ enabled
          /\ initPc' = "loading"
          /\ UNCHANGED <<orderGrid, stored>>
       \/ /\ ~ enabled
          /\ orderGrid' = createOrderGrid
          /\ pushGridToRedis(createOrderGrid)
          /\ initPc' = "pushing"
    /\ UNCHANGED <<exchangeVars, jobs, locked, waiting, enabled, mishaps>>

Load ==
    /\ initPc = "loading"
    /\ orderGrid' = stored
    /\ initPc' = "ready"
    /\ UNCHANGED <<exchangeVars, market, jobs, locked, waiting, redisVars, mishaps>>

\* Submits the levels of list one by one, whether or not a walk has submitted
\* them meanwhile, and stores the grid behind the last.
InitLoop(list, grid) ==
    LET left == Unrefused(market, list, [l \in Level |-> StartingSide(l)])
        l == Min(left)
    IN  \/ /\ left = {}
           /\ Finish("init")
           /\ pushGridToRedis(grid)
           /\ initPc' = "saving"
        \/ /\ left # {} /\ Crossing(market, l, StartingSide(l)) = "no"
           /\ Submit("init", l, StartingSide(l), NoId)
           /\ initPc' = "submitting"
           /\ UNCHANGED stored
        \/ /\ left # {} /\ Crossing(market, l, StartingSide(l)) = "throws"
           /\ Finish("init")
           /\ initPc' = "failed"
           /\ UNCHANGED stored

BeginInitLoop ==
    /\ initPc = "pushing"
    /\ InitLoop(Level, orderGrid)
    /\ UNCHANGED <<exchangeVars, orderGrid, market, locked, waiting, enabled, mishaps>>

AnswerInit(id) ==
    LET l == jobs["init"].request.level
    IN  /\ orderGrid' = SetLevel(l, id)
        /\ InitLoop((l + 1)..Levels, orderGrid')
        /\ UNCHANGED <<locked, waiting>>

Enable ==
    /\ initPc = "saving"
    /\ enabled' = TRUE
    /\ initPc' = "ready"
    /\ UNCHANGED <<exchangeVars, orderGrid, market, jobs, locked, waiting, stored, mishaps>>

-----------------------------------------------------------------------------
(* Handle: an order book *)

\* Submits the levels of list that are not in the book.
WalkOn(w, m, list, grid) ==
    LET side == [l \in Level |-> grid[l].side]
        left == Unrefused(m, {l \in list : ~ grid[l].inBook}, side)
        l == Min(left)
    IN  \/ /\ left # {} /\ Crossing(m, l, side[l]) = "no"
           /\ Submit(w, l, side[l], NoId)
        \/ /\ left # {} => Crossing(m, l, side[l]) = "throws"
           /\ Finish(w)

\* A book older than 3 s is cached and not handed on.
CacheBook(q) ==
    /\ market' = [market EXCEPT !.book = q]
    /\ UNCHANGED <<exchangeVars, initPc, orderGrid, jobs, locked, waiting, redisVars, mishaps>>

HandleOrderBook(w, q) ==
    /\ jobs[w].pc = "idle"
    /\ market' = [bestBid |-> IF q.bid > 0 THEN q.bid ELSE market.bestBid,
                  bestAsk |-> IF q.ask > 0 THEN q.ask ELSE market.bestAsk,
                  book    |-> q]
    /\ \/ /\ ~ CrossEnabled /\ orderGrid # None
          /\ WalkOn(w, market', Level, orderGrid)
       \/ /\ CrossEnabled \/ orderGrid = None
          /\ UNCHANGED jobs
    /\ UNCHANGED <<exchangeVars, initPc, orderGrid, locked, waiting, redisVars, mishaps>>

AnswerWalk(w, id) ==
    LET l == jobs[w].request.level
    IN  /\ orderGrid' = SetLevel(l, id)
        /\ WalkOn(w, market, (l + 1)..Levels, orderGrid')
        /\ UNCHANGED <<initPc, locked, waiting, stored>>

-----------------------------------------------------------------------------
(* Handle: a closed order, and the lock *)

\* Variant: the level keeps the id of the closed order.
modifyOrderInGridKeepsId(price, side, isOpened, newOrderId) ==
    orderGrid' = [l \in Level |->
        IF Price(l) = price THEN [side |-> side, inBook |-> isOpened, id |-> orderGrid[l].id]
        ELSE orderGrid[l]]

\* Every level of the price takes the new state.
modifyOrderInGrid(price, side, isOpened, newOrderId) ==
    orderGrid' = [l \in Level |->
        IF Price(l) = price THEN [side |-> side, inBook |-> isOpened, id |-> newOrderId]
        ELSE orderGrid[l]]

\* Variant: a level is known by what was ordered for it, not by the order it holds.
LevelsOrdered(o) == {l \in Level : o <= Len(orders) /\ l = orders[o].request.level}

LevelsOf(o) == {l \in Level : orderGrid[l].id = o}

Refuse(l, side) ==
    /\ modifyOrderInGrid(Price(l), side, FALSE, NoId)
    /\ locked' = FALSE
    /\ UNCHANGED jobs

\* onLockAcquired up to its await.  Without a grid it throws, as checkForCross
\* may: then the lock is never given back.
onLockAcquired(o) ==
    \/ /\ orderGrid = None
       /\ locked' = TRUE
       /\ UNCHANGED <<orderGrid, jobs>>
    \/ /\ orderGrid # None /\ LevelsOf(o) = {}
       /\ locked' = FALSE
       /\ UNCHANGED <<orderGrid, jobs>>
    \/ /\ orderGrid # None /\ LevelsOf(o) # {}
       /\ LET l == Min(LevelsOf(o))
              side == Opposite(orders[o].request.side)
          IN  \/ /\ Crossing(market, l, side) = "no"
                 /\ Submit("lock", l, side, o)
                 /\ locked' = TRUE
                 /\ UNCHANGED orderGrid
              \/ /\ Crossing(market, l, side) = "yes"
                 /\ Refuse(l, side)
              \/ /\ Crossing(market, l, side) = "throws"
                 /\ locked' = TRUE
                 /\ UNCHANGED <<orderGrid, jobs>>

\* The task runs at once when the lock is free and waits otherwise.
Acquire(o) ==
    \/ /\ ~ locked /\ waiting = <<>>
       /\ onLockAcquired(o)
       /\ UNCHANGED waiting
    \/ /\ locked \/ waiting # <<>>
       /\ waiting' = Append(waiting, o)
       /\ UNCHANGED <<orderGrid, jobs, locked>>

\* The orders stream reports an order closed, possibly more than once.
HandleClosed(o) ==
    /\ ~ orders[o].open /\ orders[o].told < 2
    /\ orders[o].told = 1 => Cardinality({p \in 1..Len(orders) : orders[p].told = 2}) < MaxRepeats
    /\ orders' = [orders EXCEPT ![o].told = @ + 1]
    /\ Acquire(o)
    /\ UNCHANGED <<late, initPc, market, redisVars, mishaps>>

HandleForeign ==
    /\ Mishap
    /\ Acquire(MaxOrders + 1)
    /\ UNCHANGED <<exchangeVars, initPc, market, redisVars>>

\* The next waiting task.
Dequeue ==
    /\ ~ locked /\ waiting # <<>>
    /\ onLockAcquired(Head(waiting))
    /\ waiting' = Tail(waiting)
    /\ UNCHANGED <<exchangeVars, initPc, market, redisVars, mishaps>>

\* A task that has waited 90 s fails.  As one that holds the lock is answered within
\* 2 s, it waits for one that will not give the lock back.
TimeoutWaiting ==
    /\ locked /\ jobs["lock"].pc = "idle" /\ waiting # <<>>
    /\ waiting' = Tail(waiting)
    /\ UNCHANGED <<exchangeVars, initPc, orderGrid, market, jobs, locked, redisVars, mishaps>>

\* Variant: done is called only by the tasks that submit nothing.
AnswerLockHolds(id) ==
    LET r == jobs["lock"].request
    IN  /\ modifyOrderInGrid(Price(r.level), r.side, TRUE, id)
        /\ pushGridToRedis(orderGrid')
        /\ Finish("lock")
        /\ UNCHANGED <<locked, initPc, waiting>>

AnswerLock(id) ==
    LET r == jobs["lock"].request
    IN  /\ modifyOrderInGrid(Price(r.level), r.side, TRUE, id)
        /\ pushGridToRedis(orderGrid')
        /\ Finish("lock")
        /\ locked' = FALSE
        /\ UNCHANGED <<initPc, waiting>>

-----------------------------------------------------------------------------
(* How a submission ends *)

Resume(c, id) ==
    /\ \/ c = "init" /\ AnswerInit(id)
       \/ c = "lock" /\ AnswerLock(id)
       \/ c \in Walk /\ AnswerWalk(c, id)
    /\ UNCHANGED <<late, market, enabled>>

Answer(c) ==
    /\ jobs[c].pc = "asked" /\ jobs[c].order # NoId
    /\ Resume(c, jobs[c].order)
    /\ UNCHANGED <<orders, mishaps>>

LoseAnswer(c) ==
    orders' = IF jobs[c].order = NoId THEN orders ELSE [orders EXCEPT ![jobs[c].order].lost = TRUE]

\* The executor gave up; the caller takes the order for submitted.
AnswerEmpty(c) ==
    /\ jobs[c].pc = "asked"
    /\ Mishap
    /\ Resume(c, NoId)
    /\ LoseAnswer(c)

\* Variant: whatever the callers were at.
AbandonedAll(C) == {jobs[c].request : c \in C}

\* Requests without an order yet may still be carried out.
Abandoned(C) == {jobs[c].request : c \in {d \in C : jobs[d].pc = "asked" /\ jobs[d].order = NoId}}

\* No answer within 2 s: the caller ends with an exception, and keeps the lock.
Timeout(c) ==
    /\ jobs[c].pc = "asked"
    /\ Mishap
    /\ late' = late \cup Abandoned({c})
    /\ LoseAnswer(c)
    /\ Finish(c)
    /\ initPc' = IF c = "init" THEN "failed" ELSE initPc
    /\ UNCHANGED <<orderGrid, market, locked, waiting, redisVars>>

\* What a new worker will load.
Remembered(o) == enabled /\ stored[orders[o].request.level].id = o

\* The worker is terminated and started again.
Restart ==
    /\ Mishap
    /\ late' = late \cup Abandoned(Caller)
    /\ orders' = [o \in 1..Len(orders) |-> [orders[o] EXCEPT !.lost = @ \/ ~ Remembered(o)]]
    /\ initPc' = "connecting"
    /\ orderGrid' = None
    /\ market' = Unknown
    /\ jobs' = [c \in Caller |-> Idle]
    /\ locked' = FALSE
    /\ waiting' = <<>>
    /\ UNCHANGED redisVars

-----------------------------------------------------------------------------
Init ==
    /\ orders = <<>>
    /\ late = {}
    /\ initPc = "connecting"
    /\ orderGrid = None
    /\ market = Unknown
    /\ jobs = [c \in Caller |-> Idle]
    /\ locked = FALSE
    /\ waiting = <<>>
    /\ stored = None
    /\ enabled = FALSE
    /\ mishaps = 0

Initialize == Start \/ Load \/ BeginInitLoop \/ Enable

Answered(c) == Answer(c) \/ AnswerEmpty(c) \/ Timeout(c)

Next ==
    \/ \E c \in Caller : Accept(c) \/ Answered(c)
    \/ AcceptLate
    \/ \E o \in 1..Len(orders) : Fill(o) \/ HandleClosed(o)
    \/ Initialize
    \/ \E q \in Quote : CacheBook(q) \/ \E w \in Walk : HandleOrderBook(w, q)
    \/ HandleForeign \/ Dequeue \/ TimeoutWaiting
    \/ Restart

Spec == Init /\ [][Next]_vars

\* A task is resumed by the event loop, and a request is answered or times out: with
\* an order, when the bound on the other endings is used up.
FairSpec ==
    /\ Spec
    /\ WF_vars(Initialize)
    /\ WF_vars(Dequeue)
    /\ \A c \in Caller : WF_vars(Accept(c)) /\ WF_vars(Answered(c))

-----------------------------------------------------------------------------
(* Properties *)

OrderRequest == [level : Level, side : Side, replaces : Nat]
Grid == [Level -> [side : Side, inBook : BOOLEAN, id : Nat]]

TypeOK ==
    /\ orders \in Seq([request : OrderRequest, open : BOOLEAN, lost : BOOLEAN, told : Nat])
    /\ late \subseteq OrderRequest
    /\ initPc \in {"connecting", "pushing", "submitting", "saving", "loading", "ready", "failed"}
    /\ orderGrid \in Grid \cup {None}
    /\ market \in [bestBid : Nat, bestAsk : Nat, book : Quote \cup {None}]
    /\ jobs \in [Caller -> [pc : {"idle", "asked"}, request : OrderRequest \cup {None}, order : Nat]]
    /\ locked \in BOOLEAN
    /\ waiting \in Seq(Nat)
    /\ stored \in Grid \cup {None}
    /\ enabled \in BOOLEAN
    /\ mishaps \in Nat

Placed == 1..Len(orders)

\* A closed order is replaced once, however often it is reported closed and
\* whatever walks, missing answers and restarts fall between its handlers; orders
\* whose answer was lost do not count, as the plugin has not heard of them.
ReplacedAtMostOnce ==
    \A i, j \in Placed :
        /\ orders[i].request.replaces = orders[j].request.replaces
        /\ ~ orders[i].lost /\ ~ orders[j].lost
        => i = j \/ orders[i].request.replaces = NoId

\* The plugin can tell of every open order which level it belongs to, but for
\* those whose answer it did not get, or did not store before a restart.
LiveIsTracked ==
    \A o \in Placed :
        orders[o].open /\ ~ orders[o].lost /\ orderGrid # None =>
            \/ \E c \in Caller : jobs[c].order = o
            \/ orderGrid[orders[o].request.level].id = o

\* i and j are orders of one level that the plugin knows of, and none is between them.
Consecutive(i, j) ==
    LET known == {o \in Placed : ~ orders[o].lost /\ orders[o].request.level = orders[i].request.level}
    IN  /\ {i, j} \subseteq known /\ i < j
        /\ known \cap (i + 1)..(j - 1) = {}

\* A level trades to and fro: of the orders the plugin knows of, the next one of a
\* level is placed when the one before has been filled, and on the other side.
LevelsAlternate ==
    \A i, j \in Placed :
        Consecutive(i, j) => ~ orders[i].open /\ orders[j].request.side # orders[i].request.side

\* A module that counts as initialised has a stored grid whose levels were all
\* submitted, so that a restart may go on with it.
EnabledGridIsComplete ==
    enabled => stored # None /\ \A l \in Level : stored[l].inBook

\* grid.ts:307, "the piece that should not happen in parallel": the submission of
\* an order for a level and the update of its entry.
SubmissionsDoNotOverlap ==
    \A c, d \in Caller :
        jobs[c].pc = "asked" /\ jobs[d].pc = "asked" /\ c # d =>
            jobs[c].request.level # jobs[d].request.level

Told(o) == o \in Placed /\ orders[o].told > 0

Replaced(o) == \E p \in Placed : orders[p].request.replaces = o

\* As long as nothing goes amiss (the executor answers, no worker restarts, no foreign
\* order), an order that is reported closed when its level already knows it is
\* replaced.  (One reported before is not: nobody asks again.)
ClosedIsReplaced ==
    [](mishaps = 0) => \A o \in 1..MaxOrders :
        [](o \in Placed /\ ~ Told(o) /\ orderGrid # None /\ LevelsOf(o) # {} =>
              []~ Told(o) \/ <>(Replaced(o) \/ Len(orders) = MaxOrders))
=============================================================================
