-------------------------- MODULE GridPlugin_proofs --------------------------
(***************************************************************************)
(* Type correctness and ReplacedAtMostOnce for any number of levels, walks *)
(* and orders, whatever answers are missing and however often the worker   *)
(* is restarted; EnabledGridIsComplete if orders may match at once; and,   *)
(* if also the levels lie apart, LiveIsTracked, LevelsAlternate and        *)
(* SubmissionsDoNotOverlap.                                                *)
(***************************************************************************)
EXTENDS GridPlugin, WellFoundedInduction, TLAPS

LEMMA MinIsLeast ==
    ASSUME NEW S \in SUBSET Level, S # {}
    PROVE  Min(S) \in S /\ \A k \in S : Min(S) <= k
  <1>1. S \subseteq Nat
    BY GridAssumption DEF Level
  <1>2. PICK x \in S : \A y \in S : <<y, x>> \notin OpToRel(<, Nat)
    BY <1>1, WFMin, NatLessThanWellFounded
  <1>3. ASSUME NEW y \in S PROVE x <= y
    <2>1. ~ (y < x)
      <3>1. SUFFICES ASSUME y < x PROVE <<y, x>> \in OpToRel(<, Nat)
        BY <1>2
      <3> QED
        BY <1>1, <3>1 DEF OpToRel
    <2> QED
      BY <1>1, <2>1
  <1> QED
    BY <1>3 DEF Min

-----------------------------------------------------------------------------
(* Types *)

Order == [request : OrderRequest, open : BOOLEAN, lost : BOOLEAN, told : Nat]
Job == [pc : {"idle", "asked"}, request : OrderRequest \cup {None}, order : Nat]

Busy(c) == jobs[c].pc = "asked"

\* Who has asked for an order knows for what, and there is a grid.
Asking == \A c \in Caller : Busy(c) => jobs[c].request \in OrderRequest /\ orderGrid \in Grid

\* Where Initialize stands, and whether there is a grid and anyone asks for orders.
Boot ==
    /\ initPc \in {"connecting", "loading"} => orderGrid = None /\ \A c \in Caller : ~ Busy(c)
    /\ initPc \in {"pushing", "submitting", "saving"} => orderGrid \in Grid

TypeInv == TypeOK /\ Asking /\ Boot

\* Caller c ends, or asks for an order of a level that replaces none.
Continues(c) ==
    \/ Finish(c)
    \/ \E l \in Level, s \in Side : Submit(c, l, s, NoId)

LEMMA Typed == TypeInv => orders \in Seq(Order) /\ jobs \in [Caller -> Job]
  BY DEF TypeInv, TypeOK, Order, Job

LEMMA OrderTyped == ASSUME TypeInv, NEW o \in 1..Len(orders) PROVE orders[o] \in Order
  BY Typed

LEMMA ExceptType ==
    ASSUME NEW S, NEW s \in Seq(S), NEW i \in 1..Len(s), NEW e \in S
    PROVE  [s EXCEPT ![i] = e] \in Seq(S)
  OBVIOUS

LEMMA InitTypeInv == Init => TypeInv
  <1> SUFFICES ASSUME Init PROVE TypeInv
    OBVIOUS
  <1>1. jobs \in [Caller -> Job]
    BY DEF Init, Idle, Job, NoId
  <1>2. market \in [bestBid : Nat, bestAsk : Nat, book : Quote \cup {None}]
    BY DEF Init, Unknown
  <1>3. Asking /\ Boot
    BY DEF Init, Asking, Boot, Busy, Idle
  <1>4. /\ orders \in Seq([request : OrderRequest, open : BOOLEAN, lost : BOOLEAN, told : Nat])
        /\ waiting \in Seq(Nat) /\ late \subseteq OrderRequest
    BY DEF Init
  <1>5. /\ initPc = "connecting" /\ orderGrid = None /\ stored = None
        /\ locked = FALSE /\ enabled = FALSE /\ mishaps = 0
    BY DEF Init
  <1> QED
    BY <1>1, <1>2, <1>3, <1>4, <1>5 DEF TypeInv, TypeOK, Job

LEMMA StartingGrid == createOrderGrid \in Grid
  BY DEF createOrderGrid, Grid, StartingSide, Side, NoId

LEMMA WalkContinues ==
    ASSUME NEW c \in Caller, NEW m, NEW list \in SUBSET Level, NEW grid \in Grid,
           WalkOn(c, m, list, grid)
    PROVE  Continues(c)
  <1> DEFINE side == [l \in Level |-> grid[l].side]
             left == Unrefused(m, {l \in list : ~ grid[l].inBook}, side)
  <1>1. left \subseteq Level
    BY DEF Unrefused
  <1>2. CASE left # {} /\ Submit(c, Min(left), side[Min(left)], NoId)
    <2>1. Min(left) \in Level
      BY <1>1, <1>2, MinIsLeast
    <2>2. side[Min(left)] \in Side
      BY <2>1 DEF Grid
    <2> QED
      BY <1>2, <2>1, <2>2 DEF Continues
  <1>3. CASE Finish(c)
    BY <1>3 DEF Continues
  <1> QED
    BY <1>2, <1>3 DEF WalkOn

LEMMA InitContinues ==
    ASSUME NEW list \in SUBSET Level, NEW grid, InitLoop(list, grid)
    PROVE  /\ Continues("init")
           /\ stored' = stored \/ stored' = grid
           /\ initPc' \in {"saving", "submitting", "failed"}
  <1> DEFINE left == Unrefused(market, list, [l \in Level |-> StartingSide(l)])
  <1>1. left \subseteq Level
    BY DEF Unrefused
  <1>2. CASE left # {} /\ Submit("init", Min(left), StartingSide(Min(left)), NoId)
                       /\ initPc' = "submitting" /\ UNCHANGED stored
    <2>1. Min(left) \in Level
      BY <1>1, <1>2, MinIsLeast
    <2>2. StartingSide(Min(left)) \in Side
      BY DEF StartingSide, Side
    <2> QED
      BY <1>2, <2>1, <2>2 DEF Continues
  <1>3. CASE Finish("init") /\ pushGridToRedis(grid) /\ initPc' = "saving"
    BY <1>3 DEF Continues, pushGridToRedis
  <1>4. CASE Finish("init") /\ initPc' = "failed" /\ UNCHANGED stored
    BY <1>4 DEF Continues
  <1> QED
    BY <1>2, <1>3, <1>4 DEF InitLoop

LEMMA ContinuesTypes ==
    ASSUME jobs \in [Caller -> Job], Asking, NEW c \in Caller, Continues(c),
           orderGrid' \in Grid
    PROVE  jobs' \in [Caller -> Job] /\ Asking'
  <1>1. CASE Finish(c)
    BY <1>1 DEF Finish, Idle, Job, Asking, Busy, NoId
  <1>2. ASSUME NEW l \in Level, NEW s \in Side, Submit(c, l, s, NoId)
        PROVE  jobs' \in [Caller -> Job] /\ Asking'
    <2>1. Request(l, s, NoId) \in OrderRequest
      BY DEF Request, OrderRequest, NoId
    <2> QED
      BY <1>2, <2>1 DEF Submit, Asked, Job, Asking, Busy, NoId
  <1> QED
    BY <1>1, <1>2 DEF Continues

-----------------------------------------------------------------------------
LEMMA SetLevelType ==
    ASSUME orderGrid \in Grid, NEW l \in Level, NEW id \in Nat
    PROVE  SetLevel(l, id) \in Grid
  BY DEF SetLevel, Grid

LEMMA SetLevelEntries ==
    ASSUME orderGrid \in Grid, NEW l \in Level, NEW id
    PROVE  \A k \in Level : /\ SetLevel(l, id)[k].id = IF k = l THEN id ELSE orderGrid[k].id
                            /\ k = l \/ orderGrid[k].inBook => SetLevel(l, id)[k].inBook
  <1>1. \A k \in Level : orderGrid[k] \in [side : Side, inBook : BOOLEAN, id : Nat]
    BY DEF Grid
  <1>2. \A k \in Level : SetLevel(l, id)[k] = IF k = l THEN [orderGrid[l] EXCEPT !.inBook = TRUE, !.id = id]
                                              ELSE orderGrid[k]
    BY DEF SetLevel, Grid
  <1> QED
    BY <1>1, <1>2

LEMMA ModifyType ==
    ASSUME orderGrid \in Grid, NEW price, NEW side \in Side, NEW isOpened \in BOOLEAN,
           NEW id \in Nat, modifyOrderInGrid(price, side, isOpened, id)
    PROVE  orderGrid' \in Grid
  BY DEF modifyOrderInGrid, Grid

\* onLockAcquired, which throws without a grid and then keeps the lock.
LEMMA LockTypes ==
    ASSUME TypeInv, NEW o \in Nat, onLockAcquired(o)
    PROVE  /\ jobs' \in [Caller -> Job] /\ Asking'
           /\ orderGrid' \in Grid \cup {None} /\ (orderGrid \in Grid => orderGrid' \in Grid)
           /\ orderGrid = None => orderGrid' = None /\ jobs' = jobs
           /\ locked' \in BOOLEAN
           /\ initPc' = initPc => Boot'
  <1>1. CASE UNCHANGED <<orderGrid, jobs>> /\ locked' \in BOOLEAN
    BY <1>1 DEF TypeInv, TypeOK, Asking, Busy, Boot, Job
  <1>2. ASSUME orderGrid # None, LevelsOf(o) # {},
               NEW side, side = Opposite(orders[o].request.side),
               \/ /\ Submit("lock", Min(LevelsOf(o)), side, o)
                  /\ locked' = TRUE
                  /\ UNCHANGED orderGrid
               \/ Refuse(Min(LevelsOf(o)), side)
        PROVE  /\ jobs' \in [Caller -> Job] /\ Asking'
               /\ orderGrid' \in Grid
               /\ locked' \in BOOLEAN
               /\ initPc' = initPc => Boot'
    <2>1. Min(LevelsOf(o)) \in Level
      BY <1>2, MinIsLeast DEF LevelsOf
    <2>2. side \in Side /\ orderGrid \in Grid
      BY <1>2 DEF Opposite, Side, TypeInv, TypeOK
    <2>0. initPc \notin {"connecting", "loading"}
      BY <1>2 DEF TypeInv, Boot
    <2>3. CASE Refuse(Min(LevelsOf(o)), side)
      <3>1. orderGrid' \in Grid
        BY <2>2, <2>3, ModifyType DEF Refuse, NoId
      <3> QED
        BY <2>0, <2>3, <3>1 DEF Refuse, TypeInv, TypeOK, Asking, Boot, Busy, Job
    <2>4. CASE Submit("lock", Min(LevelsOf(o)), side, o) /\ locked' = TRUE /\ UNCHANGED orderGrid
      <3>1. Request(Min(LevelsOf(o)), side, o) \in OrderRequest
        BY <2>1, <2>2 DEF Request, OrderRequest
      <3>2. "lock" \in Caller
        BY DEF Caller
      <3>3. jobs' \in [Caller -> Job] /\ Asking'
        BY <2>2, <2>4, <3>1, <3>2 DEF Submit, Asked, TypeInv, TypeOK, Asking, Busy, Job, NoId
      <3> QED
        BY <2>0, <2>2, <2>4, <3>3 DEF Boot
    <2> QED
      BY <1>2, <2>3, <2>4
  <1> QED
    BY <1>1, <1>2 DEF onLockAcquired, Refuse, TypeInv, TypeOK

LEMMA ExchangeTypes ==
    ASSUME TypeInv,
           \/ \E c \in Caller : Accept(c)
           \/ AcceptLate
           \/ \E o \in 1..Len(orders) : Fill(o)
    PROVE  TypeInv'
  <1>1. CASE \E c \in Caller : Accept(c)
    <2>1. PICK c \in Caller : Accept(c)
      BY <1>1
    <2>2. jobs[c].request \in OrderRequest
      BY <2>1 DEF Accept, TypeInv, Asking, Busy
    <2>3. orders' \in Seq(Order)
      BY <2>1, <2>2 DEF Accept, PlaceOrder, TypeInv, TypeOK, Order
    <2>4. Len(orders) + 1 \in Nat /\ orderGrid' = orderGrid
      BY <2>1 DEF Accept, TypeInv, TypeOK
    <2>5. jobs' \in [Caller -> Job] /\ Asking' /\ \A d \in Caller : Busy(d)' = Busy(d)
      BY <2>1, <2>4, Typed DEF Accept, TypeInv, Asking, Busy, Job
    <2> QED
      BY <2>1, <2>3, <2>5 DEF Accept, TypeInv, TypeOK, Boot, Order, Job, redisVars
  <1>2. CASE AcceptLate
    <2>1. orders' \in Seq(Order) /\ late' \subseteq OrderRequest
      BY <1>2 DEF AcceptLate, PlaceOrder, TypeInv, TypeOK, Order
    <2> QED
      BY <1>2, <2>1 DEF AcceptLate, TypeInv, TypeOK, Boot, Asking, Busy, Order, pluginVars, redisVars
  <1>3. CASE \E o \in 1..Len(orders) : Fill(o)
    <2>1. PICK o \in 1..Len(orders) : Fill(o)
      BY <1>3
    <2>2. orders' \in Seq(Order)
      <3>1. orders' = [orders EXCEPT ![o] = [orders[o] EXCEPT !.open = FALSE]]
        BY <2>1 DEF Fill
      <3>2. [orders[o] EXCEPT !.open = FALSE] \in Order
        BY OrderTyped DEF Order
      <3> QED
        BY <3>1, <3>2, Typed, ExceptType
    <2> QED
      BY <2>1, <2>2 DEF Fill, TypeInv, TypeOK, Boot, Asking, Busy, Order, pluginVars, redisVars
  <1> QED
    BY <1>1, <1>2, <1>3

LEMMA InitializeTypes ==
    ASSUME TypeInv, Initialize
    PROVE  TypeInv'
  <1>1. CASE Start
    <2>1. market' \in [bestBid : Nat, bestAsk : Nat, book : Quote \cup {None}]
      BY <1>1 DEF Start, TypeInv, TypeOK
    <2>2. orderGrid' \in Grid \cup {None} /\ stored' \in Grid \cup {None} /\ Boot'
      BY <1>1, StartingGrid DEF Start, pushGridToRedis, TypeInv, TypeOK, Boot, Busy
    <2>3. Asking'
      BY <1>1, StartingGrid DEF Start, TypeInv, Asking, Busy
    <2>4. initPc' \in {"loading", "pushing"}
      BY <1>1 DEF Start
    <2> QED
      BY <1>1, <2>1, <2>2, <2>3, <2>4 DEF Start, TypeInv, TypeOK, exchangeVars
  <1>2. CASE Load
    <2>1. Asking'
      BY <1>2 DEF Load, TypeInv, TypeOK, Asking, Busy, Boot
    <2> QED
      BY <1>2, <2>1 DEF Load, TypeInv, TypeOK, Boot, exchangeVars, redisVars
  <1>3. CASE BeginInitLoop
    <2>1. orderGrid \in Grid /\ orderGrid' = orderGrid /\ Level \in SUBSET Level /\ InitLoop(Level, orderGrid)
      BY <1>3 DEF BeginInitLoop, TypeInv, Boot
    <2>2. /\ Continues("init") /\ initPc' \in {"saving", "submitting", "failed"}
          /\ stored' = stored \/ stored' = orderGrid
      BY <2>1, InitContinues
    <2>3. jobs' \in [Caller -> Job] /\ Asking'
      BY <2>1, <2>2, ContinuesTypes DEF TypeInv, TypeOK, Caller, Job
    <2> QED
      BY <1>3, <2>1, <2>2, <2>3 DEF BeginInitLoop, TypeInv, TypeOK, Boot, Job, exchangeVars
  <1>4. CASE Enable
    BY <1>4 DEF Enable, TypeInv, TypeOK, Boot, Asking, Busy, exchangeVars
  <1> QED
    BY <1>1, <1>2, <1>3, <1>4 DEF Initialize

LEMMA BookTypes ==
    ASSUME TypeInv, NEW q \in Quote, CacheBook(q) \/ \E w \in Walk : HandleOrderBook(w, q)
    PROVE  TypeInv'
  <1>1. q \in [bid : Nat, ask : Nat]
    BY QuoteAssumption
  <1>2. market' \in [bestBid : Nat, bestAsk : Nat, book : Quote \cup {None}]
    BY <1>1 DEF CacheBook, HandleOrderBook, TypeInv, TypeOK
  <1>3. CASE CacheBook(q)
    BY <1>2, <1>3 DEF CacheBook, TypeInv, TypeOK, Boot, Asking, Busy, exchangeVars, redisVars
  <1>4. ASSUME NEW w \in Walk, HandleOrderBook(w, q)
        PROVE  TypeInv'
    <2>1. jobs' \in [Caller -> Job] /\ Asking'
      <3>1. CASE orderGrid # None /\ WalkOn(w, market', Level, orderGrid)
        <4>1. w \in Caller /\ orderGrid \in Grid /\ orderGrid' = orderGrid
          BY <1>4, <3>1 DEF HandleOrderBook, TypeInv, TypeOK, Caller
        <4>2. Continues(w)
          BY <3>1, <4>1, WalkContinues
        <4> QED
          BY <4>1, <4>2, ContinuesTypes DEF TypeInv, TypeOK, Job
      <3>2. CASE UNCHANGED jobs
        BY <1>4, <3>2 DEF HandleOrderBook, TypeInv, TypeOK, Asking, Busy, Job
      <3> QED
        BY <1>4, <3>1, <3>2 DEF HandleOrderBook
    <2>2. Boot'
      BY <1>4 DEF HandleOrderBook, TypeInv, Boot, Busy
    <2> QED
      BY <1>2, <1>4, <2>1, <2>2 DEF HandleOrderBook, TypeInv, TypeOK, Job, exchangeVars, redisVars
  <1> QED
    BY <1>3, <1>4

LEMMA AcquireTypes ==
    ASSUME TypeInv, NEW o \in Nat, Acquire(o)
    PROVE  /\ jobs' \in [Caller -> Job] /\ Asking'
           /\ orderGrid' \in Grid \cup {None} /\ (orderGrid \in Grid => orderGrid' \in Grid)
           /\ orderGrid = None => orderGrid' = None /\ jobs' = jobs
           /\ locked' \in BOOLEAN /\ waiting' \in Seq(Nat)
           /\ initPc' = initPc => Boot'
  <1>1. CASE onLockAcquired(o) /\ UNCHANGED waiting
    BY <1>1, LockTypes DEF TypeInv, TypeOK
  <1>2. CASE waiting' = Append(waiting, o) /\ UNCHANGED <<orderGrid, jobs, locked>>
    BY <1>2 DEF TypeInv, TypeOK, Asking, Busy, Boot, Job
  <1> QED
    BY <1>1, <1>2 DEF Acquire

LEMMA ClosedTypes ==
    ASSUME TypeInv,
           \/ \E o \in 1..Len(orders) : HandleClosed(o)
           \/ HandleForeign \/ Dequeue \/ TimeoutWaiting
    PROVE  TypeInv'
  <1>1. CASE \E o \in 1..Len(orders) : HandleClosed(o)
    <2>1. PICK o \in 1..Len(orders) : HandleClosed(o)
      BY <1>1
    <2>2. orders' \in Seq(Order)
      <3>1. orders' = [orders EXCEPT ![o] = [orders[o] EXCEPT !.told = @ + 1]]
        BY <2>1 DEF HandleClosed
      <3>2. [orders[o] EXCEPT !.told = @ + 1] \in Order
        BY OrderTyped DEF Order
      <3> QED
        BY <3>1, <3>2, Typed, ExceptType
    <2>3. o \in Nat /\ Acquire(o)
      BY <2>1 DEF HandleClosed
    <2> QED
      BY <2>1, <2>2, <2>3, AcquireTypes DEF HandleClosed, TypeInv, TypeOK, Order, Job, redisVars
  <1>2. CASE HandleForeign
    <2>1. MaxOrders + 1 \in Nat /\ Acquire(MaxOrders + 1)
      BY <1>2, GridAssumption DEF HandleForeign
    <2> QED
      BY <1>2, <2>1, AcquireTypes
      DEF HandleForeign, Mishap, TypeInv, TypeOK, Job, exchangeVars, redisVars
  <1>3. CASE Dequeue
    <2>1. Head(waiting) \in Nat /\ Tail(waiting) \in Seq(Nat)
      BY <1>3 DEF Dequeue, TypeInv, TypeOK
    <2> QED
      BY <1>3, <2>1, LockTypes DEF Dequeue, TypeInv, TypeOK, Job, exchangeVars, redisVars
  <1>4. CASE TimeoutWaiting
    <2>1. Tail(waiting) \in Seq(Nat)
      BY <1>4 DEF TimeoutWaiting, TypeInv, TypeOK
    <2> QED
      BY <1>4, <2>1 DEF TimeoutWaiting, TypeInv, TypeOK, Boot, Asking, Busy, exchangeVars, redisVars
  <1> QED
    BY <1>1, <1>2, <1>3, <1>4

\* What follows a submission, whatever its answer.
LEMMA ResumeTypes ==
    ASSUME TypeInv, NEW c \in Caller, Busy(c), NEW id \in Nat, Resume(c, id)
    PROVE  /\ jobs' \in [Caller -> Job] /\ Asking' /\ orderGrid' \in Grid
           /\ stored' \in Grid \cup {None} /\ Boot' /\ locked' \in BOOLEAN
           /\ initPc' \in {initPc, "saving", "submitting", "failed"}
           /\ waiting' = waiting /\ late' = late /\ market' = market /\ enabled' = enabled
  <1> DEFINE r == jobs[c].request
  <1>1. /\ r \in OrderRequest /\ orderGrid \in Grid /\ r.level \in Level /\ r.side \in Side
        /\ jobs \in [Caller -> Job] /\ Asking /\ stored \in Grid \cup {None} /\ locked \in BOOLEAN
    BY DEF TypeInv, TypeOK, Asking, Busy, OrderRequest, Job
  <1>2. ((r.level + 1)..Levels) \in SUBSET Level
    BY <1>1, GridAssumption DEF Level
  <1>3. SetLevel(r.level, id) \in Grid
    BY <1>1, SetLevelType
  <1>4. CASE c = "init" /\ AnswerInit(id)
    <2>1. /\ orderGrid' = SetLevel(r.level, id) /\ UNCHANGED <<locked, waiting>>
          /\ InitLoop((r.level + 1)..Levels, orderGrid')
      BY <1>4 DEF AnswerInit
    <2>2. /\ Continues("init") /\ initPc' \in {"saving", "submitting", "failed"}
          /\ stored' = stored \/ stored' = orderGrid'
      BY <1>2, <2>1, InitContinues
    <2>3. jobs' \in [Caller -> Job] /\ Asking'
      BY <1>1, <1>3, <1>4, <2>1, <2>2, ContinuesTypes
    <2> QED
      BY <1>1, <1>3, <2>1, <2>2, <2>3 DEF Resume, Boot
  <1>5. CASE c = "lock" /\ AnswerLock(id)
    <2>1. orderGrid' \in Grid /\ stored' = orderGrid'
      BY <1>1, <1>5, ModifyType DEF AnswerLock, pushGridToRedis
    <2>2. jobs' \in [Caller -> Job] /\ Asking'
      BY <1>1, <1>5, <2>1, ContinuesTypes DEF AnswerLock, Continues
    <2> QED
      BY <1>5, <2>1, <2>2 DEF AnswerLock, Resume, Boot, TypeInv
  <1>6. CASE c \in Walk /\ AnswerWalk(c, id)
    <2>1. /\ orderGrid' = SetLevel(r.level, id)
          /\ WalkOn(c, market, (r.level + 1)..Levels, orderGrid')
      BY <1>6 DEF AnswerWalk
    <2>2. Continues(c)
      BY <1>2, <1>3, <2>1, WalkContinues
    <2>3. jobs' \in [Caller -> Job] /\ Asking'
      BY <1>1, <1>3, <2>1, <2>2, ContinuesTypes
    <2> QED
      BY <1>1, <1>3, <1>6, <2>1, <2>3 DEF AnswerWalk, Resume, Boot, TypeInv
  <1> QED
    BY <1>4, <1>5, <1>6 DEF Resume

LEMMA LoseTypes ==
    ASSUME TypeInv, NEW c \in Caller, LoseAnswer(c)
    PROVE  orders' \in Seq(Order)
  <1> DEFINE o == jobs[c].order
  <1>1. CASE o \in 1..Len(orders) /\ orders' = [orders EXCEPT ![o].lost = TRUE]
    <2>1. orders' = [orders EXCEPT ![o] = [orders[o] EXCEPT !.lost = TRUE]]
      BY <1>1
    <2>2. [orders[o] EXCEPT !.lost = TRUE] \in Order
      BY <1>1, OrderTyped DEF Order
    <2> QED
      BY <1>1, <2>1, <2>2, Typed, ExceptType
  <1>2. CASE o \notin 1..Len(orders) /\ orders' = [orders EXCEPT ![o].lost = TRUE]
    <2>1. orders' = orders
      BY <1>2, Typed
    <2> QED
      BY <2>1, Typed
  <1> QED
    BY <1>1, <1>2, Typed DEF LoseAnswer

LEMMA AbandonedTypes ==
    ASSUME TypeInv, NEW C \in SUBSET Caller
    PROVE  Abandoned(C) \subseteq OrderRequest
  BY DEF Abandoned, TypeInv, Asking, Busy

LEMMA AnsweredTypes ==
    ASSUME TypeInv, NEW c \in Caller, Answered(c)
    PROVE  TypeInv'
  <1>1. CASE Answer(c)
    <2>1. Busy(c) /\ jobs[c].order \in Nat /\ Resume(c, jobs[c].order)
      BY <1>1 DEF Answer, Busy, TypeInv, TypeOK
    <2> QED
      BY <1>1, <2>1, ResumeTypes DEF Answer, TypeInv, TypeOK, Job
  <1>2. CASE AnswerEmpty(c)
    <2>1. Busy(c) /\ NoId \in Nat /\ Resume(c, NoId)
      BY <1>2 DEF AnswerEmpty, Busy, NoId
    <2>2. orders' \in Seq(Order)
      BY <1>2, LoseTypes DEF AnswerEmpty
    <2>3. mishaps' \in Nat
      BY <1>2 DEF AnswerEmpty, Mishap, TypeInv, TypeOK
    <2> QED
      BY <1>2, <2>1, <2>2, <2>3, ResumeTypes DEF TypeInv, TypeOK, Order, Job
  <1>3. CASE Timeout(c)
    <2>1. orders' \in Seq(Order) /\ late' \subseteq OrderRequest
      BY <1>3, LoseTypes, AbandonedTypes DEF Timeout, TypeInv, TypeOK
    <2>2. jobs' \in [Caller -> Job] /\ Asking'
      BY <1>3 DEF Timeout, Finish, Idle, TypeInv, TypeOK, Asking, Busy, Job, NoId
    <2>4. UNCHANGED <<orderGrid, market, locked, waiting, stored, enabled>> /\ mishaps' \in Nat
      BY <1>3 DEF Timeout, Mishap, TypeInv, TypeOK, redisVars
    <2>3. Boot' /\ initPc' \in {initPc, "failed"}
      BY <1>3 DEF Timeout, Finish, Idle, TypeInv, TypeOK, Boot, Busy
    <2> QED
      BY <2>1, <2>2, <2>3, <2>4 DEF TypeInv, TypeOK, Order, Job
  <1> QED
    BY <1>1, <1>2, <1>3 DEF Answered

LEMMA RestartTypes ==
    ASSUME TypeInv, Restart
    PROVE  TypeInv'
  <1>1. orders' \in Seq(Order)
    <2>1. \A o \in 1..Len(orders) : orders[o] \in Order
      BY OrderTyped
    <2>2. \A o \in 1..Len(orders) : [orders[o] EXCEPT !.lost = @ \/ ~ Remembered(o)] \in Order
      BY <2>1 DEF Order
    <2>3. Len(orders) \in Nat
      BY DEF TypeInv, TypeOK
    <2> QED
      BY <2>2, <2>3 DEF Restart
  <1>2. late' \subseteq OrderRequest
    BY AbandonedTypes DEF Restart, TypeInv, TypeOK
  <1>3. jobs' \in [Caller -> Job] /\ Asking' /\ Boot'
    BY DEF Restart, Idle, Job, Asking, Busy, Boot, NoId
  <1>4. market' \in [bestBid : Nat, bestAsk : Nat, book : Quote \cup {None}]
    BY DEF Restart, Unknown
  <1>5. waiting' \in Seq(Nat) /\ mishaps' \in Nat
    BY DEF Restart, Mishap, TypeInv, TypeOK
  <1> QED
    BY <1>1, <1>2, <1>3, <1>4, <1>5 DEF Restart, TypeInv, TypeOK, Order, Job, redisVars

LEMMA NextTypeInv == TypeInv /\ [Next]_vars => TypeInv'
  <1> SUFFICES ASSUME TypeInv, [Next]_vars PROVE TypeInv'
    OBVIOUS
  <1>1. CASE UNCHANGED vars
    BY <1>1 DEF vars, exchangeVars, pluginVars, redisVars, TypeInv, TypeOK, Boot, Asking, Busy
  <1> QED
    BY <1>1, ExchangeTypes, InitializeTypes, BookTypes, ClosedTypes, AnsweredTypes, RestartTypes DEF Next

\* Every variable has its type: whoever waits for an answer knows what it asked for, and
\* the plugin then has a grid to note the answer in.
THEOREM TypeCorrect == Spec => []TypeOK
  <1>1. TypeInv => TypeOK
    BY DEF TypeInv
  <1> QED
    BY <1>1, InitTypeInv, NextTypeInv, PTL DEF Spec

-----------------------------------------------------------------------------
(* ReplacedAtMostOnce.  The parts of the invariant are operators on the     *)
(* orders os, the jobs js and a grid g, which may be the plugin's or the    *)
(* stored one.                                                              *)

Orders == Seq(Order)
Jobs == [Caller -> Job]

Known(os, p) == p \in 1..Len(os) /\ ~ os[p].lost
Replaces(os, p) == os[p].request.replaces
Awaits(js, c) == js[c].pc = "asked"

\* Only the holder of the lock replaces orders.  Who waits for the answer about an order
\* is alone with it, and nobody has replaced it.
Asks(os, js) ==
    \A c \in Caller :
        /\ Awaits(js, c) => /\ js[c].request.replaces \in 0..Len(os)
                            /\ (c = "lock") = (js[c].request.replaces # NoId)
        /\ js[c].order # NoId =>
              /\ Awaits(js, c) /\ js[c].order \in 1..Len(os)
              /\ os[js[c].order].request = js[c].request
              /\ \A d \in Caller \ {c} : js[d].order # js[c].order
              /\ \A d \in Caller : Awaits(js, d) => js[d].request.replaces # js[c].order
              /\ \A p \in 1..Len(os) : Known(os, p) => Replaces(os, p) # js[c].order

\* No order has been replaced twice, nor is about to be.
Once(os, js) ==
    /\ \A p \in 1..Len(os) : Known(os, p) => Replaces(os, p) \in 0..Len(os)
    /\ \A p, q \in 1..Len(os) :
          Known(os, p) /\ Known(os, q) /\ Replaces(os, p) = Replaces(os, q)
            => p = q \/ Replaces(os, p) = NoId
    /\ Awaits(js, "lock") => \A p \in 1..Len(os) :
          Known(os, p) /\ Replaces(os, p) = js["lock"].request.replaces => p = js["lock"].order

\* A grid holds orders whose answers have come and that are not replaced, but for the
\* one being replaced.  One order may be at several levels, if these have one price.
Fits(g, os, js) == g # None =>
    /\ \A l \in Level : g[l].id \in 0..Len(os)
    /\ \A l \in Level, c \in Caller : js[c].order # NoId => g[l].id # js[c].order
    /\ \A l, k \in Level : g[l].id = g[k].id => g[l].id = NoId \/ Price(l) = Price(k)
    /\ \A l \in Level, p \in 1..Len(os) :
          Known(os, p) /\ Replaces(os, p) # NoId /\ p # js["lock"].order
            => g[l].id # Replaces(os, p)

\* The order being replaced is at levels of the price that is asked for, if at any.
Aims(g, js) == Awaits(js, "lock") =>
    \A l \in Level : g[l].id = js["lock"].request.replaces => Price(l) = Price(js["lock"].request.level)

\* What a restart will go on with.
Saved == enabled \/ initPc = "saving" => stored \in Grid

Queue == \A i \in 1..Len(waiting) : waiting[i] # NoId

OnceInv ==
    /\ TypeInv
    /\ Asks(orders, jobs) /\ Once(orders, jobs)
    /\ Fits(orderGrid, orders, jobs) /\ Fits(stored, orders, jobs)
    /\ Aims(orderGrid, jobs)
    /\ Awaits(jobs, "lock") => locked
    /\ Saved /\ Queue

LEMMA OnceIsOnce == OnceInv => ReplacedAtMostOnce
  BY DEF OnceInv, Once, Known, Replaces, ReplacedAtMostOnce, Placed

LEMMA InitOnce == Init => OnceInv
  <1> SUFFICES ASSUME Init PROVE OnceInv
    OBVIOUS
  <1>1. TypeInv
    BY InitTypeInv
  <1>2. orders = <<>> /\ orderGrid = None /\ stored = None /\ waiting = <<>>
        /\ \A c \in Caller : jobs[c].pc = "idle" /\ jobs[c].order = NoId
    BY DEF Init, Idle
  <1>3. "lock" \in Caller
    BY DEF Caller
  <1>4. Asks(orders, jobs) /\ Once(orders, jobs) /\ Aims(orderGrid, jobs) /\ ~ Awaits(jobs, "lock")
    BY <1>2, <1>3 DEF Asks, Once, Aims, Awaits
  <1> QED
    BY <1>1, <1>2, <1>4 DEF Init, OnceInv, Fits, Queue, Saved

-----------------------------------------------------------------------------
\* The same orders; some may have become lost.
Kept(os, os2) ==
    /\ Len(os2) = Len(os)
    /\ \A p \in 1..Len(os) : os2[p].request = os[p].request /\ (os[p].lost => os2[p].lost)

\* Caller c has ended, or asked for an order that replaces none.
Released(js, js2, c) ==
    /\ \A d \in Caller \ {c} : js2[d] = js[d]
    /\ js2[c].order = NoId
    /\ Awaits(js2, c) => c # "lock" /\ js2[c].request.replaces = NoId

LEMMA KeptReleased ==
    ASSUME NEW os \in Orders, NEW os2 \in Orders, NEW js \in Jobs, NEW js2 \in Jobs,
           Asks(os, js), Once(os, js), Kept(os, os2),
           js2 = js \/ \E c \in Caller : Released(js, js2, c)
    PROVE  Asks(os2, js2) /\ Once(os2, js2)
  <1>1. Len(os) \in Nat /\ Len(os2) = Len(os)
    BY DEF Kept, Orders
  <1>2. \A p \in 1..Len(os) : Replaces(os2, p) = Replaces(os, p) /\ (Known(os2, p) => Known(os, p))
    BY <1>1 DEF Kept, Replaces, Known
  <1>3. \A c \in Caller :
           \/ js2[c] = js[c]
           \/ js2[c].order = NoId /\ (Awaits(js2, c) => c # "lock" /\ js2[c].request.replaces = NoId)
    <2>1. CASE js2 = js
      BY <2>1
    <2>2. ASSUME NEW e \in Caller, Released(js, js2, e)
          PROVE  \A c \in Caller :
                    \/ js2[c] = js[c]
                    \/ js2[c].order = NoId /\ (Awaits(js2, c) => c # "lock" /\ js2[c].request.replaces = NoId)
      BY <2>2 DEF Released
    <2> QED
      BY <2>1, <2>2
  <1>4. \A c \in Caller : js2[c].order # NoId => js2[c] = js[c]
    BY <1>3
  <1>5. \A c \in Caller : Awaits(js2, c) =>
           \/ js2[c] = js[c]
           \/ c # "lock" /\ js2[c].request.replaces = NoId
    BY <1>3
  <1>6. ASSUME NEW c \in Caller, js2[c].order # NoId
        PROVE  /\ Awaits(js2, c) /\ js2[c].order \in 1..Len(os2)
               /\ os2[js2[c].order].request = js2[c].request
               /\ \A d \in Caller \ {c} : js2[d].order # js2[c].order
               /\ \A d \in Caller : Awaits(js2, d) => js2[d].request.replaces # js2[c].order
               /\ \A p \in 1..Len(os2) : Known(os2, p) => Replaces(os2, p) # js2[c].order
    <2>1. js2[c] = js[c]
      BY <1>4, <1>6
    <2>2. /\ Awaits(js, c) /\ js[c].order \in 1..Len(os)
          /\ os[js[c].order].request = js[c].request
          /\ \A d \in Caller \ {c} : js[d].order # js[c].order
          /\ \A d \in Caller : Awaits(js, d) => js[d].request.replaces # js[c].order
          /\ \A p \in 1..Len(os) : Known(os, p) => Replaces(os, p) # js[c].order
      BY <1>6, <2>1 DEF Asks
    <2>3. \A d \in Caller \ {c} : js2[d].order # js2[c].order
      BY <1>4, <1>6, <2>1, <2>2
    <2>4. \A d \in Caller : Awaits(js2, d) => js2[d].request.replaces # js2[c].order
      BY <1>5, <1>6, <2>1, <2>2 DEF Awaits
    <2>5. \A p \in 1..Len(os2) : Known(os2, p) => Replaces(os2, p) # js2[c].order
      BY <1>1, <1>2, <2>1, <2>2
    <2>6. os2[js2[c].order].request = js2[c].request
      BY <2>1, <2>2 DEF Kept
    <2> QED
      BY <1>1, <2>1, <2>2, <2>3, <2>4, <2>5, <2>6 DEF Awaits
  <1>7. ASSUME NEW c \in Caller, Awaits(js2, c)
        PROVE  /\ js2[c].request.replaces \in 0..Len(os2)
               /\ (c = "lock") = (js2[c].request.replaces # NoId)
    BY <1>1, <1>5, <1>7 DEF Asks, Awaits, NoId
  <1>8. Asks(os2, js2)
    BY <1>6, <1>7 DEF Asks
  <1>9. "lock" \in Caller
    BY DEF Caller
  <1>10. Once(os2, js2)
    BY <1>1, <1>2, <1>5, <1>9 DEF Once, Awaits
  <1> QED
    BY <1>8, <1>10

\* The ids of a grid may be cleared, or exchanged for an order nobody waits for any more
\* and nobody replaced.
LEMMA FitsChanged ==
    ASSUME NEW os \in Orders, NEW os2 \in Orders, NEW js \in Jobs, NEW js2 \in Jobs, NEW g, NEW g2,
           NEW id \in 0..Len(os),
           g # None, Fits(g, os, js), Kept(os, os2),
           \A c \in Caller : js2[c].order = js[c].order \/ js2[c].order = NoId,
           \A l \in Level : g2[l].id \in {g[l].id, NoId, id},
           id # NoId =>
              /\ \A c \in Caller : js2[c].order # id
              /\ \A l, k \in Level : g2[l].id = id /\ g2[k].id = id => Price(l) = Price(k)
              /\ \A p \in 1..Len(os) : Known(os, p) => Replaces(os, p) # id,
           \A l \in Level, p \in 1..Len(os) :
              Known(os2, p) /\ p = js["lock"].order /\ p # js2["lock"].order /\ Replaces(os, p) # NoId
                => g2[l].id # Replaces(os, p)
    PROVE  Fits(g2, os2, js2)
  <1>1. Len(os) \in Nat /\ Len(os2) = Len(os)
    BY DEF Kept, Orders
  <1>2. \A p \in 1..Len(os) : Replaces(os2, p) = Replaces(os, p) /\ (Known(os2, p) => Known(os, p))
    BY <1>1 DEF Kept, Replaces, Known
  <1>3. \A l \in Level : g2[l].id \in 0..Len(os2)
    BY <1>1 DEF Fits, NoId
  <1>4. \A l \in Level, c \in Caller : js2[c].order # NoId => g2[l].id # js2[c].order
    BY DEF Fits
  <1>5. \A l, k \in Level : g2[l].id = g2[k].id => g2[l].id = NoId \/ Price(l) = Price(k)
    <2> SUFFICES ASSUME NEW l \in Level, NEW k \in Level, g2[l].id = g2[k].id, g2[l].id # NoId
                 PROVE  Price(l) = Price(k)
      OBVIOUS
    <2>1. CASE g2[l].id = id
      BY <2>1
    <2>2. CASE g2[l].id # id
      BY <2>2 DEF Fits
    <2> QED
      BY <2>1, <2>2
  <1>6. ASSUME NEW l \in Level, NEW p \in 1..Len(os2), Known(os2, p), Replaces(os2, p) # NoId,
               p # js2["lock"].order
        PROVE  g2[l].id # Replaces(os2, p)
    <2>1. p \in 1..Len(os) /\ Known(os, p) /\ Replaces(os2, p) = Replaces(os, p)
      BY <1>1, <1>2, <1>6
    <2>2. CASE g2[l].id = id /\ id # NoId
      BY <2>1, <2>2
    <2>3. CASE g2[l].id = NoId
      BY <1>6, <2>3
    <2>4. CASE g2[l].id = g[l].id
      <3>1. CASE p = js["lock"].order
        BY <1>6, <2>1, <3>1
      <3>2. CASE p # js["lock"].order
        BY <1>6, <2>1, <2>4, <3>2 DEF Fits
      <3> QED
        BY <3>1, <3>2
    <2> QED
      BY <2>2, <2>3, <2>4
  <1> QED
    BY <1>3, <1>4, <1>5, <1>6 DEF Fits

LEMMA KeptSame == ASSUME NEW os \in Orders PROVE Kept(os, os)
  BY DEF Kept, Orders

\* A grid that stays as it is; the order that replaced another becomes lost, if its
\* caller ends without having noted it.
LEMMA FitsKept ==
    ASSUME NEW os \in Orders, NEW os2 \in Orders, NEW js \in Jobs, NEW js2 \in Jobs, NEW g,
           Fits(g, os, js), Kept(os, os2),
           js2 = js \/ \E c \in Caller : Released(js, js2, c),
           Known(os2, js["lock"].order) => js2["lock"].order = js["lock"].order
    PROVE  Fits(g, os2, js2)
  <1>1. CASE g = None
    BY <1>1 DEF Fits
  <1>2. CASE g # None
    <2>1. \A c \in Caller : js2[c].order = js[c].order \/ js2[c].order = NoId
      <3>1. CASE js2 = js
        BY <3>1
      <3>2. ASSUME NEW e \in Caller, Released(js, js2, e)
            PROVE  \A c \in Caller : js2[c].order = js[c].order \/ js2[c].order = NoId
        BY <3>2 DEF Released
      <3> QED
        BY <3>1, <3>2
    <2>2. NoId \in 0..Len(os)
      BY DEF NoId, Orders
    <2>3. \A l \in Level : g[l].id \in {g[l].id, NoId, NoId}
      OBVIOUS
    <2>4. \A l \in Level, p \in 1..Len(os) :
             Known(os2, p) /\ p = js["lock"].order /\ p # js2["lock"].order /\ Replaces(os, p) # NoId
               => g[l].id # Replaces(os, p)
      OBVIOUS
    <2> QED
      BY <1>2, <2>1, <2>2, <2>3, <2>4, FitsChanged
  <1> QED
    BY <1>1, <1>2

\* A grid none of whose levels has an order.
LEMMA FitsEmpty ==
    ASSUME NEW os \in Orders, NEW js, NEW g, \A l \in Level : g[l].id = NoId
    PROVE  Fits(g, os, js)
  <1>1. NoId \in 0..Len(os)
    BY DEF NoId, Orders
  <1> QED
    BY <1>1 DEF Fits

-----------------------------------------------------------------------------
\* Caller c's order is placed.
LEMMA Accepted ==
    ASSUME NEW os \in Orders, NEW os2 \in Orders, NEW js \in Jobs, NEW js2 \in Jobs, NEW c \in Caller,
           Asks(os, js), Once(os, js), Awaits(js, c), js[c].order = NoId,
           Len(os2) = Len(os) + 1,
           \A p \in 1..Len(os) : os2[p] = os[p],
           os2[Len(os) + 1].request = js[c].request,
           \A d \in Caller \ {c} : js2[d] = js[d],
           js2[c].pc = js[c].pc, js2[c].request = js[c].request, js2[c].order = Len(os) + 1
    PROVE  /\ Asks(os2, js2) /\ Once(os2, js2)
           /\ \A g : Fits(g, os, js) => Fits(g, os2, js2)
           /\ \A g : Aims(g, js) => Aims(g, js2)
  <1> DEFINE n == Len(os) + 1
  <1>1. Len(os) \in Nat /\ Len(os2) = n /\ "lock" \in Caller /\ n # NoId
    BY DEF Orders, Caller, NoId
  <1>2. \A p \in 1..Len(os) : Replaces(os2, p) = Replaces(os, p) /\ (Known(os2, p) = Known(os, p))
    BY <1>1 DEF Replaces, Known
  <1>3. Replaces(os2, n) = js[c].request.replaces
    BY DEF Replaces
  <1>4. \A p \in 1..Len(os2) : p = n \/ p \in 1..Len(os)
    BY <1>1
  <1>5. \A d \in Caller : Awaits(js2, d) = Awaits(js, d) /\ js2[d].request = js[d].request
    BY DEF Awaits
  <1>6. \A d \in Caller : Awaits(js, d) => /\ js[d].request.replaces \in 0..Len(os)
                                          /\ (d = "lock") = (js[d].request.replaces # NoId)
    BY DEF Asks
  <1>7. \A d \in Caller : js[d].order # NoId => js[d].order \in 1..Len(os)
    BY DEF Asks
  <1>8. ASSUME NEW d \in Caller, js2[d].order # NoId
        PROVE  /\ Awaits(js2, d) /\ js2[d].order \in 1..Len(os2)
               /\ os2[js2[d].order].request = js2[d].request
               /\ \A e \in Caller \ {d} : js2[e].order # js2[d].order
               /\ \A e \in Caller : Awaits(js2, e) => js2[e].request.replaces # js2[d].order
               /\ \A p \in 1..Len(os2) : Known(os2, p) => Replaces(os2, p) # js2[d].order
    <2>1. CASE d = c
      <3>1. \A e \in Caller \ {c} : js2[e].order # n
        BY <1>1, <1>7
      <3>2. \A e \in Caller : Awaits(js2, e) => js2[e].request.replaces # n
        BY <1>1, <1>5, <1>6
      <3>3. \A p \in 1..Len(os2) : Known(os2, p) => Replaces(os2, p) # n
        BY <1>1, <1>2, <1>3, <1>4, <1>6 DEF Once
      <3> QED
        BY <1>1, <1>5, <2>1, <3>1, <3>2, <3>3
    <2>2. CASE d # c
      <3>1. js2[d] = js[d] /\ js[d].order \in 1..Len(os)
        BY <1>7, <1>8, <2>2
      <3>2. /\ Awaits(js, d) /\ os[js[d].order].request = js[d].request
            /\ \A e \in Caller \ {d} : js[e].order # js[d].order
            /\ \A e \in Caller : Awaits(js, e) => js[e].request.replaces # js[d].order
            /\ \A p \in 1..Len(os) : Known(os, p) => Replaces(os, p) # js[d].order
        BY <1>8, <3>1 DEF Asks
      <3>3. \A e \in Caller \ {d} : js2[e].order # js2[d].order
        BY <1>1, <3>1, <3>2
      <3>4. \A p \in 1..Len(os2) : Known(os2, p) => Replaces(os2, p) # js2[d].order
        BY <1>2, <1>3, <1>4, <3>1, <3>2
      <3> QED
        BY <1>1, <1>5, <3>1, <3>2, <3>3, <3>4
    <2> QED
      BY <2>1, <2>2
  <1>9. Asks(os2, js2)
    BY <1>1, <1>5, <1>6, <1>8 DEF Asks
  <1>10. Once(os2, js2)
    <2>1. \A p \in 1..Len(os2) : Known(os2, p) => Replaces(os2, p) \in 0..Len(os2)
      BY <1>1, <1>2, <1>3, <1>4, <1>6 DEF Once
    <2>2. \A p \in 1..Len(os) : Known(os, p) => Replaces(os, p) # js[c].request.replaces
                                                \/ js[c].request.replaces = NoId
      <3>1. CASE c = "lock"
        BY <1>1, <3>1 DEF Once, NoId
      <3>2. CASE c # "lock"
        BY <1>6, <3>2
      <3> QED
        BY <3>1, <3>2
    <2>3. \A p, q \in 1..Len(os2) :
             Known(os2, p) /\ Known(os2, q) /\ Replaces(os2, p) = Replaces(os2, q)
               => p = q \/ Replaces(os2, p) = NoId
      BY <1>2, <1>3, <1>4, <2>2 DEF Once
    <2>4. Awaits(js2, "lock") => \A p \in 1..Len(os2) :
             Known(os2, p) /\ Replaces(os2, p) = js2["lock"].request.replaces => p = js2["lock"].order
      <3> SUFFICES ASSUME Awaits(js2, "lock"), NEW p \in 1..Len(os2), Known(os2, p),
                          Replaces(os2, p) = js2["lock"].request.replaces
                   PROVE  p = js2["lock"].order
        OBVIOUS
      <3>1. Awaits(js, "lock") /\ js2["lock"].request = js["lock"].request
            /\ js["lock"].request.replaces # NoId
        BY <1>1, <1>5, <1>6
      <3>2. CASE c = "lock"
        BY <1>2, <1>4, <2>2, <3>1, <3>2
      <3>3. CASE c # "lock"
        <4>1. p # n
          BY <1>3, <1>6, <3>1, <3>3
        <4> QED
          BY <1>1, <1>2, <1>4, <3>1, <3>3, <4>1 DEF Once
      <3> QED
        BY <3>2, <3>3
    <2> QED
      BY <2>1, <2>3, <2>4 DEF Once
  <1>11. ASSUME NEW g, Fits(g, os, js)
         PROVE  Fits(g, os2, js2)
    <2> SUFFICES ASSUME g # None
                 PROVE  Fits(g, os2, js2)
      BY DEF Fits
    <2>1. \A l \in Level : g[l].id \in 0..Len(os) /\ g[l].id # n
      BY <1>1, <1>11 DEF Fits
    <2>2. \A l \in Level, d \in Caller : js2[d].order # NoId => g[l].id # js2[d].order
      BY <1>11, <2>1 DEF Fits
    <2>3. \A l \in Level, p \in 1..Len(os2) :
             Known(os2, p) /\ Replaces(os2, p) # NoId /\ p # js2["lock"].order
               => g[l].id # Replaces(os2, p)
      <3> SUFFICES ASSUME NEW l \in Level, NEW p \in 1..Len(os2), Known(os2, p), Replaces(os2, p) # NoId,
                          p # js2["lock"].order
                   PROVE  g[l].id # Replaces(os2, p)
        OBVIOUS
      <3>1. p # n
        BY <1>3, <1>6
      <3>2. p \in 1..Len(os) /\ Known(os, p) /\ Replaces(os2, p) = Replaces(os, p)
        BY <1>2, <1>4, <3>1
      <3>3. p # js["lock"].order
        BY <1>1, <3>2 DEF NoId
      <3> QED
        BY <1>11, <3>2, <3>3 DEF Fits
    <2>4. \A l \in Level : g[l].id \in 0..Len(os2)
      BY <1>1, <2>1
    <2>5. \A l, k \in Level : g[l].id = g[k].id => g[l].id = NoId \/ Price(l) = Price(k)
      BY <1>11 DEF Fits
    <2> QED
      BY <2>2, <2>3, <2>4, <2>5 DEF Fits
  <1>12. \A g : Aims(g, js) => Aims(g, js2)
    BY <1>1, <1>5 DEF Aims
  <1> QED
    BY <1>9, <1>10, <1>11, <1>12

\* An order is placed of which nobody will hear.
LEMMA AcceptedLate ==
    ASSUME NEW os \in Orders, NEW os2 \in Orders, NEW js \in Jobs,
           Asks(os, js), Once(os, js),
           Len(os2) = Len(os) + 1,
           \A p \in 1..Len(os) : os2[p] = os[p],
           os2[Len(os) + 1].lost
    PROVE  Asks(os2, js) /\ Once(os2, js) /\ \A g : Fits(g, os, js) => Fits(g, os2, js)
  <1>1. Len(os) \in Nat
    BY DEF Orders
  <1>2. \A p \in 1..Len(os2) : Known(os2, p) => /\ p \in 1..Len(os) /\ Known(os, p)
                                               /\ Replaces(os2, p) = Replaces(os, p)
    BY <1>1 DEF Replaces, Known
  <1>3. Asks(os2, js)
    BY <1>1, <1>2 DEF Asks
  <1>4. Once(os2, js)
    BY <1>1, <1>2 DEF Once
  <1>5. ASSUME NEW g, Fits(g, os, js)
        PROVE  Fits(g, os2, js)
    <2>1. g # None => \A l \in Level : g[l].id \in 0..Len(os2)
      BY <1>1, <1>5 DEF Fits
    <2>2. g # None => \A l \in Level, p \in 1..Len(os2) :
             Known(os2, p) /\ Replaces(os2, p) # NoId /\ p # js["lock"].order
               => g[l].id # Replaces(os2, p)
      BY <1>2, <1>5 DEF Fits
    <2> QED
      BY <1>5, <2>1, <2>2 DEF Fits
  <1> QED
    BY <1>3, <1>4, <1>5

-----------------------------------------------------------------------------
\* The steps.  What the invariant says beside the types:
Safe(os, js, g, s) ==
    /\ Asks(os, js) /\ Once(os, js)
    /\ Fits(g, os, js) /\ Fits(s, os, js)
    /\ Aims(g, js)

LEMMA OnceSafe ==
    OnceInv <=> /\ TypeInv /\ Safe(orders, jobs, orderGrid, stored)
                /\ Awaits(jobs, "lock") => locked
                /\ Saved /\ Queue
  BY DEF OnceInv, Safe

LEMMA OnceTyped ==
    ASSUME TypeInv
    PROVE  orders \in Orders /\ jobs \in Jobs /\ "lock" \in Caller /\ Len(orders) \in Nat
  BY Typed DEF Orders, Jobs, Caller

LEMMA OnceTypedNext ==
    ASSUME TypeInv'
    PROVE  orders' \in Orders /\ jobs' \in Jobs
  BY DEF TypeInv, TypeOK, Orders, Jobs, Order, Job

\* Nobody's answer but that about an order that becomes lost is dropped, and the grids
\* stay or are one of the two.
LEMMA KeptSafe ==
    ASSUME NEW os \in Orders, NEW os2 \in Orders, NEW js \in Jobs, NEW js2 \in Jobs, NEW g, NEW s,
           NEW g2, NEW s2,
           Safe(os, js, g, s), Kept(os, os2),
           js2 = js \/ \E c \in Caller : Released(js, js2, c),
           Known(os2, js["lock"].order) => js2["lock"].order = js["lock"].order,
           g2 = g \/ (Fits(g2, os2, js2) /\ Aims(g2, js2)),
           s2 \in {s, g2} \/ Fits(s2, os2, js2)
    PROVE  Safe(os2, js2, g2, s2)
  <1>1. Asks(os2, js2) /\ Once(os2, js2)
    BY KeptReleased DEF Safe
  <1>2. Fits(g, os2, js2) /\ Fits(s, os2, js2)
    BY FitsKept DEF Safe
  <1>3. Aims(g, js2)
    <2>1. CASE js2 = js
      BY <2>1 DEF Safe
    <2>2. ASSUME NEW c \in Caller, Released(js, js2, c) PROVE Aims(g, js2)
      BY <2>2 DEF Released, Aims, Awaits, Safe, Caller
    <2> QED
      BY <2>1, <2>2
  <1> QED
    BY <1>1, <1>2, <1>3 DEF Safe

LEMMA KeptStep ==
    ASSUME OnceInv, TypeInv', Kept(orders, orders'),
           jobs' = jobs \/ \E c \in Caller : Released(jobs, jobs', c),
           Known(orders', jobs["lock"].order) => jobs'["lock"].order = jobs["lock"].order,
           orderGrid' = orderGrid \/ (Fits(orderGrid', orders', jobs') /\ Aims(orderGrid', jobs')),
           stored' \in {stored, orderGrid'} \/ Fits(stored', orders', jobs')
    PROVE  Safe(orders', jobs', orderGrid', stored')
  <1>1. orders \in Orders /\ jobs \in Jobs /\ orders' \in Orders /\ jobs' \in Jobs
    BY OnceTyped, OnceTypedNext DEF OnceInv
  <1>2. Safe(orders, jobs, orderGrid, stored)
    BY DEF OnceInv, Safe
  <1> DEFINE os2 == orders'
             js2 == jobs'
             g2 == orderGrid'
             s2 == stored'
  <1>3. /\ os2 \in Orders /\ js2 \in Jobs /\ Kept(orders, os2)
        /\ js2 = jobs \/ \E c \in Caller : Released(jobs, js2, c)
        /\ Known(os2, jobs["lock"].order) => js2["lock"].order = jobs["lock"].order
        /\ g2 = orderGrid \/ (Fits(g2, os2, js2) /\ Aims(g2, js2))
        /\ s2 \in {stored, g2} \/ Fits(s2, os2, js2)
    BY <1>1
  <1> HIDE DEF os2, js2, g2, s2
  <1>4. Safe(os2, js2, g2, s2)
    BY <1>1, <1>2, <1>3, KeptSafe
  <1> QED
    BY <1>4 DEF os2, js2, g2, s2

LEMMA AcceptOnce ==
    ASSUME OnceInv, TypeInv', (\E c \in Caller : Accept(c)) \/ AcceptLate
    PROVE  OnceInv'
  <1>0. /\ orders \in Orders /\ jobs \in Jobs /\ "lock" \in Caller /\ Len(orders) \in Nat
        /\ orders' \in Orders /\ jobs' \in Jobs
    BY OnceTyped, OnceTypedNext DEF OnceInv
  <1>1. ASSUME NEW c \in Caller, Accept(c)
        PROVE  OnceInv'
    <2>1. /\ Len(orders') = Len(orders) + 1
          /\ \A p \in 1..Len(orders) : orders'[p] = orders[p]
          /\ orders'[Len(orders) + 1].request = jobs[c].request
      BY <1>0, <1>1 DEF Accept, PlaceOrder, Orders
    <2>2. /\ \A d \in Caller \ {c} : jobs'[d] = jobs[d]
          /\ jobs'[c].pc = jobs[c].pc /\ jobs'[c].request = jobs[c].request
          /\ jobs'[c].order = Len(orders) + 1
      BY <1>0, <1>1 DEF Accept, Jobs, Job
    <2>3. /\ Asks(orders', jobs') /\ Once(orders', jobs')
          /\ \A g : Fits(g, orders, jobs) => Fits(g, orders', jobs')
          /\ \A g : Aims(g, jobs) => Aims(g, jobs')
      <3>1. Awaits(jobs, c) /\ jobs[c].order = NoId /\ Asks(orders, jobs) /\ Once(orders, jobs)
        BY <1>1 DEF Accept, Awaits, OnceInv
      <3> QED
        BY <1>0, <2>1, <2>2, <3>1, Accepted
    <2>4. Safe(orders', jobs', orderGrid', stored')
      BY <1>1, <2>3 DEF Accept, OnceInv, Safe, redisVars
    <2>5. Awaits(jobs', "lock") => locked'
      BY <1>0, <1>1, <2>2 DEF Accept, OnceInv, Awaits
    <2>6. Saved' /\ Queue'
      BY <1>1 DEF Accept, OnceInv, Saved, Queue, redisVars
    <2> QED
      BY <2>4, <2>5, <2>6 DEF OnceInv, Safe
  <1>2. CASE AcceptLate
    <2>1. /\ Len(orders') = Len(orders) + 1
          /\ \A p \in 1..Len(orders) : orders'[p] = orders[p]
          /\ orders'[Len(orders) + 1].lost
      BY <1>0, <1>2 DEF AcceptLate, PlaceOrder, Orders
    <2>2. /\ Asks(orders', jobs) /\ Once(orders', jobs)
          /\ \A g : Fits(g, orders, jobs) => Fits(g, orders', jobs)
      BY <1>0, <2>1, AcceptedLate DEF OnceInv
    <2> QED
      BY <1>2, <2>2 DEF AcceptLate, OnceInv, Saved, Queue, pluginVars, redisVars
  <1> QED
    BY <1>1, <1>2

LEMMA FillKeeps ==
    ASSUME orders \in Orders, NEW o \in 1..Len(orders), NEW e,
           orders' = [orders EXCEPT ![o] = e], e.request = orders[o].request,
           orders[o].lost => e.lost
    PROVE  Kept(orders, orders')
  BY DEF Kept, Orders

\* Steps that take no part in it.
LEMMA QuietOnce ==
    ASSUME OnceInv, TypeInv',
           \/ UNCHANGED vars
           \/ \E o \in 1..Len(orders) : Fill(o)
           \/ Enable \/ TimeoutWaiting
           \/ \E q \in Quote : CacheBook(q)
    PROVE  OnceInv'
  <1>0. /\ orders \in Orders /\ jobs \in Jobs /\ "lock" \in Caller /\ Len(orders) \in Nat
        /\ orders' \in Orders /\ jobs' \in Jobs
    BY OnceTyped, OnceTypedNext DEF OnceInv
  <1>1. ASSUME Kept(orders, orders'), UNCHANGED <<orderGrid, jobs, locked, stored>>, Saved', Queue'
        PROVE  OnceInv'
    <2>1. Safe(orders', jobs', orderGrid', stored')
      BY <1>0, <1>1, KeptSafe DEF OnceInv, Safe
    <2> QED
      BY <1>1, <2>1 DEF OnceInv, Safe
  <1>2. CASE UNCHANGED vars
    BY <1>0, <1>1, <1>2, KeptSame
    DEF vars, exchangeVars, pluginVars, redisVars, OnceInv, Saved, Queue
  <1>3. ASSUME NEW o \in 1..Len(orders), Fill(o) PROVE OnceInv'
    <2>1. orders' = [orders EXCEPT ![o] = [orders[o] EXCEPT !.open = FALSE]]
      BY <1>3 DEF Fill
    <2>2. Kept(orders, orders')
      <3>1. orders[o] \in Order
        BY OrderTyped DEF OnceInv
      <3> QED
        BY <1>0, <2>1, <3>1, FillKeeps DEF Order
    <2> QED
      BY <1>1, <1>3, <2>2 DEF Fill, pluginVars, redisVars, OnceInv, Saved, Queue
  <1>4. CASE Enable
    BY <1>0, <1>1, <1>4, KeptSame DEF Enable, exchangeVars, OnceInv, Saved, Queue
  <1>5. CASE TimeoutWaiting
    <2>1. Queue'
      BY <1>5 DEF TimeoutWaiting, Queue, OnceInv, TypeInv, TypeOK
    <2> QED
      BY <1>0, <1>1, <1>5, <2>1, KeptSame DEF TimeoutWaiting, exchangeVars, redisVars, OnceInv, Saved
  <1>6. ASSUME NEW q \in Quote, CacheBook(q) PROVE OnceInv'
    BY <1>0, <1>1, <1>6, KeptSame DEF CacheBook, exchangeVars, redisVars, OnceInv, Saved, Queue
  <1> QED
    BY <1>2, <1>3, <1>4, <1>5, <1>6

\* A walk or Initialize goes on, and whoever ends is released.
LEMMA ContinuesReleases ==
    ASSUME jobs \in Jobs, NEW c \in Caller, (c # "lock" /\ Continues(c)) \/ Finish(c)
    PROVE  Released(jobs, jobs', c)
  <1>1. CASE Finish(c)
    BY <1>1 DEF Finish, Idle, Released, Awaits, Jobs
  <1>2. ASSUME NEW l \in Level, NEW s \in Side, Submit(c, l, s, NoId), c # "lock"
        PROVE  Released(jobs, jobs', c)
    BY <1>2 DEF Submit, Asked, Request, Released, Awaits, Jobs
  <1> QED
    BY <1>1, <1>2 DEF Continues

LEMMA NotLock == "lock" # "init" /\ \A w \in Walk : w # "lock" /\ w \in Caller
  BY GridAssumption DEF Caller

LEMMA InitializeOnce ==
    ASSUME OnceInv, TypeInv', Initialize
    PROVE  OnceInv'
  <1>0. /\ orders \in Orders /\ jobs \in Jobs /\ "lock" \in Caller /\ Len(orders) \in Nat
        /\ orders' \in Orders /\ jobs' \in Jobs
    BY OnceTyped, OnceTypedNext DEF OnceInv
  <1>1. CASE Start
    <2>1. /\ UNCHANGED <<orders, jobs, waiting, locked>> /\ ~ Awaits(jobs, "lock")
          /\ initPc' # "saving" /\ enabled' = enabled
      BY <1>0, <1>1 DEF Start, exchangeVars, OnceInv, TypeInv, Boot, Busy, Awaits
    <2>2. Fits(createOrderGrid, orders, jobs) /\ Aims(createOrderGrid, jobs)
      <3>1. \A l \in Level : createOrderGrid[l].id = NoId
        BY DEF createOrderGrid
      <3> QED
        BY <1>0, <2>1, <3>1, FitsEmpty DEF Aims
    <2>3. /\ orderGrid' \in {orderGrid, createOrderGrid}
          /\ stored' \in {stored, createOrderGrid}
          /\ enabled => stored' = stored
      BY <1>1 DEF Start, pushGridToRedis
    <2>4. Safe(orders', jobs', orderGrid', stored')
      BY <1>0, <2>1, <2>2, <2>3 DEF Safe, OnceInv
    <2> QED
      BY <2>1, <2>3, <2>4 DEF OnceInv, Safe, Saved, Queue
  <1>2. CASE Load
    <2>1. ~ Awaits(jobs, "lock")
      BY <1>0, <1>2 DEF Load, OnceInv, TypeInv, Boot, Busy, Awaits
    <2> QED
      BY <1>2, <2>1 DEF Load, OnceInv, Aims, Saved, Queue, exchangeVars, redisVars
  <1>3. CASE BeginInitLoop
    <2>1. orderGrid \in Grid /\ InitLoop(Level, orderGrid) /\ Level \in SUBSET Level
      BY <1>3 DEF BeginInitLoop, OnceInv, TypeInv, Boot
    <2>2. /\ Released(jobs, jobs', "init")
          /\ stored' = stored \/ stored' = orderGrid
      BY <1>0, <2>1, InitContinues, ContinuesReleases, NotLock DEF Caller
    <2>3. UNCHANGED <<orders, orderGrid, locked, waiting, enabled>>
      BY <1>3 DEF BeginInitLoop, exchangeVars
    <2>4. jobs'["lock"] = jobs["lock"]
      BY <1>0, <2>2, NotLock DEF Released
    <2>5. Safe(orders', jobs', orderGrid', stored')
      <3>1. "init" \in Caller /\ Kept(orders, orders')
        BY <1>0, <2>3, KeptSame DEF Caller
      <3>2. \E c \in Caller : Released(jobs, jobs', c)
        BY <2>2, <3>1
      <3>3. jobs'["lock"].order = jobs["lock"].order /\ orderGrid' = orderGrid /\ stored' \in {stored, orderGrid'}
        BY <2>2, <2>3, <2>4
      <3> QED
        BY <3>1, <3>2, <3>3, KeptStep
    <2>6. Saved'
      BY <2>1, <2>2, <2>3 DEF InitLoop, pushGridToRedis, OnceInv, Saved
    <2> QED
      BY <2>3, <2>4, <2>5, <2>6 DEF OnceInv, Safe, Queue, Awaits
  <1>4. CASE Enable
    BY <1>4, QuietOnce
  <1> QED
    BY <1>1, <1>2, <1>3, <1>4 DEF Initialize

LEMMA BookOnce ==
    ASSUME OnceInv, TypeInv', NEW q \in Quote, NEW w \in Walk, HandleOrderBook(w, q)
    PROVE  OnceInv'
  <1>0. /\ orders \in Orders /\ jobs \in Jobs /\ "lock" \in Caller /\ Len(orders) \in Nat
        /\ orders' \in Orders /\ jobs' \in Jobs /\ w \in Caller /\ w # "lock"
    BY OnceTyped, OnceTypedNext, NotLock DEF OnceInv
  <1>1. UNCHANGED <<orders, orderGrid, locked, waiting, stored, enabled, initPc>>
    BY DEF HandleOrderBook, exchangeVars, redisVars
  <1>2. jobs' = jobs \/ Released(jobs, jobs', w)
    <2>1. CASE orderGrid # None /\ WalkOn(w, market', Level, orderGrid)
      <3>1. orderGrid \in Grid /\ Level \in SUBSET Level
        BY <2>1 DEF OnceInv, TypeInv, TypeOK
      <3>2. Continues(w)
        BY <1>0, <2>1, <3>1, WalkContinues
      <3> QED
        BY <1>0, <3>2, ContinuesReleases
    <2> QED
      BY <2>1 DEF HandleOrderBook
  <1>3. jobs'["lock"] = jobs["lock"]
    BY <1>0, <1>2 DEF Released
  <1>4. Safe(orders', jobs', orderGrid', stored')
    <2>1. Kept(orders, orders')
      BY <1>0, <1>1, KeptSame
    <2>2. jobs' = jobs \/ \E c \in Caller : Released(jobs, jobs', c)
      BY <1>0, <1>2
    <2>3. jobs'["lock"].order = jobs["lock"].order /\ orderGrid' = orderGrid /\ stored' \in {stored, orderGrid'}
      BY <1>1, <1>3
    <2> QED
      BY <2>1, <2>2, <2>3, KeptStep
  <1> QED
    BY <1>1, <1>3, <1>4 DEF OnceInv, Safe, Saved, Queue, Awaits

-----------------------------------------------------------------------------
\* The holder of the lock asks for a new order at level l, in the place of o.
LEMMA Requested ==
    ASSUME NEW os \in Orders, NEW js \in Jobs, NEW js2 \in Jobs, NEW g, NEW s,
           NEW l \in Level, NEW o, NEW side,
           Safe(os, js, g, s), ~ Awaits(js, "lock"),
           g # None, o # NoId, g[l].id = o,
           js2 = [js EXCEPT !["lock"] = Asked(Request(l, side, o))]
    PROVE  Safe(os, js2, g, s)
  <1>1. Len(os) \in Nat /\ "lock" \in Caller /\ js["lock"].order = NoId /\ o \in 1..Len(os)
    BY DEF Orders, Caller, Safe, Asks, Fits, NoId
  <1>2. /\ \A d \in Caller \ {"lock"} : js2[d] = js[d]
        /\ Awaits(js2, "lock") /\ js2["lock"].order = NoId
        /\ js2["lock"].request.replaces = o /\ js2["lock"].request.level = l
    BY <1>1 DEF Jobs, Asked, Request, Awaits
  <1>3. \A d \in Caller : js2[d].order = js[d].order
    BY <1>1, <1>2
  <1>4. \A d \in Caller : js[d].order # NoId => js[d].order # o
    BY DEF Safe, Fits
  <1>5. \A p \in 1..Len(os) : Known(os, p) => Replaces(os, p) # o
    BY <1>1 DEF Safe, Fits, NoId
  <1>6. Asks(os, js2)
    <2>1. ASSUME NEW c \in Caller, Awaits(js2, c)
          PROVE  /\ js2[c].request.replaces \in 0..Len(os)
                 /\ (c = "lock") = (js2[c].request.replaces # NoId)
      BY <1>1, <1>2, <2>1 DEF Safe, Asks, Awaits
    <2>2. ASSUME NEW c \in Caller, js2[c].order # NoId
          PROVE  /\ Awaits(js2, c) /\ js2[c].order \in 1..Len(os)
                 /\ os[js2[c].order].request = js2[c].request
                 /\ \A d \in Caller \ {c} : js2[d].order # js2[c].order
                 /\ \A d \in Caller : Awaits(js2, d) => js2[d].request.replaces # js2[c].order
                 /\ \A p \in 1..Len(os) : Known(os, p) => Replaces(os, p) # js2[c].order
      <3>1. js2[c] = js[c]
        BY <1>2, <2>2
      <3>2. /\ Awaits(js, c) /\ js[c].order \in 1..Len(os)
            /\ os[js[c].order].request = js[c].request
            /\ \A d \in Caller \ {c} : js[d].order # js[c].order
            /\ \A d \in Caller : Awaits(js, d) => js[d].request.replaces # js[c].order
            /\ \A p \in 1..Len(os) : Known(os, p) => Replaces(os, p) # js[c].order
        BY <2>2, <3>1 DEF Safe, Asks
      <3>3. \A d \in Caller : Awaits(js2, d) => js2[d].request.replaces # js2[c].order
        BY <1>2, <1>4, <2>2, <3>1, <3>2 DEF Awaits
      <3> QED
        BY <1>3, <3>1, <3>2, <3>3 DEF Awaits
    <2> QED
      BY <2>1, <2>2 DEF Asks
  <1>7. Once(os, js2)
    BY <1>2, <1>5 DEF Safe, Once
  <1>8. Fits(g, os, js2) /\ Fits(s, os, js2)
    BY <1>1, <1>3 DEF Safe, Fits
  <1>9. Aims(g, js2)
    BY <1>2 DEF Safe, Fits, Aims
  <1> QED
    BY <1>6, <1>7, <1>8, <1>9 DEF Safe

\* Refused: the levels of one price lose their order.
LEMMA Cleared ==
    ASSUME NEW os \in Orders, NEW js \in Jobs, NEW g, NEW s, NEW g2,
           Safe(os, js, g, s), ~ Awaits(js, "lock"), g # None,
           \A l \in Level : g2[l].id \in {g[l].id, NoId}
    PROVE  Safe(os, js, g2, s)
  <1>1. Len(os) \in Nat /\ NoId \in 0..Len(os) /\ "lock" \in Caller
    BY DEF Orders, NoId, Caller
  <1>2. Fits(g2, os, js)
    <2>1. Fits(g, os, js) /\ Kept(os, os)
      BY KeptSame DEF Safe
    <2>2. \A l \in Level : g2[l].id \in {g[l].id, NoId, NoId}
      OBVIOUS
    <2>3. /\ \A c \in Caller : js[c].order = js[c].order \/ js[c].order = NoId
          /\ \A l \in Level, p \in 1..Len(os) :
                Known(os, p) /\ p = js["lock"].order /\ p # js["lock"].order /\ Replaces(os, p) # NoId
                  => g2[l].id # Replaces(os, p)
      OBVIOUS
    <2> QED
      BY <1>1, <2>1, <2>2, <2>3, FitsChanged
  <1> QED
    BY <1>2 DEF Safe, Aims

\* onLockAcquired, the lock being free; o may have been marked as told meanwhile.
LEMMA LockOnce ==
    ASSUME OnceInv, NEW o \in Nat, o # NoId, ~ locked, onLockAcquired(o)
    PROVE  /\ Safe(orders, jobs', orderGrid', stored)
           /\ Awaits(jobs', "lock") => locked'
  <1>0. /\ orders \in Orders /\ jobs \in Jobs /\ "lock" \in Caller /\ Len(orders) \in Nat
        /\ Safe(orders, jobs, orderGrid, stored) /\ ~ Awaits(jobs, "lock") /\ TypeInv
    BY OnceTyped DEF OnceInv, Safe
  <1> DEFINE l == Min(LevelsOf(o))
             side == Opposite(orders[o].request.side)
  <1>1. CASE UNCHANGED <<orderGrid, jobs>>
    BY <1>0, <1>1
  <1>2. CASE orderGrid # None /\ LevelsOf(o) # {} /\ Submit("lock", l, side, o)
             /\ locked' = TRUE /\ UNCHANGED orderGrid
    <2>1. l \in Level /\ orderGrid[l].id = o
      BY <1>2, MinIsLeast DEF LevelsOf
    <2>2. jobs' = [jobs EXCEPT !["lock"] = Asked(Request(l, side, o))] /\ jobs' \in Jobs
      BY <1>0, <1>2, LockTypes DEF Submit, Jobs
    <2> HIDE DEF l, side
    <2>3. Safe(orders, jobs', orderGrid, stored)
      BY <1>0, <1>2, <2>1, <2>2, Requested
    <2> QED
      BY <1>2, <2>3
  <1>3. CASE orderGrid # None /\ LevelsOf(o) # {} /\ Refuse(l, side)
    <2>1. jobs' = jobs
      BY <1>3 DEF Refuse
    <2>2. \A k \in Level : orderGrid'[k].id \in {orderGrid[k].id, NoId}
      BY <1>3 DEF Refuse, modifyOrderInGrid
    <2>3. Safe(orders, jobs, orderGrid', stored)
      BY <1>0, <1>3, <2>2, Cleared
    <2> QED
      BY <1>0, <2>1, <2>3
  <1> QED
    BY <1>1, <1>2, <1>3 DEF onLockAcquired

LEMMA AcquireOnce ==
    ASSUME OnceInv, NEW o \in Nat, o # NoId, Acquire(o)
    PROVE  /\ Safe(orders, jobs', orderGrid', stored)
           /\ Awaits(jobs', "lock") => locked'
           /\ Queue'
  <1>1. CASE ~ locked /\ onLockAcquired(o) /\ UNCHANGED waiting
    BY <1>1, LockOnce DEF OnceInv, Queue
  <1>2. CASE waiting' = Append(waiting, o) /\ UNCHANGED <<orderGrid, jobs, locked>>
    <2>1. Queue'
      BY <1>2 DEF OnceInv, Queue, TypeInv, TypeOK
    <2> QED
      BY <1>2, <2>1 DEF OnceInv, Safe
  <1> QED
    BY <1>1, <1>2 DEF Acquire

\* Some orders are told or become lost.
LEMMA KeptOnly ==
    ASSUME NEW os \in Orders, NEW os2 \in Orders, NEW js \in Jobs, NEW g, NEW s,
           Safe(os, js, g, s), Kept(os, os2)
    PROVE  Safe(os2, js, g, s)
  BY KeptSafe

LEMMA ClosedOnce ==
    ASSUME OnceInv, TypeInv',
           \/ \E o \in 1..Len(orders) : HandleClosed(o)
           \/ HandleForeign \/ Dequeue
    PROVE  OnceInv'
  <1>0. /\ orders \in Orders /\ jobs \in Jobs /\ Len(orders) \in Nat
        /\ orders' \in Orders /\ jobs' \in Jobs
    BY OnceTyped, OnceTypedNext DEF OnceInv
  <1>1. ASSUME NEW o \in 1..Len(orders), HandleClosed(o)
        PROVE  OnceInv'
    <2>1. Kept(orders, orders')
      <3>1. orders' = [orders EXCEPT ![o] = [orders[o] EXCEPT !.told = @ + 1]]
        BY <1>1 DEF HandleClosed
      <3>2. orders[o] \in Order
        BY OrderTyped DEF OnceInv
      <3> QED
        BY <1>0, <3>1, <3>2, FillKeeps DEF Order
    <2>2. /\ Safe(orders, jobs', orderGrid', stored)
          /\ Awaits(jobs', "lock") => locked'
          /\ Queue'
      <3>1. o \in Nat /\ o # NoId /\ Acquire(o)
        BY <1>1 DEF HandleClosed, NoId
      <3> QED
        BY <3>1, AcquireOnce
    <2>3. Safe(orders', jobs', orderGrid', stored)
      BY <1>0, <2>1, <2>2, KeptOnly
    <2>4. UNCHANGED <<stored, enabled, initPc>>
      BY <1>1 DEF HandleClosed, redisVars
    <2> QED
      BY <2>2, <2>3, <2>4 DEF OnceInv, Safe, Saved
  <1>2. CASE HandleForeign
    <2>1. MaxOrders + 1 \in Nat /\ MaxOrders + 1 # NoId /\ Acquire(MaxOrders + 1)
      BY <1>2, GridAssumption DEF HandleForeign, NoId
    <2>2. /\ Safe(orders, jobs', orderGrid', stored)
          /\ Awaits(jobs', "lock") => locked'
          /\ Queue'
      BY <2>1, AcquireOnce
    <2>3. UNCHANGED <<orders, stored, enabled, initPc>>
      BY <1>2 DEF HandleForeign, exchangeVars, redisVars
    <2> QED
      BY <2>2, <2>3 DEF OnceInv, Safe, Saved
  <1>3. CASE Dequeue
    <2>1. Head(waiting) \in Nat /\ Head(waiting) # NoId /\ ~ locked /\ onLockAcquired(Head(waiting))
      BY <1>3 DEF Dequeue, OnceInv, Queue, TypeInv, TypeOK
    <2>2. /\ Safe(orders, jobs', orderGrid', stored)
          /\ Awaits(jobs', "lock") => locked'
      BY <2>1, LockOnce
    <2>3. Queue'
      BY <1>3 DEF Dequeue, Queue, OnceInv, TypeInv, TypeOK
    <2>4. UNCHANGED <<orders, stored, enabled, initPc>>
      BY <1>3 DEF Dequeue, exchangeVars, redisVars
    <2> QED
      BY <2>2, <2>3, <2>4 DEF OnceInv, Safe, Saved
  <1> QED
    BY <1>1, <1>2, <1>3

-----------------------------------------------------------------------------
(* How a submission ends *)

\* A level takes the order of a caller that does not replace one, or none.
LEMMA LevelTaken ==
    ASSUME NEW os \in Orders, NEW os2 \in Orders, NEW js \in Jobs, NEW js2 \in Jobs, NEW g, NEW s,
           NEW g2, NEW c \in Caller, NEW id \in {js[c].order, NoId}, NEW l \in Level,
           Safe(os, js, g, s), Awaits(js, c), c # "lock", g # None, Kept(os, os2), Released(js, js2, c),
           \A k \in Level : g2[k].id = IF k = l THEN id ELSE g[k].id
    PROVE  Fits(g2, os2, js2) /\ Aims(g2, js2)
  <1>1. Len(os) \in Nat /\ NoId \in 0..Len(os) /\ "lock" \in Caller
    BY DEF Orders, NoId, Caller
  <1>2. id \in 0..Len(os) /\ Fits(g, os, js)
    BY <1>1 DEF Safe, Asks
  <1>3. /\ \A d \in Caller : js2[d].order = js[d].order \/ js2[d].order = NoId
        /\ js2["lock"] = js["lock"]
    BY <1>1 DEF Released
  <1>4. id # NoId => \A k \in Level : g[k].id # id
    BY <1>2 DEF Fits
  <1>5. id # NoId =>
           /\ \A d \in Caller : js2[d].order # id
           /\ \A k, m \in Level : g2[k].id = id /\ g2[m].id = id => Price(k) = Price(m)
           /\ \A p \in 1..Len(os) : Known(os, p) => Replaces(os, p) # id
    <2> SUFFICES ASSUME id # NoId, id = js[c].order
                 PROVE  /\ \A d \in Caller : js2[d].order # id
                        /\ \A k, m \in Level : g2[k].id = id /\ g2[m].id = id => Price(k) = Price(m)
                        /\ \A p \in 1..Len(os) : Known(os, p) => Replaces(os, p) # id
      OBVIOUS
    <2>1. \A d \in Caller : js2[d].order # id
      BY DEF Safe, Asks, Released
    <2>2. \A k, m \in Level : g2[k].id = id /\ g2[m].id = id => k = m
      BY <1>4
    <2>3. \A p \in 1..Len(os) : Known(os, p) => Replaces(os, p) # id
      BY DEF Safe, Asks
    <2> QED
      BY <2>1, <2>2, <2>3
  <1>6. \A k \in Level : g2[k].id \in {g[k].id, NoId, id}
    OBVIOUS
  <1>7. Fits(g2, os2, js2)
    <2>1. \A k \in Level, p \in 1..Len(os) :
             Known(os2, p) /\ p = js["lock"].order /\ p # js2["lock"].order /\ Replaces(os, p) # NoId
               => g2[k].id # Replaces(os, p)
      BY <1>3
    <2> QED
      BY <1>2, <1>3, <1>5, <1>6, <2>1, FitsChanged
  <1>8. Aims(g2, js2)
    <2> SUFFICES ASSUME Awaits(js, "lock"), NEW k \in Level, g2[k].id = js["lock"].request.replaces
                 PROVE  Price(k) = Price(js["lock"].request.level)
      BY <1>3 DEF Aims, Awaits
    <2>1. g2[k].id # NoId
      BY <1>1 DEF Safe, Asks
    <2>2. js[c].order # NoId => g2[k].id # js[c].order
      BY <1>1 DEF Safe, Asks
    <2>3. g2[k].id = g[k].id
      BY <2>1, <2>2
    <2> QED
      BY <2>3 DEF Safe, Aims
  <1> QED
    BY <1>7, <1>8

\* The levels of one price take the order of the holder of the lock, or none; the order
\* it replaces is at no level any more.
LEMMA LevelsTaken ==
    ASSUME NEW os \in Orders, NEW os2 \in Orders, NEW js \in Jobs, NEW js2 \in Jobs, NEW g, NEW s,
           NEW g2, NEW id \in {js["lock"].order, NoId},
           Safe(os, js, g, s), Awaits(js, "lock"), g # None, Kept(os, os2), Released(js, js2, "lock"),
           \A k \in Level : g2[k].id = IF Price(k) = Price(js["lock"].request.level) THEN id ELSE g[k].id
    PROVE  Fits(g2, os2, js2) /\ Aims(g2, js2)
  <1> DEFINE price == Price(js["lock"].request.level)
             o == js["lock"].order
  <1>1. Len(os) \in Nat /\ NoId \in 0..Len(os) /\ "lock" \in Caller
    BY DEF Orders, NoId, Caller
  <1>2. id \in 0..Len(os) /\ Fits(g, os, js)
    BY <1>1 DEF Safe, Asks
  <1>3. /\ \A d \in Caller : js2[d].order = js[d].order \/ js2[d].order = NoId
        /\ ~ Awaits(js2, "lock")
    BY <1>1 DEF Released
  <1>4. id # NoId =>
           /\ \A d \in Caller : js2[d].order # id
           /\ \A k, m \in Level : g2[k].id = id /\ g2[m].id = id => Price(k) = Price(m)
           /\ \A p \in 1..Len(os) : Known(os, p) => Replaces(os, p) # id
    <2> SUFFICES ASSUME id # NoId, id = o
                 PROVE  /\ \A d \in Caller : js2[d].order # id
                        /\ \A k, m \in Level : g2[k].id = id /\ g2[m].id = id => Price(k) = Price(m)
                        /\ \A p \in 1..Len(os) : Known(os, p) => Replaces(os, p) # id
      OBVIOUS
    <2>1. \A d \in Caller : js2[d].order # id
      BY <1>1 DEF Safe, Asks, Released
    <2>2. \A k \in Level : g2[k].id = id => Price(k) = price
      BY <1>1, <1>2 DEF Fits
    <2>3. \A p \in 1..Len(os) : Known(os, p) => Replaces(os, p) # id
      BY <1>1 DEF Safe, Asks
    <2> QED
      BY <2>1, <2>2, <2>3
  <1>5. \A k \in Level : g2[k].id \in {g[k].id, NoId, id}
    OBVIOUS
  <1>6. ASSUME NEW k \in Level, NEW p \in 1..Len(os), Known(os2, p), p = o, Replaces(os, p) # NoId
        PROVE  g2[k].id # Replaces(os, p)
    <2>1. Known(os, p) /\ o # NoId
      BY <1>1, <1>6 DEF Kept, Known, NoId
    <2>2. Replaces(os, p) = js["lock"].request.replaces
      BY <1>1, <1>6, <2>1 DEF Safe, Asks, Replaces
    <2>3. CASE Price(k) = price
      BY <1>1, <1>4, <1>6, <2>1, <2>3
    <2>4. CASE Price(k) # price
      BY <2>2, <2>4 DEF Safe, Aims
    <2> QED
      BY <2>3, <2>4
  <1>7. Fits(g2, os2, js2)
    <2>1. \A k \in Level, p \in 1..Len(os) :
             Known(os2, p) /\ p = js["lock"].order /\ p # js2["lock"].order /\ Replaces(os, p) # NoId
               => g2[k].id # Replaces(os, p)
      BY <1>6
    <2> QED
      BY <1>2, <1>3, <1>4, <1>5, <2>1, FitsChanged
  <1>8. Aims(g2, js2)
    BY <1>3 DEF Aims
  <1> QED
    BY <1>7, <1>8

\* What follows the answer with order id, which may be missing; then the order is lost.
LEMMA ResumeOnce ==
    ASSUME OnceInv, TypeInv', NEW c \in Caller, Awaits(jobs, c), NEW id \in {jobs[c].order, NoId},
           Resume(c, id), Kept(orders, orders'),
           id = jobs[c].order \/ ~ Known(orders', jobs[c].order)
    PROVE  OnceInv'
  <1> DEFINE r == jobs[c].request
  <1>0. /\ orders \in Orders /\ jobs \in Jobs /\ "lock" \in Caller /\ Len(orders) \in Nat
        /\ orders' \in Orders /\ jobs' \in Jobs
        /\ Safe(orders, jobs, orderGrid, stored)
    BY OnceTyped, OnceTypedNext DEF OnceInv, Safe
  <1>1. orderGrid \in Grid /\ orderGrid # None /\ r \in OrderRequest /\ r.level \in Level /\ r.side \in Side
    BY NoneAssumption DEF OnceInv, TypeInv, Asking, Busy, Awaits, OrderRequest, Grid, Level, Side
  <1>2. ((r.level + 1)..Levels) \in SUBSET Level
    BY <1>1, GridAssumption DEF Level
  <1>3. enabled' = enabled /\ waiting' = waiting
    BY DEF Resume, AnswerInit, AnswerLock, AnswerWalk
  <1>4. ASSUME c # "lock", Released(jobs, jobs', c), orderGrid' = SetLevel(r.level, id),
               stored' \in {stored, orderGrid'}, locked' = locked, Saved'
        PROVE  OnceInv'
    <2>1. \A k \in Level : orderGrid'[k].id = IF k = r.level THEN id ELSE orderGrid[k].id
      BY <1>1, <1>4, SetLevelEntries
    <2>2. Fits(orderGrid', orders', jobs') /\ Aims(orderGrid', jobs')
      BY <1>0, <1>1, <1>4, <2>1, LevelTaken
    <2>3. jobs'["lock"] = jobs["lock"]
      BY <1>0, <1>4 DEF Released
    <2>4. Safe(orders', jobs', orderGrid', stored')
      BY <1>4, <2>2, <2>3, KeptStep
    <2> QED
      BY <1>3, <1>4, <2>3, <2>4 DEF OnceInv, Safe, Queue, Awaits
  <1>5. CASE c = "init" /\ AnswerInit(id)
    <2>1. /\ orderGrid' = SetLevel(r.level, id) /\ locked' = locked
          /\ InitLoop((r.level + 1)..Levels, orderGrid')
      BY <1>5 DEF AnswerInit
    <2>2. Continues("init") /\ stored' \in {stored, orderGrid'}
      BY <1>2, <2>1, InitContinues
    <2>3. Released(jobs, jobs', "init")
      BY <1>0, <1>5, <2>2, ContinuesReleases, NotLock
    <2>4. orderGrid' \in Grid
      <3>1. id \in Nat
        BY <1>0 DEF Jobs, Job, NoId
      <3> QED
        BY <1>1, <2>1, <3>1, SetLevelType
    <2>5. Saved'
      <3>1. stored' = orderGrid' \/ (stored' = stored /\ initPc' # "saving")
        BY <2>1 DEF InitLoop, pushGridToRedis
      <3> QED
        BY <1>3, <2>4, <3>1 DEF OnceInv, Saved
    <2> QED
      BY <1>4, <1>5, <2>1, <2>2, <2>3, <2>5, NotLock
  <1>6. CASE c \in Walk /\ AnswerWalk(c, id)
    <2>1. /\ orderGrid' = SetLevel(r.level, id) /\ UNCHANGED <<initPc, locked, stored>>
          /\ WalkOn(c, market, (r.level + 1)..Levels, orderGrid')
      BY <1>6 DEF AnswerWalk
    <2>2. orderGrid' \in Grid
      <3>1. id \in Nat
        BY <1>0 DEF Jobs, Job, NoId
      <3> QED
        BY <1>1, <2>1, <3>1, SetLevelType
    <2>3. Continues(c)
      BY <1>2, <2>1, <2>2, WalkContinues
    <2>4. Released(jobs, jobs', c) /\ c # "lock"
      BY <1>0, <1>6, <2>3, ContinuesReleases, NotLock
    <2>5. Saved'
      BY <1>3, <2>1 DEF OnceInv, Saved
    <2> QED
      BY <1>4, <2>1, <2>4, <2>5
  <1>7. CASE c = "lock" /\ AnswerLock(id)
    <2>1. /\ modifyOrderInGrid(Price(r.level), r.side, TRUE, id)
          /\ stored' = orderGrid' /\ Finish("lock") /\ initPc' = initPc
      BY <1>7 DEF AnswerLock, pushGridToRedis
    <2>2. Released(jobs, jobs', "lock")
      BY <1>0, <2>1, ContinuesReleases
    <2>3. \A k \in Level : orderGrid'[k].id = IF Price(k) = Price(r.level) THEN id ELSE orderGrid[k].id
      BY <2>1 DEF modifyOrderInGrid
    <2>4. Fits(orderGrid', orders', jobs') /\ Aims(orderGrid', jobs')
      BY <1>0, <1>1, <1>7, <2>2, <2>3, LevelsTaken
    <2>5. Asks(orders', jobs') /\ Once(orders', jobs')
      BY <1>0, <2>2, KeptReleased DEF Safe
    <2>6. ~ Awaits(jobs', "lock")
      BY <2>2 DEF Released
    <2>7. Saved'
      <3>1. id \in Nat
        BY <1>0 DEF Jobs, Job, NoId
      <3>2. orderGrid' \in Grid
        BY <1>1, <2>1, <3>1, ModifyType
      <3> QED
        BY <2>1, <3>2 DEF Saved
    <2> QED
      BY <1>3, <2>1, <2>4, <2>5, <2>6, <2>7 DEF OnceInv, Queue
  <1> QED
    BY <1>5, <1>6, <1>7 DEF Resume

LEMMA LoseKeeps ==
    ASSUME OnceInv, NEW c \in Caller, LoseAnswer(c)
    PROVE  Kept(orders, orders') /\ ~ Known(orders', jobs[c].order)
  <1> DEFINE o == jobs[c].order
  <1>1. orders \in Orders /\ Len(orders) \in Nat
    BY OnceTyped DEF OnceInv
  <1>2. CASE o = NoId
    <2>1. orders' = orders
      BY <1>2 DEF LoseAnswer
    <2> QED
      BY <1>1, <1>2, <2>1, KeptSame DEF Known, NoId
  <1>3. CASE o # NoId
    <2>1. o \in 1..Len(orders)
      BY <1>3 DEF OnceInv, Asks
    <2>2. orders' = [orders EXCEPT ![o] = [orders[o] EXCEPT !.lost = TRUE]]
      BY <1>3 DEF LoseAnswer
    <2>3. orders[o] \in Order
      BY <2>1, OrderTyped DEF OnceInv
    <2>4. Kept(orders, orders')
      BY <1>1, <2>1, <2>2, <2>3, FillKeeps DEF Order
    <2>5. orders'[o].lost
      BY <1>1, <2>1, <2>2, <2>3 DEF Orders, Order
    <2> QED
      BY <2>4, <2>5 DEF Known
  <1> QED
    BY <1>2, <1>3

LEMMA AnsweredOnce ==
    ASSUME OnceInv, TypeInv', NEW c \in Caller, Answered(c)
    PROVE  OnceInv'
  <1>0. /\ orders \in Orders /\ jobs \in Jobs /\ "lock" \in Caller
    BY OnceTyped DEF OnceInv
  <1>1. CASE Answer(c)
    <2>1. Awaits(jobs, c) /\ Resume(c, jobs[c].order) /\ Kept(orders, orders')
      BY <1>0, <1>1, KeptSame DEF Answer, Awaits
    <2> QED
      BY <2>1, ResumeOnce
  <1>2. CASE AnswerEmpty(c)
    <2>1. Awaits(jobs, c) /\ Resume(c, NoId) /\ LoseAnswer(c)
      BY <1>2 DEF AnswerEmpty, Awaits
    <2> QED
      BY <2>1, LoseKeeps, ResumeOnce
  <1>3. CASE Timeout(c)
    <2>1. /\ UNCHANGED <<orderGrid, locked, waiting, stored, enabled>>
          /\ LoseAnswer(c) /\ Finish(c) /\ initPc' \in {initPc, "failed"}
      BY <1>3 DEF Timeout, redisVars
    <2>2. Kept(orders, orders') /\ ~ Known(orders', jobs[c].order)
      BY <2>1, LoseKeeps
    <2>3. Released(jobs, jobs', c)
      BY <1>0, <2>1, ContinuesReleases
    <2>4. Known(orders', jobs["lock"].order) => jobs'["lock"].order = jobs["lock"].order
      BY <1>0, <2>2, <2>3 DEF Released
    <2>5. Safe(orders', jobs', orderGrid', stored')
      BY <2>1, <2>2, <2>3, <2>4, KeptStep
    <2>6. Awaits(jobs', "lock") => locked'
      BY <1>0, <2>1, <2>3 DEF Released, Awaits, OnceInv
    <2> QED
      BY <2>1, <2>5, <2>6 DEF OnceInv, Safe, Saved, Queue
  <1> QED
    BY <1>1, <1>2, <1>3 DEF Answered

\* A restart goes on with the stored grid.  An order that was to replace another and
\* whose answer had not come is not in it.
LEMMA RestartOnce ==
    ASSUME OnceInv, TypeInv', Restart
    PROVE  OnceInv'
  <1>0. /\ orders \in Orders /\ jobs \in Jobs /\ "lock" \in Caller /\ Len(orders) \in Nat
        /\ orders' \in Orders /\ jobs' \in Jobs
    BY OnceTyped, OnceTypedNext DEF OnceInv
  <1>1. /\ orderGrid' = None /\ jobs' = [c \in Caller |-> Idle] /\ waiting' = <<>>
        /\ initPc' = "connecting" /\ stored' = stored /\ enabled' = enabled
        /\ orders' = [o \in 1..Len(orders) |-> [orders[o] EXCEPT !.lost = @ \/ ~ Remembered(o)]]
    BY DEF Restart, redisVars
  <1>2. \A p \in 1..Len(orders) : orders[p] \in Order
    BY OrderTyped DEF OnceInv
  <1>3. Len(orders') = Len(orders)
    BY <1>0, <1>1
  <1>4. \A p \in 1..Len(orders) :
           /\ orders'[p].request = orders[p].request
           /\ orders'[p].lost = (orders[p].lost \/ ~ Remembered(p))
    BY <1>1, <1>2 DEF Order
  <1>5. Kept(orders, orders')
    BY <1>3, <1>4 DEF Kept
  <1>6. \A c \in Caller : jobs'[c].order = NoId /\ ~ Awaits(jobs', c)
    BY <1>1 DEF Idle, Awaits
  <1>7. Asks(orders', jobs')
    BY <1>6 DEF Asks
  <1>8. \A p \in 1..Len(orders) : Replaces(orders', p) = Replaces(orders, p)
                                 /\ (Known(orders', p) => Known(orders, p))
    BY <1>3, <1>4 DEF Replaces, Known
  <1>9. Once(orders', jobs')
    BY <1>0, <1>3, <1>6, <1>8 DEF OnceInv, Once
  <1>10. ~ Known(orders', jobs["lock"].order)
    <2> DEFINE o == jobs["lock"].order
    <2> SUFFICES ASSUME o \in 1..Len(orders), Remembered(o) PROVE FALSE
      BY <1>3, <1>4 DEF Known
    <2>1. stored \in Grid /\ stored # None
      BY NoneAssumption DEF Remembered, OnceInv, Saved, Grid, Level, Side
    <2>2. orders[o].request.level \in Level
      BY <1>2 DEF Order, OrderRequest
    <2>3. o # NoId
      BY DEF NoId
    <2> QED
      BY <1>0, <2>1, <2>2, <2>3 DEF Remembered, OnceInv, Fits
  <1>11. Fits(stored, orders', jobs')
    <2> DEFINE os2 == orders'
               js2 == jobs'
    <2>1. /\ os2 \in Orders /\ js2 \in Jobs /\ Kept(orders, os2) /\ NoId \in 0..Len(orders)
          /\ \A c \in Caller : js2[c].order = jobs[c].order \/ js2[c].order = NoId
          /\ Fits(stored, orders, jobs)
          /\ \A l \in Level : stored[l].id \in {stored[l].id, NoId, NoId}
          /\ \A l \in Level, p \in 1..Len(orders) :
                Known(os2, p) /\ p = jobs["lock"].order /\ p # js2["lock"].order /\ Replaces(orders, p) # NoId
                  => stored[l].id # Replaces(orders, p)
      BY <1>0, <1>5, <1>6, <1>10 DEF OnceInv, NoId
    <2> HIDE DEF os2, js2
    <2>2. stored # None => Fits(stored, os2, js2)
      BY <1>0, <2>1, FitsChanged
    <2> QED
      BY <2>2 DEF Fits, os2, js2
  <1>12. Fits(orderGrid', orders', jobs') /\ Aims(orderGrid', jobs')
    BY <1>0, <1>1, <1>6 DEF Fits, Aims
  <1>13. Saved' /\ Queue'
    BY <1>1 DEF OnceInv, Saved, Queue
  <1> QED
    BY <1>0, <1>1, <1>6, <1>7, <1>9, <1>11, <1>12, <1>13 DEF OnceInv

LEMMA NextOnce == OnceInv /\ [Next]_vars => OnceInv'
  <1> SUFFICES ASSUME OnceInv, [Next]_vars PROVE OnceInv'
    OBVIOUS
  <1>1. TypeInv'
    BY NextTypeInv DEF OnceInv
  <1>2. CASE UNCHANGED vars
    BY <1>1, <1>2, QuietOnce
  <1>3. CASE Next
    BY <1>1, <1>3, AcceptOnce, AnsweredOnce, QuietOnce, ClosedOnce, InitializeOnce, BookOnce, RestartOnce
    DEF Next
  <1> QED
    BY <1>2, <1>3

\* A closed order is replaced once: of the orders the plugin hears of, no two stand for
\* the same closed one, whatever walks, repeated reports, missing answers and restarts
\* come between.  It is the lock of onLockAcquired that makes it so, and that the entry
\* is overwritten before the lock is given back.
THEOREM ReplacedOnce == Spec => []ReplacedAtMostOnce
  <1> QED
    BY OnceIsOnce, InitOnce, NextOnce, PTL DEF Spec

-----------------------------------------------------------------------------
(* EnabledGridIsComplete, for a module whose orders may match at once:     *)
(* then no level is ever refused, and a book submits nothing.              *)

\* Every level of the grid was submitted.
Complete(g) == g # None /\ \A l \in Level : g[l].inBook

\* Initialize has submitted the levels below the one it asks for; when it stores the
\* grid all of them.  Later only the holder of the lock changes the grid, and stores it.
CompleteInv ==
    /\ \A w \in Walk : ~ Awaits(jobs, w)
    /\ enabled => initPc \in {"connecting", "loading", "ready"} /\ Complete(stored)
    /\ initPc \in {"loading", "ready"} => enabled
    /\ Awaits(jobs, "init") =>
          /\ initPc = "submitting"
          /\ \A l \in Level : l < jobs["init"].request.level => orderGrid[l].inBook
    /\ initPc \in {"saving", "ready"} => Complete(orderGrid) /\ stored = orderGrid

LEMMA CompleteIsComplete == CompleteInv => EnabledGridIsComplete
  BY DEF CompleteInv, Complete, EnabledGridIsComplete

LEMMA InitComplete == Init => CompleteInv
  <1> SUFFICES ASSUME Init PROVE CompleteInv
    OBVIOUS
  <1>1. \A c \in Caller : ~ Awaits(jobs, c)
    BY DEF Init, Idle, Awaits
  <1>2. "init" \in Caller /\ Walk \subseteq Caller
    BY DEF Caller
  <1> QED
    BY <1>1, <1>2 DEF Init, CompleteInv

-----------------------------------------------------------------------------
LEMMA NothingRefused ==
    ASSUME CrossEnabled, NEW m, NEW list, NEW side
    PROVE  Unrefused(m, list, side) = list
  BY DEF Unrefused, Crossing

LEMMA InitLoopCross ==
    ASSUME CrossEnabled, NEW list \in SUBSET Level, NEW grid, InitLoop(list, grid)
    PROVE  \/ /\ list = {} /\ Finish("init") /\ stored' = grid
              /\ initPc' = "saving"
           \/ /\ list # {} /\ Submit("init", Min(list), StartingSide(Min(list)), NoId) /\ stored' = stored
              /\ initPc' = "submitting"
  <1>1. Unrefused(market, list, [l \in Level |-> StartingSide(l)]) = list
    BY NothingRefused
  <1>2. Crossing(market, Min(list), StartingSide(Min(list))) = "no"
    BY DEF Crossing
  <1> QED
    BY <1>1, <1>2 DEF InitLoop, pushGridToRedis

\* The holder of the lock goes to the exchange, if there is a level for the order.
LEMMA LockCross ==
    ASSUME CrossEnabled, NEW o, onLockAcquired(o)
    PROVE  /\ orderGrid' = orderGrid
           /\ \/ jobs' = jobs
              \/ /\ orderGrid # None /\ LevelsOf(o) # {} /\ locked'
                 /\ Submit("lock", Min(LevelsOf(o)), Opposite(orders[o].request.side), o)
  BY DEF onLockAcquired, Crossing

LEMMA AcquireCross ==
    ASSUME CrossEnabled, NEW o, Acquire(o)
    PROVE  /\ orderGrid' = orderGrid
           /\ \/ jobs' = jobs
              \/ /\ ~ locked /\ orderGrid # None /\ LevelsOf(o) # {}
                 /\ Submit("lock", Min(LevelsOf(o)), Opposite(orders[o].request.side), o)
  BY LockCross DEF Acquire

-----------------------------------------------------------------------------
\* Steps without a part in it.
LEMMA QuietComplete ==
    ASSUME OnceInv, CompleteInv, jobs \in Jobs,
           UNCHANGED <<orderGrid, stored, enabled, initPc>>,
           \A c \in Caller \ {"lock"} :
              jobs'[c] = jobs[c] \/ (jobs'[c].pc = jobs[c].pc /\ jobs'[c].request = jobs[c].request)
    PROVE  CompleteInv'
  <1>1. "init" \in Caller \ {"lock"} /\ Walk \subseteq Caller \ {"lock"}
    BY NotLock DEF Caller
  <1>2. \A c \in Caller \ {"lock"} : Awaits(jobs', c) = Awaits(jobs, c) /\ jobs'[c].request = jobs[c].request
    BY DEF Awaits
  <1> QED
    BY <1>1, <1>2 DEF CompleteInv, Complete

LEMMA ClosedComplete ==
    ASSUME CrossEnabled, OnceInv, CompleteInv,
           \/ \E o \in 1..Len(orders) : HandleClosed(o)
           \/ HandleForeign \/ Dequeue \/ TimeoutWaiting
    PROVE  CompleteInv'
  <1>0. jobs \in Jobs /\ "lock" \in Caller
    BY OnceTyped DEF OnceInv
  <1>1. UNCHANGED <<stored, enabled, initPc>>
    BY DEF HandleClosed, HandleForeign, Dequeue, TimeoutWaiting, redisVars
  <1>2. CASE TimeoutWaiting
    BY <1>0, <1>1, <1>2, QuietComplete DEF TimeoutWaiting
  <1>3. ASSUME NEW o, Acquire(o) \/ onLockAcquired(o)
        PROVE  CompleteInv'
    <2>1. /\ orderGrid' = orderGrid
          /\ \/ jobs' = jobs
             \/ Submit("lock", Min(LevelsOf(o)), Opposite(orders[o].request.side), o)
      BY <1>3, LockCross, AcquireCross
    <2>2. \A c \in Caller \ {"lock"} : jobs'[c] = jobs[c]
      BY <1>0, <2>1 DEF Submit, Jobs
    <2> QED
      BY <1>0, <1>1, <2>1, <2>2, QuietComplete
  <1> QED
    BY <1>2, <1>3 DEF HandleClosed, HandleForeign, Dequeue

LEMMA ExchangeComplete ==
    ASSUME CrossEnabled, OnceInv, CompleteInv,
           \/ \E c \in Caller : Accept(c)
           \/ AcceptLate
           \/ \E o \in 1..Len(orders) : Fill(o)
           \/ \E q \in Quote : CacheBook(q) \/ \E w \in Walk : HandleOrderBook(w, q)
           \/ UNCHANGED vars
    PROVE  CompleteInv'
  <1>0. jobs \in Jobs
    BY OnceTyped DEF OnceInv
  <1>1. ASSUME NEW c \in Caller, Accept(c) PROVE CompleteInv'
    <2>1. \A d \in Caller : jobs'[d].pc = jobs[d].pc /\ jobs'[d].request = jobs[d].request
      BY <1>0, <1>1 DEF Accept, Jobs, Job
    <2> QED
      BY <1>0, <1>1, <2>1, QuietComplete DEF Accept, redisVars
  <1>2. ASSUME NEW q \in Quote, CacheBook(q) \/ \E w \in Walk : HandleOrderBook(w, q) PROVE CompleteInv'
    BY <1>0, <1>2, QuietComplete DEF CacheBook, HandleOrderBook, redisVars
  <1>3. CASE AcceptLate
    BY <1>0, <1>3, QuietComplete DEF AcceptLate, pluginVars, redisVars
  <1>4. ASSUME NEW o \in 1..Len(orders), Fill(o) PROVE CompleteInv'
    BY <1>0, <1>4, QuietComplete DEF Fill, pluginVars, redisVars
  <1>5. CASE UNCHANGED vars
    BY <1>0, <1>5, QuietComplete DEF vars, pluginVars, redisVars
  <1> QED
    BY <1>1, <1>2, <1>3, <1>4, <1>5

\* Initialize submits the first of list behind the levels that were submitted, or stores
\* the grid.
LEMMA InitLoopComplete ==
    ASSUME CrossEnabled, jobs \in Jobs, CompleteInv, NEW n \in Nat,
           NEW list, list = {l \in Level : n < l},
           initPc \in {"pushing", "submitting"}, enabled' = enabled,
           orderGrid' \in Grid, InitLoop(list, orderGrid'),
           \A l \in Level : l <= n => orderGrid'[l].inBook
    PROVE  CompleteInv'
  <1>0. /\ "init" \in Caller /\ Walk \subseteq Caller /\ "init" \notin Walk /\ list \subseteq Level
        /\ Level \subseteq Nat
    BY GridAssumption DEF Caller, Level
  <1>1. ~ enabled' /\ orderGrid' # None
    BY NoneAssumption DEF CompleteInv, Grid, Level, Side
  <1>2. CASE list = {} /\ Finish("init") /\ stored' = orderGrid' /\ initPc' = "saving"
    <2>1. Complete(orderGrid')
      BY <1>0, <1>1, <1>2 DEF Complete
    <2>2. \A c \in Caller : Awaits(jobs', c) => Awaits(jobs, c) /\ c # "init"
      BY <1>0, <1>2 DEF Finish, Idle, Awaits, Jobs
    <2> QED
      BY <1>0, <1>1, <1>2, <2>1, <2>2 DEF CompleteInv
  <1>3. CASE /\ list # {} /\ Submit("init", Min(list), StartingSide(Min(list)), NoId) /\ stored' = stored
             /\ initPc' = "submitting"
    <2>1. Min(list) \in list /\ \A k \in list : Min(list) <= k
      BY <1>0, <1>3, MinIsLeast
    <2>2. \A l \in Level : l < Min(list) => orderGrid'[l].inBook
      <3> DEFINE m == Min(list)
      <3>1. m \in Nat /\ \A k \in list : m <= k
        BY <1>0, <2>1
      <3> HIDE DEF m
      <3>2. ASSUME NEW l \in Level, l < m PROVE l <= n
        <4>1. l \notin list
          BY <1>0, <3>1, <3>2
        <4> QED
          BY <1>0, <4>1
      <3> QED
        BY <3>2 DEF m
    <2>3. \A w \in Walk : ~ Awaits(jobs', w)
      BY <1>0, <1>3 DEF Submit, Awaits, CompleteInv, Jobs
    <2>4. jobs'["init"].request.level = Min(list)
      BY <1>0, <1>3 DEF Submit, Asked, Request, Jobs
    <2> QED
      BY <1>1, <1>3, <2>2, <2>3, <2>4 DEF CompleteInv
  <1> QED
    BY <1>0, <1>2, <1>3, InitLoopCross

LEMMA InitializeComplete ==
    ASSUME CrossEnabled, OnceInv, CompleteInv, Initialize
    PROVE  CompleteInv'
  <1>0. jobs \in Jobs /\ "init" \in Caller
    BY OnceTyped DEF OnceInv, Caller
  <1>1. CASE Start
    <2>1. ~ Awaits(jobs, "init") /\ jobs' = jobs /\ enabled' = enabled
      BY <1>0, <1>1 DEF Start, OnceInv, TypeInv, Boot, Busy, Awaits
    <2>2. \/ enabled /\ initPc' = "loading" /\ stored' = stored
          \/ ~ enabled /\ initPc' = "pushing"
      BY <1>1 DEF Start
    <2> QED
      BY <2>1, <2>2 DEF CompleteInv
  <1>2. CASE Load
    BY <1>0, <1>2 DEF Load, CompleteInv, OnceInv, TypeInv, Boot, Busy, Awaits, redisVars, Complete
  <1>3. CASE BeginInitLoop
    <2>1. orderGrid \in Grid /\ orderGrid' = orderGrid /\ enabled' = enabled /\ initPc = "pushing"
          /\ InitLoop(Level, orderGrid)
      BY <1>3 DEF BeginInitLoop, OnceInv, TypeInv, Boot
    <2>2. Level = {l \in Level : 0 < l} /\ \A l \in Level : ~ (l <= 0)
      BY GridAssumption DEF Level
    <2> QED
      BY <1>0, <2>1, <2>2, InitLoopComplete
  <1>4. CASE Enable
    BY <1>4 DEF Enable, CompleteInv
  <1> QED
    BY <1>1, <1>2, <1>3, <1>4 DEF Initialize

LEMMA AnsweredComplete ==
    ASSUME CrossEnabled, OnceInv, CompleteInv, NEW c \in Caller, Answered(c)
    PROVE  CompleteInv'
  <1> DEFINE r == jobs[c].request
  <1>0. jobs \in Jobs /\ "init" \in Caller /\ "lock" \in Caller /\ "init" # "lock" /\ "init" \notin Walk
        /\ Walk \subseteq Caller
    BY OnceTyped, GridAssumption DEF OnceInv, Caller
  <1>1. /\ Awaits(jobs, c) /\ c \notin Walk /\ c \in {"init", "lock"} /\ enabled' = enabled
        /\ orderGrid \in Grid /\ orderGrid # None /\ r \in OrderRequest /\ r.level \in Level /\ r.side \in Side
    BY NoneAssumption
    DEF Answered, Answer, AnswerEmpty, Timeout, Resume, AnswerInit, AnswerLock, redisVars, Awaits, CompleteInv,
        OnceInv, TypeInv, Asking, Busy, OrderRequest, Grid, Level, Side, Caller
  <1>2. CASE Timeout(c)
    <2>1. UNCHANGED <<orderGrid, stored, enabled>> /\ Finish(c)
          /\ (c = "init" => initPc' = "failed") /\ (c # "init" => initPc' = initPc)
      BY <1>2 DEF Timeout, redisVars
    <2>2. /\ \A d \in Caller \ {c} : jobs'[d] = jobs[d]
          /\ ~ Awaits(jobs', c)
      BY <1>0, <2>1 DEF Finish, Idle, Awaits, Jobs
    <2>3. CASE c = "lock"
      BY <1>0, <2>1, <2>2, <2>3, QuietComplete
    <2>4. CASE c = "init"
      BY <1>0, <1>1, <2>1, <2>2, <2>4 DEF CompleteInv, Awaits
    <2> QED
      BY <1>1, <2>3, <2>4
  <1>3. ASSUME NEW id \in Nat, Resume(c, id)
        PROVE  CompleteInv'
    <2>1. CASE c = "init"
      <3>0. AnswerInit(id)
        BY <1>0, <1>3, <2>1 DEF Resume
      <3>1. /\ orderGrid' = SetLevel(r.level, id) /\ InitLoop((r.level + 1)..Levels, orderGrid')
            /\ initPc = "submitting"
        BY <1>1, <2>1, <3>0 DEF AnswerInit, CompleteInv
      <3>2. (r.level + 1)..Levels = {l \in Level : r.level < l} /\ r.level \in Nat /\ Level \subseteq Nat
        BY <1>1, GridAssumption DEF Level
      <3>3. orderGrid' \in Grid
        BY <1>1, <3>1, SetLevelType
      <3>4. \A l \in Level : l <= r.level => orderGrid'[l].inBook
        <4>1. \A l \in Level : l < r.level => orderGrid[l].inBook
          BY <1>1, <2>1 DEF CompleteInv
        <4> QED
          BY <1>1, <3>1, <3>2, <4>1, SetLevelEntries
      <3> QED
        BY <1>0, <1>1, <3>1, <3>2, <3>3, <3>4, InitLoopComplete
    <2>2. CASE c = "lock"
      <3>1. /\ modifyOrderInGrid(Price(r.level), r.side, TRUE, id)
            /\ stored' = orderGrid' /\ Finish("lock") /\ initPc' = initPc
        BY <1>0, <1>3, <2>2, NotLock DEF Resume, AnswerLock, pushGridToRedis
      <3>2. orderGrid' \in Grid /\ orderGrid' # None
        BY <1>1, <3>1, ModifyType, NoneAssumption DEF Grid, Level, Side
      <3>3. \A l \in Level : orderGrid[l].inBook => orderGrid'[l].inBook
        BY <3>1 DEF modifyOrderInGrid
      <3>4. \A d \in Caller \ {"lock"} : jobs'[d] = jobs[d]
        BY <1>0, <3>1 DEF Finish, Jobs
      <3>5. initPc \notin {"connecting", "loading"}
        BY <1>1 DEF OnceInv, TypeInv, Boot, Busy, Awaits
      <3>6. \A w \in Walk : ~ Awaits(jobs', w)
        BY <1>0, <3>4, NotLock DEF Awaits, CompleteInv
      <3>7. initPc = "ready" \/ initPc = "saving" => Complete(orderGrid')
        BY <3>2, <3>3 DEF CompleteInv, Complete
      <3>8. Awaits(jobs', "init") => /\ initPc' = "submitting"
                                     /\ \A l \in Level : l < jobs'["init"].request.level => orderGrid'[l].inBook
        BY <1>0, <3>1, <3>3, <3>4 DEF CompleteInv, Awaits
      <3> QED
        BY <1>1, <3>1, <3>5, <3>6, <3>7, <3>8 DEF CompleteInv
    <2> QED
      BY <1>1, <2>1, <2>2
  <1>4. jobs[c].order \in Nat /\ NoId \in Nat
    BY <1>0 DEF Jobs, Job, NoId
  <1> QED
    BY <1>2, <1>3, <1>4 DEF Answered, Answer, AnswerEmpty

LEMMA NextComplete ==
    ASSUME CrossEnabled, OnceInv, CompleteInv, [Next]_vars
    PROVE  CompleteInv'
  <1>1. CASE Restart
    <2>1. \A c \in Caller : ~ Awaits(jobs', c)
      BY <1>1 DEF Restart, Idle, Awaits
    <2>2. "init" \in Caller /\ Walk \subseteq Caller
      BY DEF Caller
    <2> QED
      BY <1>1, <2>1, <2>2 DEF Restart, CompleteInv, redisVars
  <1> QED
    BY <1>1, AnsweredComplete, ExchangeComplete, ClosedComplete, InitializeComplete DEF Next

\* A module that counts as initialised has a stored grid with every level submitted, if its
\* orders may match at once: whatever answers are missing and wherever Initialize was
\* terminated, a restart loads no grid that is half submitted.
THEOREM EnabledComplete == CrossEnabled => (Spec => []EnabledGridIsComplete)
  <1> SUFFICES ASSUME CrossEnabled PROVE Spec => []EnabledGridIsComplete
    OBVIOUS
  <1>1. OnceInv /\ CompleteInv /\ [Next]_vars => (OnceInv /\ CompleteInv)'
    BY NextOnce, NextComplete
  <1> QED
    BY <1>1, CompleteIsComplete, InitOnce, InitComplete, PTL DEF Spec

-----------------------------------------------------------------------------
(* LiveIsTracked, LevelsAlternate and SubmissionsDoNotOverlap, for a       *)
(* module whose orders may match at once and whose levels have prices of   *)
(* their own.  The parts of the invariant are again operators on the       *)
(* orders, the jobs and a grid.                                            *)

\* p is an order of level l that the plugin knows of.
At(os, p, l) == Known(os, p) /\ os[p].request.level = l

UnderWay(js, p) == \E c \in Caller : js[c].order = p

\* The orders a level has had go to and fro.
Alternates(os) ==
    \A i, j \in 1..Len(os) :
        /\ i < j /\ Known(os, i) /\ At(os, j, os[i].request.level)
        /\ \A k \in 1..Len(os) : i < k /\ k < j => ~ At(os, k, os[i].request.level)
        => ~ os[i].open /\ os[j].request.side # os[i].request.side

\* Initialize and the holder of the lock alone submit orders; one whose answer is under way
\* is the youngest of its level.
Steady(os, js) ==
    /\ Alternates(os)
    /\ \A c \in Caller : Awaits(js, c) => c \in {"init", "lock"} /\ js[c].request \in OrderRequest
    /\ \A c \in Caller : js[c].order # NoId =>
          /\ Known(os, js[c].order)
          /\ \A p \in 1..Len(os) : At(os, p, js[c].request.level) => p <= js[c].order

\* The orders of a grid are known, at their levels, and answered.
Holds(g, os, js) == \A l \in Level : g[l].id # NoId => At(os, g[l].id, l) /\ ~ UnderWay(js, g[l].id)

\* The holder of the lock replaces the closed order of its level by one on the other side.
LockFits(g, os, js) == Awaits(js, "lock") =>
    LET r == js["lock"].request
    IN  /\ r.replaces # NoId /\ g[r.level].id = r.replaces
        /\ ~ os[r.replaces].open /\ r.side = Opposite(os[r.replaces].request.side)

\* From the level on that Initialize asks for, there are no orders but the one asked for.
InitFits(g, os, js) == Awaits(js, "init") =>
    \A l \in Level : js["init"].request.level <= l =>
        g[l].id = NoId /\ \A p \in 1..Len(os) : At(os, p, l) => js["init"].order = p

\* An order is answered for, or the one of its level, or closed and older than that.
Tracks(g, os, js) == \A p \in 1..Len(os) : Known(os, p) =>
    LET id == g[os[p].request.level].id
    IN  UnderWay(js, p) \/ id = p \/ (~ os[p].open /\ (id = NoId \/ p < id))

Ladder(g, os, js) == Holds(g, os, js) /\ LockFits(g, os, js) /\ InitFits(g, os, js) /\ Tracks(g, os, js)

\* What waits for the lock is closed, or an order of somebody else.
Closed(os, o) == o = MaxOrders + 1 \/ (o \in 1..Len(os) /\ ~ os[o].open)

ClosedWait == \A i \in 1..Len(waiting) : Closed(orders, waiting[i])

\* Before there is a grid, the known orders are those a worker will find in the stored one.
BeforeGrid ==
    /\ enabled => Holds(stored, orders, jobs)
    /\ initPc = "pushing" => /\ \A l \in Level : orderGrid[l].id = NoId
                             /\ \A p \in 1..Len(orders) : ~ Known(orders, p)
    /\ initPc \in {"connecting", "loading"} =>
          \A p \in 1..Len(orders) : Known(orders, p) => Remembered(p)

LadderInv ==
    /\ OnceInv /\ CompleteInv
    /\ Steady(orders, jobs)
    /\ orderGrid # None => Ladder(orderGrid, orders, jobs)
    /\ Len(orders) <= MaxOrders /\ ClosedWait /\ BeforeGrid

-----------------------------------------------------------------------------
\* No two submissions are for one level: that of the lock has an order, and
\* those from the one of Initialize on have none.
LEMMA Apart ==
    ASSUME NEW os, NEW js, NEW g, Steady(os, js), LockFits(g, os, js), InitFits(g, os, js)
    PROVE  /\ Awaits(js, "lock") /\ Awaits(js, "init") =>
                 ~ (js["init"].request.level <= js["lock"].request.level)
           /\ \A c, d \in Caller : Awaits(js, c) /\ Awaits(js, d) /\ c # d =>
                 js[c].request.level # js[d].request.level
  <1>1. \A c \in Caller : Awaits(js, c) => c \in {"init", "lock"} /\ js[c].request.level \in Level
    BY DEF Steady, OrderRequest
  <1>2. "lock" \in Caller /\ "init" \in Caller
    BY DEF Caller
  <1>3. Awaits(js, "lock") /\ Awaits(js, "init") =>
                 ~ (js["init"].request.level <= js["lock"].request.level)
    BY <1>1, <1>2 DEF LockFits, InitFits
  <1>4. \A l, k \in Level : l = k => l <= k
    BY GridAssumption DEF Level
  <1> QED
    BY <1>1, <1>2, <1>3, <1>4

LEMMA LadderOverlap == LadderInv => SubmissionsDoNotOverlap
  <1> SUFFICES ASSUME LadderInv, NEW c \in Caller, NEW d \in Caller, Awaits(jobs, c), Awaits(jobs, d), c # d
               PROVE  jobs[c].request.level # jobs[d].request.level
    BY DEF SubmissionsDoNotOverlap, Awaits
  <1>1. orderGrid # None
    BY NoneAssumption DEF LadderInv, OnceInv, TypeInv, Asking, Busy, Awaits, Grid, Level, Side
  <1> QED
    BY <1>1, Apart DEF LadderInv, Ladder

LEMMA LadderTracks == LadderInv => LiveIsTracked
  BY DEF LadderInv, Ladder, Tracks, Known, UnderWay, LiveIsTracked, Placed

LEMMA LadderAlternates == LadderInv => LevelsAlternate
  <1> SUFFICES ASSUME LadderInv, NEW i \in Placed, NEW j \in Placed, Consecutive(i, j)
               PROVE  ~ orders[i].open /\ orders[j].request.side # orders[i].request.side
    BY DEF LevelsAlternate
  <1>1. i \in 1..Len(orders) /\ j \in 1..Len(orders) /\ i < j
    BY DEF Placed, Consecutive
  <1>2. Known(orders, i) /\ At(orders, j, orders[i].request.level)
    BY DEF Placed, Consecutive, Known, At
  <1>3. ASSUME NEW k \in 1..Len(orders), i < k, k < j PROVE ~ At(orders, k, orders[i].request.level)
    <2>1. k \in (i + 1)..(j - 1)
      BY <1>1, <1>3
    <2> QED
      BY <2>1 DEF Consecutive, Placed, At, Known
  <1> QED
    BY <1>1, <1>2, <1>3 DEF LadderInv, Steady, Alternates

LEMMA InitLadder == Init => LadderInv
  <1> SUFFICES ASSUME Init PROVE LadderInv
    OBVIOUS
  <1>1. OnceInv /\ CompleteInv
    BY InitOnce, InitComplete
  <1>2. orders = <<>> /\ waiting = <<>> /\ \A c \in Caller : ~ Awaits(jobs, c) /\ jobs[c].order = NoId
    BY DEF Init, Idle, Awaits
  <1>3. Steady(orders, jobs)
    BY <1>2 DEF Steady, Alternates
  <1>4. Len(orders) <= MaxOrders
    BY <1>2, GridAssumption
  <1>5. ClosedWait /\ BeforeGrid
    BY <1>2 DEF Init, ClosedWait, BeforeGrid
  <1> QED
    BY <1>1, <1>3, <1>4, <1>5 DEF LadderInv, Init

-----------------------------------------------------------------------------
\* The prices of the levels differ.
LEMMA PricesDiffer ==
    ASSUME Distance > 0, NEW l \in Level, NEW k \in Level, Price(l) = Price(k)
    PROVE  l = k
  <1> DEFINE D == Distance
             S == StartingPrice
             a == Pair(l)
             b == Pair(k)
  <1>1. /\ D \in Nat /\ D > 0 /\ S \in Nat /\ a \in Nat /\ b \in Nat /\ a > 0 /\ b > 0
        /\ l \in Nat /\ k \in Nat
    BY GridAssumption DEF Level, Pair
  <1>2. /\ l = IF l % 2 = 1 THEN 2 * a - 1 ELSE 2 * a
        /\ k = IF k % 2 = 1 THEN 2 * b - 1 ELSE 2 * b
    BY <1>1 DEF Pair
  <1>3. /\ Price(l) = IF l % 2 = 1 THEN S - D * a ELSE S + D * a
        /\ Price(k) = IF k % 2 = 1 THEN S - D * b ELSE S + D * b
    BY DEF Price
  <1> HIDE DEF D, S, a, b
  <1>4. D * a \in Nat /\ D * b \in Nat /\ D * a > 0 /\ D * b > 0
    BY <1>1
  <1>5. D * a = D * b => a = b
    BY <1>1
  <1> DEFINE x == D * a
             y == D * b
             u == Price(l)
             v == Price(k)
             low == l % 2 = 1
             deep == k % 2 = 1
  <1>6. /\ x \in Nat /\ y \in Nat /\ x > 0 /\ y > 0 /\ u = v /\ S \in Nat
        /\ (low => u = S - x) /\ (~ low => u = S + x)
        /\ (deep => v = S - y) /\ (~ deep => v = S + y)
    BY <1>1, <1>3, <1>4
  <1> HIDE DEF x, y, u, v, low, deep
  <1>7. /\ (low /\ deep => x = y)
        /\ (~ low /\ ~ deep => x = y)
        /\ ~ (low /\ ~ deep)
        /\ ~ (~ low /\ deep)
    BY <1>6
  <1>8. (low <=> deep) /\ x = y
    BY <1>7
  <1>9. a = b
    BY <1>5, <1>8 DEF x, y
  <1>10. CASE low
    BY <1>2, <1>8, <1>9, <1>10 DEF low, deep
  <1>11. CASE ~ low
    BY <1>2, <1>8, <1>9, <1>11 DEF low, deep
  <1> QED
    BY <1>10, <1>11

-----------------------------------------------------------------------------
\* The same orders, some of them closed meanwhile.
Aged(os, os2) ==
    /\ Len(os2) = Len(os)
    /\ \A p \in 1..Len(os) :
          os2[p].request = os[p].request /\ os2[p].lost = os[p].lost /\ (os2[p].open => os[p].open)

LEMMA AgedLadder ==
    ASSUME NEW os \in Orders, NEW os2 \in Orders, NEW js \in Jobs,
           Asks(os, js), Steady(os, js), Aged(os, os2)
    PROVE  /\ Steady(os2, js)
           /\ \A g : Holds(g, os, js) => Holds(g, os2, js)
           /\ \A g : Ladder(g, os, js) => Ladder(g, os2, js)
  <1>1. Len(os) \in Nat /\ Len(os2) = Len(os) /\ "lock" \in Caller
    BY DEF Orders, Aged, Caller
  <1>2. \A p : (Known(os2, p) <=> Known(os, p))
    BY <1>1 DEF Aged, Known
  <1>3. \A p, l : At(os2, p, l) <=> At(os, p, l)
    BY <1>1, <1>2 DEF Aged, At, Known
  <1>4. \A p \in 1..Len(os) : os2[p].request = os[p].request /\ (os2[p].open => os[p].open)
    BY DEF Aged
  <1>5. Steady(os2, js)
    <2>1. Alternates(os2)
      BY <1>1, <1>2, <1>3, <1>4 DEF Steady, Alternates
    <2>2. \A c \in Caller : js[c].order # NoId =>
             /\ Known(os2, js[c].order)
             /\ \A p \in 1..Len(os2) : At(os2, p, js[c].request.level) => p <= js[c].order
      BY <1>1, <1>2, <1>3 DEF Steady
    <2> QED
      BY <2>1, <2>2 DEF Steady
  <1>6. ASSUME NEW g, Holds(g, os, js) PROVE Holds(g, os2, js)
    BY <1>3, <1>6 DEF Holds
  <1>7. ASSUME NEW g, Ladder(g, os, js) PROVE Ladder(g, os2, js)
    <2>1. LockFits(g, os2, js)
      <3>1. Awaits(js, "lock") => js["lock"].request.replaces \in 1..Len(os)
        BY <1>1 DEF Asks, NoId
      <3> QED
        BY <1>4, <1>7, <3>1 DEF Ladder, LockFits
    <2>2. InitFits(g, os2, js)
      BY <1>1, <1>3, <1>7 DEF Ladder, InitFits
    <2>3. Tracks(g, os2, js)
      BY <1>1, <1>2, <1>4, <1>7 DEF Ladder, Tracks
    <2> QED
      BY <1>6, <1>7, <2>1, <2>2, <2>3 DEF Ladder
  <1> QED
    BY <1>5, <1>6, <1>7

\* An order is placed of which nobody will hear.
LEMMA LateLadder ==
    ASSUME NEW os \in Orders, NEW os2 \in Orders, NEW js \in Jobs,
           Asks(os, js), Steady(os, js),
           Len(os2) = Len(os) + 1,
           \A p \in 1..Len(os) : os2[p] = os[p],
           os2[Len(os) + 1].lost
    PROVE  /\ Steady(os2, js)
           /\ \A g : Holds(g, os, js) => Holds(g, os2, js)
           /\ \A g : Ladder(g, os, js) => Ladder(g, os2, js)
  <1>1. Len(os) \in Nat /\ "lock" \in Caller /\ 1..Len(os) \subseteq 1..Len(os2)
    BY DEF Orders, Caller
  <1>2. \A p : Known(os2, p) <=> Known(os, p)
    BY <1>1 DEF Known
  <1>3. \A p, l : At(os2, p, l) <=> At(os, p, l)
    BY <1>1, <1>2 DEF At, Known
  <1>4. \A p, l : At(os, p, l) => p \in 1..Len(os) /\ Known(os, p)
    BY DEF At, Known
  <1>5. Steady(os2, js)
    <2>1. Alternates(os2)
      <3> SUFFICES ASSUME NEW i \in 1..Len(os2), NEW j \in 1..Len(os2),
                          i < j, Known(os2, i), At(os2, j, os2[i].request.level),
                          \A k \in 1..Len(os2) : i < k /\ k < j => ~ At(os2, k, os2[i].request.level)
                   PROVE  ~ os2[i].open /\ os2[j].request.side # os2[i].request.side
        BY DEF Alternates
      <3>1. i \in 1..Len(os) /\ j \in 1..Len(os) /\ os2[i] = os[i] /\ os2[j] = os[j]
        BY <1>2, <1>3, <1>4 DEF Known
      <3>2. \A k \in 1..Len(os) : i < k /\ k < j => ~ At(os, k, os[i].request.level)
        BY <1>1, <1>3, <3>1
      <3> QED
        BY <1>2, <1>3, <3>1, <3>2 DEF Steady, Alternates
    <2>2. \A c \in Caller : js[c].order # NoId =>
             /\ Known(os2, js[c].order)
             /\ \A p \in 1..Len(os2) : At(os2, p, js[c].request.level) => p <= js[c].order
      BY <1>2, <1>3, <1>4 DEF Steady
    <2> QED
      BY <2>1, <2>2 DEF Steady
  <1>6. ASSUME NEW g, Holds(g, os, js) PROVE Holds(g, os2, js)
    BY <1>3, <1>6 DEF Holds
  <1>7. ASSUME NEW g, Ladder(g, os, js) PROVE Ladder(g, os2, js)
    <2>1. LockFits(g, os2, js)
      <3>1. Awaits(js, "lock") => js["lock"].request.replaces \in 1..Len(os)
        BY <1>1 DEF Asks, NoId
      <3> QED
        BY <1>7, <3>1 DEF Ladder, LockFits
    <2>2. InitFits(g, os2, js)
      BY <1>3, <1>4, <1>7 DEF Ladder, InitFits
    <2>3. Tracks(g, os2, js)
      BY <1>2, <1>7 DEF Ladder, Tracks, Known
    <2> QED
      BY <1>6, <1>7, <2>1, <2>2, <2>3 DEF Ladder
  <1> QED
    BY <1>5, <1>6, <1>7

-----------------------------------------------------------------------------
\* The exchange accepts the order of caller c: the first of its level, if c is Initialize,
\* or the one behind the closed order that c replaces.
LEMMA AcceptLadder ==
    ASSUME NEW os \in Orders, NEW os2 \in Orders, NEW js \in Jobs, NEW js2 \in Jobs, NEW c \in Caller,
           NEW g,
           Asks(os, js), Steady(os, js), Ladder(g, os, js),
           \A l \in Level : g[l].id \in 0..Len(os),
           Awaits(js, c), js[c].order = NoId,
           Len(os2) = Len(os) + 1,
           \A p \in 1..Len(os) : os2[p] = os[p],
           os2[Len(os) + 1].request = js[c].request, ~ os2[Len(os) + 1].lost,
           \A d \in Caller \ {c} : js2[d] = js[d],
           js2[c].pc = js[c].pc, js2[c].request = js[c].request, js2[c].order = Len(os) + 1
    PROVE  Steady(os2, js2) /\ Ladder(g, os2, js2)
  <1> DEFINE n == Len(os) + 1
             r == js[c].request
  <1>1. /\ Len(os) \in Nat /\ n \in Nat /\ Len(os2) = n /\ n # NoId /\ 1..Len(os) \subseteq 1..n
        /\ "lock" \in Caller /\ "init" \in Caller /\ "lock" # "init"
    BY NotLock DEF Orders, Caller, NoId
  <1>2. \A p \in 1..Len(os2) : p = n \/ p \in 1..Len(os)
    BY <1>1
  <1>3. \A d \in Caller : Awaits(js2, d) = Awaits(js, d) /\ js2[d].request = js[d].request
    BY DEF Awaits
  <1>4. \A p : Known(os2, p) <=> p = n \/ Known(os, p)
    BY <1>1, <1>2 DEF Known
  <1>5. \A p, l : At(os2, p, l) <=> (p = n /\ l = r.level) \/ At(os, p, l)
    <2>1. ~ Known(os, n)
      BY <1>1 DEF Known
    <2> QED
      BY <1>1, <1>4, <2>1 DEF At, Known
  <1>6. \A p, l : At(os, p, l) => p \in 1..Len(os) /\ Known(os, p) /\ p < n
    BY <1>1 DEF At, Known
  <1>7. \A p : UnderWay(js2, p) <=> p = n \/ (UnderWay(js, p) /\ p # NoId) \/ (p = NoId /\ UnderWay(js2, p))
    BY <1>1 DEF UnderWay
  <1>8. c \in {"init", "lock"} /\ r \in OrderRequest /\ r.level \in Level
    BY DEF Steady, OrderRequest
  <1>9. \A d \in Caller : Awaits(js, d) /\ d # c => js[d].request.level # r.level
    BY Apart DEF Ladder
  <1>10. \A d \in Caller : js[d].order # NoId => d # c /\ Awaits(js, d) /\ js[d].order \in 1..Len(os)
    BY DEF Asks
  \* The order before it is the one it replaces.
  <1>12. ASSUME NEW i \in 1..Len(os), At(os, i, r.level),
                \A k \in 1..Len(os) : i < k => ~ At(os, k, r.level)
         PROVE  ~ os[i].open /\ r.side # os[i].request.side
    <2>1. c = "lock"
      <3>1. CASE c = "init"
        <4>1. r.level <= r.level
          BY <1>8, GridAssumption DEF Level
        <4>2. InitFits(g, os, js) /\ Awaits(js, "init") /\ r = js["init"].request
          BY <3>1 DEF Ladder
        <4>3. js["init"].order = i
          BY <1>8, <1>12, <4>1, <4>2 DEF InitFits
        <4>4. i # NoId
          BY <1>1, <1>12 DEF NoId
        <4> QED
          BY <3>1, <4>3, <4>4
      <3> QED
        BY <1>8, <3>1
    <2> DEFINE o == r.replaces
    <2>2. o # NoId /\ g[r.level].id = o /\ ~ os[o].open /\ r.side = Opposite(os[o].request.side)
      BY <2>1 DEF Ladder, LockFits
    <2>3. At(os, o, r.level) /\ o \in 1..Len(os)
      BY <1>6, <1>8, <2>2 DEF Ladder, Holds
    <2>4. ~ UnderWay(js, i)
      BY <1>9, <1>10, <1>12 DEF UnderWay, Asks, At, NoId
    <2>5. i = o
      <3>1. i = o \/ i < o
        BY <1>12, <2>2, <2>4 DEF Ladder, Tracks, At
      <3> QED
        BY <1>12, <2>3, <3>1
    <2>6. Opposite(os[o].request.side) # os[o].request.side
      <3>1. \A p \in 1..Len(os) : os[p] \in Order
        BY DEF Orders
      <3>2. os[o].request.side \in Side
        BY <2>3, <3>1 DEF Order, OrderRequest
      <3> QED
        BY <3>2 DEF Opposite, Side
    <2> QED
      BY <2>2, <2>5, <2>6
  <1>13. Alternates(os2)
    <2> SUFFICES ASSUME NEW i \in 1..Len(os2), NEW j \in 1..Len(os2),
                        i < j, Known(os2, i), At(os2, j, os2[i].request.level),
                        \A k \in 1..Len(os2) : i < k /\ k < j => ~ At(os2, k, os2[i].request.level)
                 PROVE  ~ os2[i].open /\ os2[j].request.side # os2[i].request.side
      BY DEF Alternates
    <2>1. i \in 1..Len(os) /\ os2[i] = os[i] /\ Known(os, i)
      BY <1>1, <1>2, <1>4
    <2>2. CASE j = n
      <3>1. At(os, i, r.level)
        <4>1. At(os2, n, os[i].request.level) /\ ~ At(os, n, os[i].request.level)
          BY <1>1, <1>6, <2>1, <2>2
        <4>2. os[i].request.level = r.level
          BY <1>5, <4>1
        <4> QED
          BY <2>1, <4>2 DEF At
      <3>2. ASSUME NEW k \in 1..Len(os), i < k PROVE ~ At(os, k, r.level)
        <4>1. k \in 1..Len(os2) /\ k < j
          BY <1>1, <2>2
        <4>2. ~ At(os2, k, os[i].request.level)
          BY <2>1, <3>2, <4>1
        <4>3. os[i].request.level = r.level
          BY <3>1 DEF At
        <4> QED
          BY <1>5, <4>2, <4>3
      <3> QED
        BY <1>12, <2>1, <2>2, <3>1, <3>2
    <2>3. CASE j # n
      <3>1. j \in 1..Len(os) /\ os2[j] = os[j] /\ At(os, j, os[i].request.level)
        BY <1>2, <1>5, <2>1, <2>3
      <3>2. \A k \in 1..Len(os) : i < k /\ k < j => ~ At(os, k, os[i].request.level)
        BY <1>1, <1>5, <2>1
      <3> QED
        BY <2>1, <3>1, <3>2 DEF Steady, Alternates
    <2> QED
      BY <2>2, <2>3
  <1>14. Steady(os2, js2)
    <2>1. ASSUME NEW d \in Caller, js2[d].order # NoId
          PROVE  /\ Known(os2, js2[d].order)
                 /\ \A p \in 1..Len(os2) : At(os2, p, js2[d].request.level) => p <= js2[d].order
      <3>1. CASE d = c
        BY <1>1, <1>4, <3>1
      <3>2. CASE d # c
        <4>1. js2[d] = js[d] /\ js[d].request.level # r.level /\ Known(os, js[d].order)
          BY <1>9, <1>10, <2>1, <3>2 DEF Steady
        <4> QED
          BY <1>4, <1>5, <1>6, <2>1, <4>1 DEF Steady
      <3> QED
        BY <3>1, <3>2
    <2> QED
      BY <1>3, <1>13, <2>1 DEF Steady
  <1>15. Holds(g, os2, js2)
    <2> SUFFICES ASSUME NEW l \in Level, g[l].id # NoId
                 PROVE  At(os2, g[l].id, l) /\ ~ UnderWay(js2, g[l].id)
      BY DEF Holds
    <2>1. At(os, g[l].id, l) /\ ~ UnderWay(js, g[l].id) /\ g[l].id # n
      BY <1>6 DEF Ladder, Holds
    <2> QED
      BY <1>5, <1>7, <2>1
  <1>16. LockFits(g, os2, js2)
    <2>1. Awaits(js, "lock") => js["lock"].request.replaces \in 1..Len(os)
      BY <1>1 DEF Asks, NoId
    <2> QED
      BY <1>1, <1>3, <2>1 DEF Ladder, LockFits
  <1>17. InitFits(g, os2, js2)
    <2> SUFFICES ASSUME Awaits(js2, "init"), NEW l \in Level, js["init"].request.level <= l
                 PROVE  g[l].id = NoId /\ \A p \in 1..Len(os2) : At(os2, p, l) => js2["init"].order = p
      BY <1>1, <1>3 DEF InitFits
    <2>1. Awaits(js, "init") /\ g[l].id = NoId /\ \A p \in 1..Len(os) : At(os, p, l) => js["init"].order = p
      BY <1>1, <1>3 DEF Ladder, InitFits
    <2>2. CASE c = "init"
      <3>1. \A p : ~ At(os, p, l)
        BY <1>1, <1>6, <2>1, <2>2 DEF NoId
      <3> QED
        BY <1>5, <2>1, <2>2, <3>1
    <2>3. CASE c = "lock"
      <3>1. l # r.level
        BY <1>1, <2>1, <2>3, Apart DEF Ladder
      <3> QED
        BY <1>1, <1>5, <1>6, <2>1, <2>3, <3>1
    <2> QED
      BY <1>8, <2>2, <2>3
  <1>18. Tracks(g, os2, js2)
    <2> SUFFICES ASSUME NEW p \in 1..Len(os2), Known(os2, p), p # n
                 PROVE  LET id == g[os2[p].request.level].id
                        IN  UnderWay(js2, p) \/ id = p \/ (~ os2[p].open /\ (id = NoId \/ p < id))
      BY <1>7 DEF Tracks
    <2>1. p \in 1..Len(os) /\ Known(os, p) /\ os2[p] = os[p] /\ p # NoId
      BY <1>2, <1>4 DEF NoId
    <2> QED
      BY <1>7, <2>1 DEF Ladder, Tracks
  <1> QED
    BY <1>14, <1>15, <1>16, <1>17, <1>18 DEF Ladder

-----------------------------------------------------------------------------
\* The holder of the lock asks for the order that replaces the closed order o.
LEMMA LockLadder ==
    ASSUME NEW os \in Orders, NEW js \in Jobs, NEW js2, NEW g, NEW l \in Level, NEW o \in 1..Len(os),
           Asks(os, js), Steady(os, js), Ladder(g, os, js), ~ Awaits(js, "lock"),
           g[l].id = o, ~ os[o].open,
           js2 = [js EXCEPT !["lock"] = Asked(Request(l, Opposite(os[o].request.side), o))]
    PROVE  Steady(os, js2) /\ Ladder(g, os, js2) /\ \A s : Holds(s, os, js) => Holds(s, os, js2)
  <1> DEFINE r == Request(l, Opposite(os[o].request.side), o)
  <1>1. /\ Len(os) \in Nat /\ "lock" \in Caller /\ "init" \in Caller /\ "lock" # "init" /\ o # NoId
        /\ o \in Nat
    BY NotLock DEF Orders, Caller, NoId
  <1>2. js["lock"].order = NoId
    BY <1>1 DEF Asks
  <1>3. js2["lock"] = Asked(r) /\ \A c \in Caller : c # "lock" => js2[c] = js[c]
    BY <1>1 DEF Jobs
  <1>4. js2["lock"].order = NoId /\ js2["lock"].request = r
    BY <1>3 DEF Asked
  <1>5. \A c \in Caller : js2[c].order = js[c].order
    BY <1>2, <1>3, <1>4
  <1>6. \A p : UnderWay(js2, p) <=> UnderWay(js, p)
    BY <1>5 DEF UnderWay
  <1>7. r \in OrderRequest
    BY <1>1 DEF Request, OrderRequest, Opposite, Side
  <1>8. r.level = l /\ r.side = Opposite(os[o].request.side) /\ r.replaces = o
    BY DEF Request
  <1>9. Steady(os, js2)
    <2>1. \A c \in Caller : Awaits(js2, c) => c \in {"init", "lock"} /\ js2[c].request \in OrderRequest
      BY <1>3, <1>4, <1>7 DEF Steady, Awaits
    <2>2. \A c \in Caller : js2[c].order # NoId => js2[c] = js[c]
      BY <1>3, <1>4
    <2>3. \A c \in Caller : js2[c].order # NoId =>
             /\ Known(os, js2[c].order)
             /\ \A p \in 1..Len(os) : At(os, p, js2[c].request.level) => p <= js2[c].order
      BY <2>2 DEF Steady
    <2> QED
      BY <2>1, <2>3 DEF Steady
  <1>10. \A s : Holds(s, os, js) => Holds(s, os, js2)
    BY <1>6 DEF Holds
  <1>11. LockFits(g, os, js2)
    BY <1>1, <1>4, <1>8 DEF LockFits
  <1>12. InitFits(g, os, js2)
    BY <1>1, <1>3 DEF Ladder, InitFits, Awaits
  <1>13. Tracks(g, os, js2)
    BY <1>6 DEF Ladder, Tracks
  <1> QED
    BY <1>9, <1>10, <1>11, <1>12, <1>13 DEF Ladder

-----------------------------------------------------------------------------
\* A submission has ended with id: if that is none, the order o becomes lost.
Outcome(os, os2, o, id) ==
    /\ Len(os2) = Len(os)
    /\ \A p \in 1..Len(os) :
          /\ os2[p].request = os[p].request /\ os2[p].open = os[p].open
          /\ os2[p].lost <=> os[p].lost \/ (p = o /\ id = NoId)

LEMMA OutcomeKnown ==
    ASSUME NEW os, NEW os2, NEW o, NEW id, Outcome(os, os2, o, id)
    PROVE  /\ \A p : Known(os2, p) <=> Known(os, p) /\ ~ (p = o /\ id = NoId)
           /\ \A p, l : At(os2, p, l) <=> At(os, p, l) /\ ~ (p = o /\ id = NoId)
  BY DEF Outcome, Known, At

LEMMA OutcomeSteady ==
    ASSUME NEW os \in Orders, NEW os2 \in Orders, NEW js \in Jobs, NEW js2, NEW c \in Caller, NEW id,
           Asks(os, js), Steady(os, js), Awaits(js, c), Outcome(os, os2, js[c].order, id),
           \A d \in Caller \ {c} : js2[d] = js[d],
           js2[c].order = NoId,
           Awaits(js2, c) => c = "init" /\ js2[c].request \in OrderRequest
    PROVE  Steady(os2, js2)
  <1> DEFINE o == js[c].order
  <1>1. Len(os) \in Nat /\ Len(os2) = Len(os) /\ o \in Nat
    BY DEF Orders, Outcome, Jobs, Job
  <1>2. \A p : Known(os2, p) <=> Known(os, p) /\ ~ (p = o /\ id = NoId)
    BY OutcomeKnown
  <1>3. \A p, l : At(os2, p, l) <=> At(os, p, l) /\ ~ (p = o /\ id = NoId)
    BY OutcomeKnown
  <1>4. \A p \in 1..Len(os) : os2[p].request = os[p].request /\ os2[p].open = os[p].open
    BY DEF Outcome
  <1>5. o \in 1..Len(os) => /\ os[o].request = js[c].request
                            /\ \A p \in 1..Len(os) : At(os, p, os[o].request.level) => p <= o
    BY <1>1 DEF Asks, Steady, NoId
  <1>6. Alternates(os2)
    <2> SUFFICES ASSUME NEW i \in 1..Len(os2), NEW j \in 1..Len(os2),
                        i < j, Known(os2, i), At(os2, j, os2[i].request.level),
                        \A k \in 1..Len(os2) : i < k /\ k < j => ~ At(os2, k, os2[i].request.level)
                 PROVE  ~ os2[i].open /\ os2[j].request.side # os2[i].request.side
      BY DEF Alternates
    <2>1. /\ i \in 1..Len(os) /\ j \in 1..Len(os) /\ os2[i].request = os[i].request
          /\ Known(os, i) /\ At(os, j, os[i].request.level)
      BY <1>1, <1>2, <1>3, <1>4
    <2>2. ASSUME NEW k \in 1..Len(os), i < k, k < j, At(os, k, os[i].request.level)
          PROVE  FALSE
      <3>1. k = o
        BY <1>1, <1>3, <2>1, <2>2
      <3>2. os[o].request.level = os[i].request.level
        BY <2>2, <3>1 DEF At
      <3>3. j <= o
        BY <1>5, <2>1, <3>1, <3>2
      <3> QED
        BY <2>1, <2>2, <3>1, <3>3
    <2> QED
      BY <1>4, <2>1, <2>2 DEF Steady, Alternates
  <1>7. ASSUME NEW d \in Caller, js2[d].order # NoId
        PROVE  /\ Known(os2, js2[d].order)
               /\ \A p \in 1..Len(os2) : At(os2, p, js2[d].request.level) => p <= js2[d].order
    <2>1. d # c /\ js2[d] = js[d] /\ js[d].order # o
      BY <1>7 DEF Asks
    <2> QED
      BY <1>1, <1>2, <1>3, <1>7, <2>1 DEF Steady
  <1>8. \A d \in Caller : Awaits(js2, d) => d \in {"init", "lock"} /\ js2[d].request \in OrderRequest
    BY DEF Steady, Awaits
  <1> QED
    BY <1>6, <1>7, <1>8 DEF Steady

LEMMA OutcomeUnderWay ==
    ASSUME NEW js \in Jobs, NEW js2, NEW c \in Caller, js2[c].order = NoId,
           \A d \in Caller \ {c} : js2[d] = js[d]
    PROVE  /\ \A p : UnderWay(js2, p) /\ p # NoId => UnderWay(js, p)
           /\ \A p : UnderWay(js, p) /\ p # js[c].order => UnderWay(js2, p)
  BY DEF UnderWay

\* A caller gives up: its order is not known any more, and the grid stays.
LEMMA TimeoutLadder ==
    ASSUME NEW os \in Orders, NEW os2 \in Orders, NEW js \in Jobs, NEW js2, NEW c \in Caller, NEW g,
           Asks(os, js), Steady(os, js), Ladder(g, os, js), Awaits(js, c),
           Outcome(os, os2, js[c].order, NoId),
           \A d \in Caller \ {c} : js2[d] = js[d],
           js2[c].order = NoId, ~ Awaits(js2, c)
    PROVE  Steady(os2, js2) /\ Ladder(g, os2, js2)
  <1> DEFINE o == js[c].order
  <1>1. Len(os) \in Nat /\ Len(os2) = Len(os) /\ "lock" \in Caller /\ "init" \in Caller
    BY DEF Orders, Outcome, Caller
  <1>2. /\ \A p : Known(os2, p) <=> Known(os, p) /\ p # o
        /\ \A p, l : At(os2, p, l) <=> At(os, p, l) /\ p # o
    BY OutcomeKnown
  <1>3. /\ \A p : UnderWay(js2, p) /\ p # NoId => UnderWay(js, p)
        /\ \A p : UnderWay(js, p) /\ p # o => UnderWay(js2, p)
        /\ UnderWay(js, o)
    BY OutcomeUnderWay DEF UnderWay
  <1>4. \A p \in 1..Len(os) : os2[p].request = os[p].request /\ os2[p].open = os[p].open
    BY DEF Outcome
  <1>5. Steady(os2, js2)
    BY OutcomeSteady
  <1>6. Holds(g, os2, js2)
    BY <1>2, <1>3 DEF Ladder, Holds
  <1>7. LockFits(g, os2, js2)
    <2>1. Awaits(js2, "lock") => js2["lock"] = js["lock"] /\ Awaits(js, "lock")
      BY <1>1 DEF Awaits
    <2>2. Awaits(js, "lock") => js["lock"].request.replaces \in 1..Len(os)
      BY <1>1 DEF Asks, NoId
    <2> QED
      BY <1>4, <2>1, <2>2 DEF Ladder, LockFits
  <1>8. InitFits(g, os2, js2)
    <2>1. Awaits(js2, "init") => js2["init"] = js["init"] /\ Awaits(js, "init")
      BY <1>1 DEF Awaits
    <2> QED
      BY <1>1, <1>2, <2>1 DEF Ladder, InitFits
  <1>9. Tracks(g, os2, js2)
    BY <1>1, <1>2, <1>3, <1>4 DEF Ladder, Tracks
  <1> QED
    BY <1>5, <1>6, <1>7, <1>8, <1>9 DEF Ladder

\* An answer is noted: the level has its order, or none if the answer was empty.
LEMMA AnswerLadder ==
    ASSUME NEW os \in Orders, NEW os2 \in Orders, NEW js \in Jobs, NEW js2, NEW c \in Caller,
           NEW g, NEW g2, NEW id \in {js[c].order, NoId},
           Asks(os, js), Steady(os, js), Ladder(g, os, js), Awaits(js, c),
           Outcome(os, os2, js[c].order, id),
           \A d \in Caller \ {c} : js2[d] = js[d],
           js2[c].order = NoId,
           Awaits(js2, c) => /\ c = "init" /\ js2[c].request \in OrderRequest
                             /\ js[c].request.level < js2[c].request.level,
           \A k \in Level : g2[k].id = IF k = js[c].request.level THEN id ELSE g[k].id
    PROVE  Steady(os2, js2) /\ Ladder(g2, os2, js2)
  <1> DEFINE o == js[c].order
             r == js[c].request
  <1>1. /\ Len(os) \in Nat /\ Len(os2) = Len(os) /\ "lock" \in Caller /\ "init" \in Caller
        /\ "lock" # "init" /\ Level \subseteq Nat /\ o \in Nat
    BY NotLock, GridAssumption DEF Orders, Outcome, Caller, Level, Jobs, Job
  <1>2. /\ \A p : Known(os2, p) <=> Known(os, p) /\ ~ (p = o /\ id = NoId)
        /\ \A p, l : At(os2, p, l) <=> At(os, p, l) /\ ~ (p = o /\ id = NoId)
    BY OutcomeKnown
  <1>3. /\ \A p : UnderWay(js2, p) /\ p # NoId => UnderWay(js, p)
        /\ \A p : UnderWay(js, p) /\ p # o => UnderWay(js2, p)
    BY OutcomeUnderWay
  <1>4. \A p \in 1..Len(os) : os2[p].request = os[p].request /\ os2[p].open = os[p].open
    BY DEF Outcome
  <1>5. c \in {"init", "lock"} /\ r \in OrderRequest /\ r.level \in Level /\ r.level \in Nat
    BY <1>1 DEF Steady, OrderRequest
  <1>6. \A d \in Caller : Awaits(js, d) /\ d # c => js[d].request.level # r.level
    BY Apart DEF Ladder
  <1>7. o # NoId => /\ o \in 1..Len(os) /\ os[o].request = r /\ Known(os, o)
                    /\ \A p \in 1..Len(os) : At(os, p, r.level) => p <= o
    BY DEF Asks, Steady
  <1>8. o # NoId => ~ UnderWay(js2, o)
    <2>1. o # NoId => \A d \in Caller \ {c} : js[d].order # o
      BY DEF Asks
    <2> QED
      BY <2>1 DEF UnderWay
  <1>9. Steady(os2, js2)
    BY OutcomeSteady
  <1>10. Holds(g2, os2, js2)
    <2> SUFFICES ASSUME NEW l \in Level, g2[l].id # NoId
                 PROVE  At(os2, g2[l].id, l) /\ ~ UnderWay(js2, g2[l].id)
      BY DEF Holds
    <2>1. CASE l = r.level
      <3>1. g2[l].id = o /\ id = o /\ o # NoId
        BY <2>1
      <3>2. At(os, o, l)
        BY <1>7, <2>1, <3>1 DEF At
      <3> QED
        BY <1>2, <1>8, <3>1, <3>2
    <2>2. CASE l # r.level
      <3>1. g2[l].id = g[l].id
        BY <2>2
      <3>2. At(os, g[l].id, l) /\ ~ UnderWay(js, g[l].id)
        BY <3>1 DEF Ladder, Holds
      <3>3. g[l].id # o
        BY <3>2 DEF UnderWay
      <3> QED
        BY <1>2, <1>3, <3>1, <3>2, <3>3
    <2> QED
      BY <2>1, <2>2
  <1>11. LockFits(g2, os2, js2)
    <2> SUFFICES ASSUME Awaits(js2, "lock")
                 PROVE  LET s == js2["lock"].request
                        IN  /\ s.replaces # NoId /\ g2[s.level].id = s.replaces
                            /\ ~ os2[s.replaces].open /\ s.side = Opposite(os2[s.replaces].request.side)
      BY DEF LockFits
    <2>1. js2["lock"] = js["lock"] /\ Awaits(js, "lock") /\ "lock" # c
      BY <1>1 DEF Awaits
    <2>2. js["lock"].request.replaces \in 1..Len(os)
      BY <1>1, <2>1 DEF Asks, NoId
    <2>3. js["lock"].request.level # r.level /\ js["lock"].request.level \in Level
      BY <1>1, <1>6, <2>1 DEF Steady, OrderRequest
    <2>4. g2[js["lock"].request.level].id = g[js["lock"].request.level].id
      BY <2>3
    <2> QED
      BY <1>4, <2>1, <2>2, <2>4 DEF Ladder, LockFits
  <1>12. InitFits(g2, os2, js2)
    <2> SUFFICES ASSUME Awaits(js2, "init"), NEW l \in Level, js2["init"].request.level <= l
                 PROVE  g2[l].id = NoId /\ \A p \in 1..Len(os2) : At(os2, p, l) => js2["init"].order = p
      BY DEF InitFits
    <2>1. CASE c = "init"
      <3>1. js2["init"].request.level \in Level
        BY <2>1 DEF OrderRequest
      <3>2. r.level < l /\ r.level <= l /\ l # r.level
        BY <1>1, <1>5, <2>1, <3>1
      <3>3. g[l].id = NoId /\ \A p \in 1..Len(os) : At(os, p, l) => o = p
        BY <2>1, <3>2 DEF Ladder, InitFits
      <3>4. \A p \in 1..Len(os) : ~ At(os, p, l)
        BY <1>1, <1>7, <3>2, <3>3 DEF At, NoId
      <3> QED
        BY <1>1, <1>2, <3>2, <3>3, <3>4
    <2>2. CASE c = "lock"
      <3>1. js2["init"] = js["init"] /\ Awaits(js, "init")
        BY <1>1, <2>2 DEF Awaits
      <3>2. l # r.level
        BY <2>2, <3>1, Apart DEF Ladder
      <3> QED
        BY <1>1, <1>2, <3>1, <3>2 DEF Ladder, InitFits
    <2> QED
      BY <1>5, <2>1, <2>2
  <1>13. Tracks(g2, os2, js2)
    <2> SUFFICES ASSUME NEW p \in 1..Len(os), Known(os2, p)
                 PROVE  LET new == g2[os[p].request.level].id
                        IN  UnderWay(js2, p) \/ new = p \/ (~ os[p].open /\ (new = NoId \/ p < new))
      BY <1>1, <1>4 DEF Tracks
    <2> DEFINE l == os[p].request.level
               old == g[l].id
               new == g2[l].id
    <2>1. Known(os, p) /\ ~ (p = o /\ id = NoId) /\ l \in Level /\ At(os, p, l) /\ p # NoId
      <3>1. os[p] \in Order
        BY DEF Orders
      <3>2. l \in Level
        BY <3>1 DEF Order, OrderRequest
      <3> QED
        BY <1>2, <3>2 DEF At, NoId
    <2>2. UnderWay(js, p) \/ old = p \/ (~ os[p].open /\ (old = NoId \/ p < old))
      BY <2>1 DEF Ladder, Tracks
    <2>3. CASE l # r.level
      <3>1. p # o
        BY <1>7, <2>1, <2>3
      <3> QED
        BY <1>3, <2>1, <2>2, <2>3, <3>1
    <2>4. CASE l = r.level
      <3>1. new = id
        BY <2>1, <2>4
      <3>2. CASE p = o
        BY <2>1, <3>1, <3>2
      <3>3. CASE p # o
        <4>1. ~ UnderWay(js, p)
          <5>1. \A d \in Caller \ {c} : js[d].order # p
            BY <1>6, <2>1, <2>4 DEF Asks
          <5> QED
            BY <3>3, <5>1 DEF UnderWay
        <4>2. ~ os[p].open
          <5>1. CASE c = "init"
            <6>1. InitFits(g, os, js) /\ Awaits(js, "init") /\ r.level <= l
              BY <1>5, <2>4, <5>1 DEF Ladder
            <6>2. js["init"].order = p
              BY <2>1, <5>1, <6>1 DEF InitFits
            <6> QED
              BY <3>3, <5>1, <6>2
          <5>2. CASE c = "lock"
            BY <2>2, <2>4, <4>1, <5>2 DEF Ladder, LockFits
          <5> QED
            BY <1>5, <5>1, <5>2
        <4>3. id = NoId \/ p < id
          BY <1>1, <1>7, <2>1, <2>4, <3>3
        <4> QED
          BY <3>1, <4>2, <4>3
      <3> QED
        BY <3>2, <3>3
    <2> QED
      BY <2>3, <2>4
  <1> QED
    BY <1>9, <1>10, <1>11, <1>12, <1>13 DEF Ladder

-----------------------------------------------------------------------------
\* The steps.
LEMMA LadderTyped ==
    ASSUME LadderInv
    PROVE  /\ orders \in Orders /\ jobs \in Jobs /\ "lock" \in Caller /\ Len(orders) \in Nat
           /\ Asks(orders, jobs) /\ Steady(orders, jobs) /\ waiting \in Seq(Nat)
           /\ orderGrid \in Grid \cup {None} /\ (orderGrid = None <=> orderGrid \notin Grid)
           /\ orderGrid # None => /\ Ladder(orderGrid, orders, jobs)
                                  /\ \A l \in Level : orderGrid[l].id \in 0..Len(orders)
           /\ \A c \in Caller : Awaits(jobs, c) =>
                 /\ c \in {"init", "lock"} /\ orderGrid # None
                 /\ jobs[c].request \in OrderRequest /\ jobs[c].request.level \in Level
                 /\ initPc \notin {"connecting", "loading", "pushing"}
           /\ Awaits(jobs, "init") => initPc = "submitting"
  <1>1. /\ orders \in Orders /\ jobs \in Jobs /\ "lock" \in Caller /\ Len(orders) \in Nat
        /\ Asks(orders, jobs) /\ Steady(orders, jobs) /\ waiting \in Seq(Nat)
        /\ orderGrid \in Grid \cup {None}
    BY OnceTyped DEF LadderInv, OnceInv, TypeInv, TypeOK
  <1>2. None \notin Grid
    BY NoneAssumption DEF Grid, Level, Side
  <1>3. orderGrid # None => /\ Ladder(orderGrid, orders, jobs)
                            /\ \A l \in Level : orderGrid[l].id \in 0..Len(orders)
    BY DEF LadderInv, OnceInv, Fits
  <1>4. Awaits(jobs, "init") => initPc = "submitting"
    BY DEF LadderInv, CompleteInv
  <1>5. ASSUME NEW c \in Caller, Awaits(jobs, c)
        PROVE  /\ c \in {"init", "lock"} /\ orderGrid # None
               /\ jobs[c].request \in OrderRequest /\ jobs[c].request.level \in Level
               /\ initPc \notin {"connecting", "loading", "pushing"}
    <2>1. c \in {"init", "lock"} /\ jobs[c].request \in OrderRequest /\ jobs[c].request.level \in Level
      BY <1>1, <1>5 DEF Steady, OrderRequest
    <2>2. initPc \notin {"connecting", "loading"} /\ orderGrid \in Grid
      BY <1>5 DEF LadderInv, OnceInv, TypeInv, Boot, Asking, Busy, Awaits
    <2>3. initPc # "pushing"
      <3>1. CASE c = "init"
        BY <1>4, <1>5, <3>1
      <3>2. CASE c = "lock"
        BY <1>2, <1>3, <1>5, <2>1, <2>2, <3>2 DEF Ladder, LockFits, LadderInv, BeforeGrid
      <3> QED
        BY <2>1, <3>1, <3>2
    <2> QED
      BY <1>2, <2>1, <2>2, <2>3
  <1> QED
    BY <1>1, <1>2, <1>3, <1>4, <1>5

\* Once there is a grid, the stored one counts only if it is the same.
LEMMA GridLater ==
    ASSUME CompleteInv', orderGrid' # None => Ladder(orderGrid', orders', jobs'),
           initPc' \notin {"connecting", "loading", "pushing"}
    PROVE  BeforeGrid'
  <1>1. enabled' => stored' = orderGrid' /\ orderGrid' # None
    BY DEF CompleteInv, Complete
  <1> QED
    BY <1>1 DEF BeforeGrid, Ladder

LEMMA GridKept ==
    ASSUME BeforeGrid, UNCHANGED <<orderGrid, stored, enabled, initPc>>,
           \A p : Known(orders', p) => Known(orders, p) /\ orders'[p].request = orders[p].request,
           Holds(stored, orders, jobs) => Holds(stored, orders', jobs')
    PROVE  BeforeGrid'
  <1>1. \A p : ~ Known(orders, p) => ~ Known(orders', p)
    OBVIOUS
  <1>2. \A p : Known(orders', p) /\ Remembered(p) => Remembered(p)'
    BY DEF Remembered
  <1>3. \A p : Known(orders, p) => p \in 1..Len(orders)
    BY DEF Known
  <1>4. enabled' => Holds(stored', orders', jobs')
    BY DEF BeforeGrid
  <1>5. initPc' = "pushing" => /\ \A l \in Level : orderGrid'[l].id = NoId
                               /\ \A p \in 1..Len(orders') : ~ Known(orders', p)
    BY <1>1, <1>3 DEF BeforeGrid
  <1>6. initPc' \in {"connecting", "loading"} =>
           \A p \in 1..Len(orders') : Known(orders', p) => Remembered(p)'
    BY <1>2, <1>3 DEF BeforeGrid
  <1> QED
    BY <1>4, <1>5, <1>6 DEF BeforeGrid

\* A grid without orders, when no order is known.
LEMMA EmptyLadder ==
    ASSUME NEW os, NEW js \in Jobs, NEW g,
           \A l \in Level : g[l].id = NoId, \A p \in 1..Len(os) : ~ Known(os, p),
           \A c \in Caller : js[c].order = NoId,
           \A c \in Caller : Awaits(js, c) => c = "init" /\ js[c].request \in OrderRequest
    PROVE  Steady(os, js) /\ Ladder(g, os, js)
  <1>1. "lock" \in Caller /\ "lock" # "init"
    BY NotLock DEF Caller
  <1>2. Steady(os, js)
    BY DEF Steady, Alternates, At
  <1>3. Holds(g, os, js) /\ InitFits(g, os, js) /\ Tracks(g, os, js)
    BY DEF Holds, InitFits, Tracks, At
  <1>4. LockFits(g, os, js)
    BY <1>1 DEF LockFits
  <1> QED
    BY <1>2, <1>3, <1>4 DEF Ladder

-----------------------------------------------------------------------------
LEMMA ExchangeLadder ==
    ASSUME LadderInv, OnceInv', CompleteInv', (\E c \in Caller : Accept(c)) \/ AcceptLate
    PROVE  LadderInv'
  <1>0. /\ orders \in Orders /\ jobs \in Jobs /\ Len(orders) \in Nat
        /\ orders' \in Orders /\ jobs' \in Jobs
        /\ Asks(orders, jobs) /\ Steady(orders, jobs)
    BY LadderTyped, OnceTypedNext DEF OnceInv
  <1>1. /\ Len(orders') = Len(orders) + 1 /\ Len(orders) < MaxOrders
        /\ \A p \in 1..Len(orders) : orders'[p] = orders[p]
    <2>1. Len(orders) < MaxOrders /\ \E e : orders' = Append(orders, e)
      BY DEF Accept, AcceptLate, PlaceOrder
    <2> QED
      BY <1>0, <2>1 DEF Orders
  <1>2. Len(orders') <= MaxOrders
    BY <1>0, <1>1, GridAssumption
  <1>3. UNCHANGED <<orderGrid, waiting, stored, enabled, initPc>>
    BY DEF Accept, AcceptLate, pluginVars, redisVars
  <1>4. ClosedWait'
    <2>1. \A o : Closed(orders, o) => Closed(orders', o)
      BY <1>0, <1>1 DEF Closed
    <2> QED
      BY <1>3, <2>1 DEF LadderInv, ClosedWait
  <1>5. ASSUME NEW c \in Caller, Accept(c)
        PROVE  LadderInv'
    <2>1. Awaits(jobs, c) /\ jobs[c].order = NoId
      BY <1>5 DEF Accept, Awaits
    <2>2. orders'[Len(orders) + 1].request = jobs[c].request /\ ~ orders'[Len(orders) + 1].lost
      BY <1>0, <1>5 DEF Accept, PlaceOrder, Orders
    <2>3. /\ \A d \in Caller \ {c} : jobs'[d] = jobs[d]
          /\ jobs'[c].pc = jobs[c].pc /\ jobs'[c].request = jobs[c].request
          /\ jobs'[c].order = Len(orders) + 1
      BY <1>0, <1>5 DEF Accept, Jobs, Job
    <2>4. /\ orderGrid # None /\ Ladder(orderGrid, orders, jobs)
          /\ \A l \in Level : orderGrid[l].id \in 0..Len(orders)
          /\ initPc \notin {"connecting", "loading", "pushing"}
      BY <2>1, LadderTyped
    <2>5. Steady(orders', jobs') /\ Ladder(orderGrid, orders', jobs')
      BY <1>0, <1>1, <2>1, <2>2, <2>3, <2>4, AcceptLadder
    <2>6. BeforeGrid'
      BY <1>3, <2>4, <2>5, GridLater
    <2> QED
      BY <1>2, <1>3, <1>4, <2>5, <2>6 DEF LadderInv
  <1>6. CASE AcceptLate
    <2>1. orders'[Len(orders) + 1].lost
      BY <1>0, <1>6 DEF AcceptLate, PlaceOrder, Orders
    <2>2. jobs' = jobs
      BY <1>6 DEF AcceptLate, pluginVars
    <2>3. /\ Steady(orders', jobs)
          /\ \A g : Holds(g, orders, jobs) => Holds(g, orders', jobs)
          /\ \A g : Ladder(g, orders, jobs) => Ladder(g, orders', jobs)
      BY <1>0, <1>1, <2>1, LateLadder
    <2>4. \A p : Known(orders', p) => Known(orders, p) /\ orders'[p].request = orders[p].request
      <3>1. \A p \in 1..Len(orders') : p = Len(orders) + 1 \/ p \in 1..Len(orders)
        BY <1>0, <1>1
      <3> QED
        BY <1>1, <2>1, <3>1 DEF Known
    <2>5. BeforeGrid'
      BY <1>3, <2>2, <2>3, <2>4, GridKept DEF LadderInv
    <2> QED
      BY <1>2, <1>3, <1>4, <2>2, <2>3, <2>5 DEF LadderInv
  <1> QED
    BY <1>5, <1>6

\* Orders close or are reported closed, and the lock may be taken for one of them.
LEMMA AgedStep ==
    ASSUME LadderInv, OnceInv', CompleteInv', Aged(orders, orders'),
           UNCHANGED <<orderGrid, stored, enabled, initPc>>, NEW o,
           \/ jobs' = jobs
           \/ /\ Closed(orders, o) /\ ~ locked /\ orderGrid # None /\ LevelsOf(o) # {}
              /\ Submit("lock", Min(LevelsOf(o)), Opposite(orders[o].request.side), o),
           \A i \in 1..Len(waiting') : Closed(orders, waiting'[i])
    PROVE  LadderInv'
  <1>0. /\ orders \in Orders /\ jobs \in Jobs /\ Len(orders) \in Nat
        /\ orders' \in Orders /\ jobs' \in Jobs
        /\ Asks(orders, jobs) /\ Steady(orders, jobs)
    BY LadderTyped, OnceTypedNext DEF OnceInv
  <1>1. /\ Len(orders') = Len(orders)
        /\ \A p \in 1..Len(orders) : /\ orders'[p].request = orders[p].request
                                     /\ orders'[p].lost = orders[p].lost
                                     /\ orders'[p].open => orders[p].open
    BY DEF Aged
  <1>2. Asks(orders', jobs)
    <2>1. \A p : Known(orders', p) <=> Known(orders, p)
      BY <1>1 DEF Known
    <2>2. \A p \in 1..Len(orders) : Replaces(orders', p) = Replaces(orders, p)
      BY <1>1 DEF Replaces
    <2> QED
      BY <1>0, <1>1, <2>1, <2>2 DEF Asks
  <1>3. /\ Steady(orders', jobs)
        /\ \A g : Holds(g, orders, jobs) => Holds(g, orders', jobs)
        /\ \A g : Ladder(g, orders, jobs) => Ladder(g, orders', jobs)
    BY <1>0, AgedLadder
  <1>4. /\ Steady(orders', jobs')
        /\ \A g : Holds(g, orders, jobs) => Holds(g, orders', jobs')
        /\ orderGrid # None => Ladder(orderGrid, orders', jobs')
    <2>1. CASE jobs' = jobs
      BY <1>3, <2>1 DEF LadderInv
    <2>2. CASE /\ Closed(orders, o) /\ ~ locked /\ orderGrid # None /\ LevelsOf(o) # {}
               /\ Submit("lock", Min(LevelsOf(o)), Opposite(orders[o].request.side), o)
      <3> DEFINE l == Min(LevelsOf(o))
      <3>1. l \in Level /\ orderGrid[l].id = o
        BY <2>2, MinIsLeast DEF LevelsOf
      <3>2. o \in 1..Len(orders) /\ ~ orders[o].open
        <4>1. o \in 0..Len(orders) /\ Len(orders) <= MaxOrders
          BY <2>2, <3>1, LadderTyped DEF LadderInv
        <4>2. o # MaxOrders + 1
          BY <1>0, <4>1, GridAssumption
        <4> QED
          BY <2>2, <4>2 DEF Closed
      <3>3. o \in 1..Len(orders') /\ ~ orders'[o].open /\ orders'[o].request = orders[o].request
        BY <1>1, <3>2
      <3>4. ~ Awaits(jobs, "lock")
        BY <2>2 DEF LadderInv, OnceInv
      <3>5. jobs' = [jobs EXCEPT !["lock"] = Asked(Request(l, Opposite(orders'[o].request.side), o))]
        BY <2>2, <3>3 DEF Submit
      <3>6. Ladder(orderGrid, orders', jobs)
        BY <1>3, <2>2 DEF LadderInv
      <3> HIDE DEF l
      <3>7. /\ Steady(orders', jobs') /\ Ladder(orderGrid, orders', jobs')
            /\ \A s : Holds(s, orders', jobs) => Holds(s, orders', jobs')
        BY <1>0, <1>2, <1>3, <3>1, <3>3, <3>4, <3>5, <3>6, LockLadder
      <3> QED
        BY <1>3, <3>7
    <2> QED
      BY <2>1, <2>2
  <1>5. \A p : Known(orders', p) => Known(orders, p) /\ orders'[p].request = orders[p].request
    BY <1>1 DEF Known
  <1>6. BeforeGrid'
    BY <1>4, <1>5, GridKept DEF LadderInv
  <1>7. ClosedWait'
    BY <1>1 DEF ClosedWait, Closed
  <1>8. Len(orders') <= MaxOrders
    BY <1>1 DEF LadderInv
  <1> QED
    BY <1>4, <1>6, <1>7, <1>8 DEF LadderInv

LEMMA AgedSame == ASSUME NEW os \in Orders PROVE Aged(os, os)
  BY DEF Aged, Orders

LEMMA WaitSteps ==
    ASSUME waiting \in Seq(Nat), ClosedWait, NEW o, Closed(orders, o), o \in Nat,
           waiting' \in {waiting, Append(waiting, o)} \/ (waiting # <<>> /\ waiting' = Tail(waiting))
    PROVE  \A i \in 1..Len(waiting') : Closed(orders, waiting'[i])
  <1>1. CASE waiting' = waiting
    BY <1>1 DEF ClosedWait
  <1>2. CASE waiting' = Append(waiting, o)
    BY <1>2 DEF ClosedWait
  <1>3. CASE waiting # <<>> /\ waiting' = Tail(waiting)
    BY <1>3 DEF ClosedWait
  <1> QED
    BY <1>1, <1>2, <1>3

LEMMA ClosedLadder ==
    ASSUME CrossEnabled, LadderInv, OnceInv', CompleteInv',
           \/ \E o \in 1..Len(orders) : HandleClosed(o) \/ Fill(o)
           \/ HandleForeign \/ Dequeue \/ TimeoutWaiting
           \/ \E q \in Quote : CacheBook(q) \/ \E w \in Walk : HandleOrderBook(w, q)
           \/ Enable \/ UNCHANGED vars
    PROVE  LadderInv'
  <1>0. /\ orders \in Orders /\ Len(orders) \in Nat /\ waiting \in Seq(Nat) /\ ClosedWait
        /\ Aged(orders, orders) /\ MaxOrders + 1 \in Nat /\ Closed(orders, MaxOrders + 1)
    BY LadderTyped, AgedSame, GridAssumption DEF LadderInv, Closed
  <1>1. \A i \in 1..Len(waiting) : Closed(orders, waiting[i])
    BY <1>0 DEF ClosedWait
  <1>2. ASSUME NEW o \in 1..Len(orders), HandleClosed(o) PROVE LadderInv'
    <2>1. Closed(orders, o) /\ o \in Nat /\ Acquire(o) /\ UNCHANGED <<stored, enabled, initPc>>
      BY <1>2 DEF HandleClosed, Closed, redisVars
    <2>2. Aged(orders, orders')
      <3>1. orders[o] \in Order
        BY OrderTyped DEF LadderInv, OnceInv
      <3>2. orders' = [orders EXCEPT ![o] = [orders[o] EXCEPT !.told = @ + 1]]
        BY <1>2 DEF HandleClosed
      <3> QED
        BY <1>0, <3>1, <3>2 DEF Aged, Orders, Order
    <2>3. /\ orderGrid' = orderGrid
          /\ \/ jobs' = jobs
             \/ /\ ~ locked /\ orderGrid # None /\ LevelsOf(o) # {}
                /\ Submit("lock", Min(LevelsOf(o)), Opposite(orders[o].request.side), o)
      BY <2>1, AcquireCross
    <2>4. waiting' \in {waiting, Append(waiting, o)}
      BY <2>1 DEF Acquire
    <2>5. \A i \in 1..Len(waiting') : Closed(orders, waiting'[i])
      BY <1>0, <2>1, <2>4, WaitSteps
    <2> QED
      BY <2>1, <2>2, <2>3, <2>5, AgedStep
  <1>3. ASSUME NEW o \in 1..Len(orders), Fill(o) PROVE LadderInv'
    <2>1. UNCHANGED <<orderGrid, jobs, waiting, stored, enabled, initPc>>
      BY <1>3 DEF Fill, pluginVars, redisVars
    <2>2. Aged(orders, orders')
      <3>1. orders[o] \in Order
        BY OrderTyped DEF LadderInv, OnceInv
      <3>2. orders' = [orders EXCEPT ![o] = [orders[o] EXCEPT !.open = FALSE]]
        BY <1>3 DEF Fill
      <3> QED
        BY <1>0, <3>1, <3>2 DEF Aged, Orders, Order
    <2> QED
      BY <1>1, <2>1, <2>2, AgedStep
  <1>4. CASE HandleForeign
    <2> DEFINE o == MaxOrders + 1
    <2>1. Acquire(o) /\ UNCHANGED <<orders, stored, enabled, initPc>>
      BY <1>4 DEF HandleForeign, exchangeVars, redisVars
    <2>2. /\ orderGrid' = orderGrid
          /\ \/ jobs' = jobs
             \/ /\ ~ locked /\ orderGrid # None /\ LevelsOf(o) # {}
                /\ Submit("lock", Min(LevelsOf(o)), Opposite(orders[o].request.side), o)
      BY <2>1, AcquireCross
    <2>3. waiting' \in {waiting, Append(waiting, o)}
      BY <2>1 DEF Acquire
    <2>4. \A i \in 1..Len(waiting') : Closed(orders, waiting'[i])
      BY <1>0, <2>3, WaitSteps
    <2> QED
      BY <1>0, <2>1, <2>2, <2>4, AgedStep
  <1>5. CASE Dequeue
    <2> DEFINE o == Head(waiting)
    <2>1. /\ onLockAcquired(o) /\ ~ locked /\ waiting # <<>> /\ waiting' = Tail(waiting)
          /\ UNCHANGED <<orders, stored, enabled, initPc>>
      BY <1>5 DEF Dequeue, exchangeVars, redisVars
    <2>2. Closed(orders, o) /\ o \in Nat
      BY <1>0, <1>1, <2>1
    <2>3. /\ orderGrid' = orderGrid
          /\ \/ jobs' = jobs
             \/ /\ orderGrid # None /\ LevelsOf(o) # {}
                /\ Submit("lock", Min(LevelsOf(o)), Opposite(orders[o].request.side), o)
      BY <2>1, LockCross
    <2>4. \A i \in 1..Len(waiting') : Closed(orders, waiting'[i])
      BY <1>0, <2>1, <2>2, WaitSteps
    <2> HIDE DEF o
    <2> QED
      BY <1>0, <2>1, <2>2, <2>3, <2>4, AgedStep
  <1>6. CASE TimeoutWaiting
    <2>1. UNCHANGED <<orders, orderGrid, jobs, stored, enabled, initPc>>
          /\ waiting # <<>> /\ waiting' = Tail(waiting)
      BY <1>6 DEF TimeoutWaiting, exchangeVars, redisVars
    <2>2. \A i \in 1..Len(waiting') : Closed(orders, waiting'[i])
      BY <1>0, <2>1, WaitSteps
    <2> QED
      BY <1>0, <2>1, <2>2, AgedStep
  <1>7. CASE \E q \in Quote : CacheBook(q) \/ \E w \in Walk : HandleOrderBook(w, q)
    <2>1. UNCHANGED <<orders, orderGrid, jobs, waiting, stored, enabled, initPc>>
      BY <1>7 DEF CacheBook, HandleOrderBook, exchangeVars, redisVars
    <2> QED
      BY <1>0, <1>1, <2>1, AgedStep
  <1>8. CASE Enable
    <2>1. UNCHANGED <<orders, orderGrid, jobs, waiting>> /\ initPc' = "ready"
      BY <1>8 DEF Enable, exchangeVars
    <2>2. BeforeGrid'
      BY <2>1, GridLater DEF LadderInv
    <2> QED
      BY <2>1, <2>2 DEF LadderInv, ClosedWait
  <1>9. CASE UNCHANGED vars
    BY <1>0, <1>1, <1>9, AgedStep DEF vars, exchangeVars, pluginVars, redisVars
  <1> QED
    BY <1>2, <1>3, <1>4, <1>5, <1>6, <1>7, <1>8, <1>9

LEMMA InitializeLadder ==
    ASSUME CrossEnabled, LadderInv, OnceInv', CompleteInv', Start \/ Load \/ BeginInitLoop
    PROVE  LadderInv'
  <1>0. /\ orders \in Orders /\ jobs \in Jobs /\ jobs' \in Jobs
        /\ Asks(orders, jobs) /\ Steady(orders, jobs) /\ "lock" \in Caller /\ "init" \in Caller
        /\ "lock" # "init"
    BY LadderTyped, OnceTypedNext, NotLock DEF OnceInv, Caller
  <1>1. UNCHANGED <<orders, waiting>> /\ enabled' = enabled
    BY DEF Start, Load, BeginInitLoop, exchangeVars, redisVars
  <1>2. Len(orders') <= MaxOrders /\ ClosedWait'
    BY <1>1 DEF LadderInv, ClosedWait
  <1>3. CASE Start
    <2>1. /\ jobs' = jobs /\ \A c \in Caller : ~ Awaits(jobs, c) /\ jobs[c].order = NoId
          /\ initPc = "connecting" /\ orderGrid = None
      BY <1>0, <1>3 DEF Start, LadderInv, OnceInv, TypeInv, Boot, Busy, Awaits, Asks
    <2>2. CASE enabled /\ initPc' = "loading" /\ UNCHANGED <<orderGrid, stored>>
      <3>1. BeforeGrid'
        BY <1>1, <2>1, <2>2 DEF LadderInv, BeforeGrid, Remembered
      <3> QED
        BY <1>0, <1>1, <1>2, <2>1, <2>2, <3>1 DEF LadderInv
    <2>3. CASE ~ enabled /\ initPc' = "pushing" /\ orderGrid' = createOrderGrid
      <3>1. \A p \in 1..Len(orders) : ~ Known(orders, p)
        BY <2>1, <2>3 DEF LadderInv, BeforeGrid, Remembered
      <3>2. \A l \in Level : createOrderGrid[l].id = NoId
        BY DEF createOrderGrid
      <3>3. Steady(orders, jobs) /\ Ladder(createOrderGrid, orders, jobs)
        BY <1>0, <2>1, <3>1, <3>2, EmptyLadder
      <3>4. BeforeGrid'
        BY <1>1, <2>3, <3>1, <3>2 DEF BeforeGrid
      <3> QED
        BY <1>1, <1>2, <2>1, <2>3, <3>3, <3>4 DEF LadderInv
    <2> QED
      BY <1>3, <2>2, <2>3 DEF Start
  <1>4. CASE Load
    <2>1. /\ jobs' = jobs /\ \A c \in Caller : ~ Awaits(jobs, c)
          /\ initPc = "loading" /\ orderGrid' = stored /\ initPc' = "ready" /\ enabled
      BY <1>4 DEF Load, LadderInv, CompleteInv, OnceInv, TypeInv, Boot, Busy, Awaits
    <2>2. Holds(stored, orders, jobs)
      BY <2>1 DEF LadderInv, BeforeGrid
    <2>3. Tracks(stored, orders, jobs)
      BY <2>1 DEF LadderInv, BeforeGrid, Remembered, Tracks
    <2>4. Ladder(stored, orders, jobs)
      BY <1>0, <2>1, <2>2, <2>3 DEF Ladder, LockFits, InitFits
    <2>5. BeforeGrid'
      BY <1>1, <2>1, <2>4, GridLater
    <2> QED
      BY <1>0, <1>1, <1>2, <2>1, <2>4, <2>5 DEF LadderInv
  <1>5. CASE BeginInitLoop
    <2>1. /\ initPc = "pushing" /\ orderGrid' = orderGrid /\ InitLoop(Level, orderGrid)
      BY <1>5 DEF BeginInitLoop
    <2>2. /\ \A l \in Level : orderGrid[l].id = NoId
          /\ \A p \in 1..Len(orders) : ~ Known(orders, p)
      BY <2>1 DEF LadderInv, BeforeGrid
    <2>3. /\ Finish("init") \/ Submit("init", Min(Level), StartingSide(Min(Level)), NoId)
          /\ initPc' \in {"saving", "submitting"}
      BY <2>1, InitLoopCross
    <2>4. jobs'["init"].order = NoId /\ \A c \in Caller : c # "init" => jobs'[c] = jobs[c]
      BY <1>0, <2>3 DEF Finish, Submit, Idle, Asked, Jobs
    <2>5. \A c \in Caller : jobs'[c].order = NoId
      <3>1. \A c \in Caller : jobs[c].order # NoId => jobs[c].order \in 1..Len(orders) /\ Known(orders, jobs[c].order)
        BY <1>0 DEF Asks, Steady
      <3> QED
        BY <2>2, <2>4, <3>1
    <2>6. \A c \in Caller : Awaits(jobs', c) => c = "init" /\ jobs'[c].request \in OrderRequest
      <3>1. \A c \in Caller : ~ Awaits(jobs, c)
        BY <2>1, LadderTyped
      <3>2. \A c \in Caller : Awaits(jobs', c) => c = "init"
        BY <2>4, <3>1 DEF Awaits
      <3> QED
        BY <3>2 DEF OnceInv, TypeInv, Asking, Busy, Awaits
    <2>7. Steady(orders, jobs') /\ Ladder(orderGrid, orders, jobs')
      BY <1>0, <2>2, <2>5, <2>6, EmptyLadder
    <2>8. BeforeGrid'
      BY <1>1, <2>1, <2>3, <2>7, GridLater
    <2> QED
      BY <1>1, <1>2, <2>1, <2>7, <2>8 DEF LadderInv
  <1> QED
    BY <1>3, <1>4, <1>5

LEMMA LoseOutcome ==
    ASSUME OnceInv, NEW c \in Caller, LoseAnswer(c)
    PROVE  Outcome(orders, orders', jobs[c].order, NoId)
  <1> DEFINE o == jobs[c].order
  <1>1. orders \in Orders /\ Len(orders) \in Nat
    BY OnceTyped DEF OnceInv
  <1>2. CASE o = NoId
    <2>1. orders' = orders /\ \A p \in 1..Len(orders) : p # o
      BY <1>2 DEF LoseAnswer, NoId
    <2> QED
      BY <2>1 DEF Outcome
  <1>3. CASE o # NoId
    <2>1. o \in 1..Len(orders) /\ orders[o] \in Order
      BY <1>3, OrderTyped DEF OnceInv, Asks
    <2>2. orders' = [orders EXCEPT ![o] = [orders[o] EXCEPT !.lost = TRUE]]
      BY <1>3 DEF LoseAnswer
    <2>3. Len(orders') = Len(orders) /\ \A p \in 1..Len(orders) : p # o => orders'[p] = orders[p]
      BY <1>1, <2>1, <2>2 DEF Orders
    <2>4. orders'[o].request = orders[o].request /\ orders'[o].open = orders[o].open /\ orders'[o].lost
      BY <1>1, <2>1, <2>2 DEF Orders, Order
    <2> QED
      BY <2>3, <2>4 DEF Outcome
  <1> QED
    BY <1>2, <1>3

\* Whatever a submission ends with, the waiting orders are still closed.
LEMMA OutcomeWait ==
    ASSUME LadderInv, NEW o, NEW id, Outcome(orders, orders', o, id), waiting' = waiting
    PROVE  Len(orders') <= MaxOrders /\ ClosedWait'
  <1>1. Len(orders') = Len(orders)
        /\ \A p \in 1..Len(orders) : orders'[p].open = orders[p].open
    BY DEF Outcome
  <1> QED
    BY <1>1 DEF LadderInv, ClosedWait, Closed

\* What follows the answer with order id.
LEMMA ResumeLadder ==
    ASSUME CrossEnabled, Distance > 0, LadderInv, OnceInv', CompleteInv',
           NEW c \in Caller, Awaits(jobs, c), NEW id \in {jobs[c].order, NoId},
           Resume(c, id), Outcome(orders, orders', jobs[c].order, id)
    PROVE  LadderInv'
  <1> DEFINE r == jobs[c].request
             l == jobs[c].request.level
  <1>0. /\ orders \in Orders /\ orders' \in Orders /\ jobs \in Jobs /\ jobs' \in Jobs
        /\ Asks(orders, jobs) /\ Steady(orders, jobs) /\ Ladder(orderGrid, orders, jobs)
        /\ orderGrid \in Grid /\ c \in {"init", "lock"} /\ r \in OrderRequest /\ l \in Level
        /\ initPc \notin {"connecting", "loading", "pushing"}
    BY LadderTyped, OnceTypedNext DEF OnceInv
  <1>1. l \in Nat /\ (l + 1)..Levels \in SUBSET Level /\ Level \subseteq Nat /\ "lock" # "init"
    BY <1>0, GridAssumption, NotLock DEF Level
  <1>2. ASSUME waiting' = waiting, initPc' \notin {"connecting", "loading", "pushing"},
               \A d \in Caller \ {c} : jobs'[d] = jobs[d],
               jobs'[c].order = NoId,
               Awaits(jobs', c) => /\ c = "init" /\ jobs'[c].request \in OrderRequest
                                   /\ l < jobs'[c].request.level,
               \A k \in Level : orderGrid'[k].id = IF k = l THEN id ELSE orderGrid[k].id
        PROVE  LadderInv'
    <2>1. Steady(orders', jobs') /\ Ladder(orderGrid', orders', jobs')
      <3> DEFINE os2 == orders'
                 js2 == jobs'
                 g2 == orderGrid'
      <3>1. /\ orders \in Orders /\ os2 \in Orders /\ jobs \in Jobs
            /\ Asks(orders, jobs) /\ Steady(orders, jobs) /\ Ladder(orderGrid, orders, jobs)
        BY <1>0
      <3>2. Outcome(orders, os2, jobs[c].order, id)
        OBVIOUS
      <3>3. /\ \A d \in Caller \ {c} : js2[d] = jobs[d]
            /\ js2[c].order = NoId
        BY <1>2
      <3>4. Awaits(js2, c) => /\ c = "init" /\ js2[c].request \in OrderRequest
                              /\ jobs[c].request.level < js2[c].request.level
        BY <1>2
      <3>5. \A k \in Level : g2[k].id = IF k = jobs[c].request.level THEN id ELSE orderGrid[k].id
        BY <1>2
      <3> HIDE DEF os2, js2, g2
      <3>6. Steady(os2, js2) /\ Ladder(g2, os2, js2)
        BY <3>1, <3>2, <3>3, <3>4, <3>5, AnswerLadder
      <3> QED
        BY <3>6 DEF os2, js2, g2
    <2>2. BeforeGrid'
      BY <1>2, <2>1, GridLater
    <2> QED
      BY <1>2, <2>1, <2>2, OutcomeWait DEF LadderInv
  <1>3. CASE c = "lock"
    <2>1. /\ modifyOrderInGrid(Price(l), r.side, TRUE, id) /\ Finish("lock")
          /\ UNCHANGED <<initPc, waiting>>
      BY <1>1, <1>3, NotLock DEF Resume, AnswerLock
    <2>2. \A k \in Level : orderGrid'[k].id = IF k = l THEN id ELSE orderGrid[k].id
      <3>1. ASSUME NEW k \in Level PROVE Price(k) = Price(l) <=> k = l
        <4>1. Price(k) = Price(l) => k = l
          BY <1>0, PricesDiffer
        <4> QED
          BY <4>1
      <3> QED
        BY <2>1, <3>1 DEF modifyOrderInGrid
    <2>3. /\ \A d \in Caller \ {c} : jobs'[d] = jobs[d]
          /\ jobs'[c].order = NoId /\ ~ Awaits(jobs', c)
      BY <1>0, <1>3, <2>1 DEF Finish, Idle, Awaits, Jobs
    <2> QED
      BY <1>0, <1>2, <2>1, <2>2, <2>3
  <1>4. CASE c = "init"
    <2> DEFINE list == (l + 1)..Levels
    <2>1. /\ orderGrid' = SetLevel(l, id) /\ InitLoop(list, orderGrid') /\ waiting' = waiting
      BY <1>1, <1>4, GridAssumption DEF Resume, AnswerInit
    <2>2. \A k \in Level : orderGrid'[k].id = IF k = l THEN id ELSE orderGrid[k].id
      BY <1>0, <2>1, SetLevelEntries
    <2>3. CASE Finish("init") /\ initPc' = "saving"
      <3>1. /\ \A d \in Caller \ {c} : jobs'[d] = jobs[d]
            /\ jobs'[c].order = NoId /\ ~ Awaits(jobs', c)
        BY <1>0, <1>4, <2>3 DEF Finish, Idle, Awaits, Jobs
      <3> QED
        BY <1>2, <2>1, <2>2, <2>3, <3>1
    <2>4. CASE /\ list # {} /\ Submit("init", Min(list), StartingSide(Min(list)), NoId)
               /\ initPc' = "submitting"
      <3>1. Min(list) \in list
        BY <1>1, <2>4, MinIsLeast
      <3>2. Min(list) \in Nat /\ l < Min(list)
        BY <1>1, <3>1
      <3> DEFINE s == Request(Min(list), StartingSide(Min(list)), NoId)
      <3>3. s.level = Min(list)
        BY DEF Request
      <3>4. s \in OrderRequest
        BY <1>1, <3>1 DEF Request, OrderRequest, StartingSide, Side, NoId
      <3> HIDE DEF s
      <3>5. jobs' = [jobs EXCEPT !["init"] = Asked(s)]
        BY <2>4 DEF Submit, s
      <3>6. /\ \A d \in Caller \ {c} : jobs'[d] = jobs[d]
            /\ jobs'[c].order = NoId /\ jobs'[c].request = s
        BY <1>0, <1>4, <3>5 DEF Asked, Jobs
      <3> QED
        BY <1>2, <1>4, <2>1, <2>2, <2>4, <3>2, <3>3, <3>4, <3>6
    <2> QED
      BY <1>1, <2>1, <2>3, <2>4, InitLoopCross
  <1> QED
    BY <1>0, <1>3, <1>4

LEMMA AnsweredLadder ==
    ASSUME CrossEnabled, Distance > 0, LadderInv, OnceInv', CompleteInv',
           NEW c \in Caller, Answered(c)
    PROVE  LadderInv'
  <1>0. Awaits(jobs, c) /\ OnceInv
    BY DEF Answered, Answer, AnswerEmpty, Timeout, Awaits, LadderInv
  <1>1. CASE Answer(c)
    <2>1. Resume(c, jobs[c].order) /\ Outcome(orders, orders', jobs[c].order, jobs[c].order)
      BY <1>1 DEF Answer, Outcome
    <2> QED
      BY <1>0, <2>1, ResumeLadder
  <1>2. CASE AnswerEmpty(c)
    <2>1. Resume(c, NoId) /\ Outcome(orders, orders', jobs[c].order, NoId)
      BY <1>0, <1>2, LoseOutcome DEF AnswerEmpty
    <2> QED
      BY <1>0, <2>1, ResumeLadder
  <1>3. CASE Timeout(c)
    <2>1. /\ orders \in Orders /\ orders' \in Orders /\ jobs \in Jobs
          /\ Asks(orders, jobs) /\ Steady(orders, jobs) /\ Ladder(orderGrid, orders, jobs)
          /\ initPc \notin {"connecting", "loading", "pushing"}
      BY <1>0, LadderTyped, OnceTypedNext DEF OnceInv
    <2>2. /\ Outcome(orders, orders', jobs[c].order, NoId) /\ Finish(c)
          /\ orderGrid' = orderGrid /\ waiting' = waiting /\ initPc' \in {initPc, "failed"}
      BY <1>0, <1>3, LoseOutcome DEF Timeout
    <2>3. /\ \A d \in Caller \ {c} : jobs'[d] = jobs[d]
          /\ jobs'[c].order = NoId /\ ~ Awaits(jobs', c)
      BY <2>1, <2>2 DEF Finish, Idle, Awaits, Jobs
    <2>4. Steady(orders', jobs') /\ Ladder(orderGrid, orders', jobs')
      BY <1>0, <2>1, <2>2, <2>3, TimeoutLadder
    <2>5. BeforeGrid'
      BY <2>1, <2>2, <2>4, GridLater
    <2> QED
      BY <2>2, <2>4, <2>5, OutcomeWait DEF LadderInv
  <1> QED
    BY <1>1, <1>2, <1>3 DEF Answered

\* A restart knows at most one order of each level: the one of the stored grid.
LEMMA RestartLadder ==
    ASSUME LadderInv, OnceInv', CompleteInv', Restart
    PROVE  LadderInv'
  <1>0. orders \in Orders /\ Len(orders) \in Nat
    BY LadderTyped
  <1>1. /\ orderGrid' = None /\ jobs' = [c \in Caller |-> Idle] /\ waiting' = <<>>
        /\ initPc' = "connecting" /\ stored' = stored /\ enabled' = enabled
        /\ orders' = [o \in 1..Len(orders) |-> [orders[o] EXCEPT !.lost = @ \/ ~ Remembered(o)]]
    BY DEF Restart, redisVars
  <1>2. Len(orders') = Len(orders)
    BY <1>0, <1>1
  <1>3. \A p \in 1..Len(orders) :
           orders'[p].request = orders[p].request /\ (orders'[p].lost <=> orders[p].lost \/ ~ Remembered(p))
    <2>1. \A p \in 1..Len(orders) : orders[p] \in Order
      BY <1>0 DEF Orders
    <2> QED
      BY <1>1, <2>1 DEF Order
  <1>4. \A p : Known(orders', p) <=> Known(orders, p) /\ Remembered(p)
    BY <1>2, <1>3 DEF Known
  <1>5. \A p : Known(orders', p) => /\ p \in 1..Len(orders) /\ orders'[p].request = orders[p].request
                                   /\ enabled /\ stored[orders'[p].request.level].id = p
    BY <1>3, <1>4 DEF Known, Remembered
  <1>6. \A c \in Caller : jobs'[c].order = NoId /\ ~ Awaits(jobs', c)
    BY <1>1 DEF Idle, Awaits
  <1>7. Alternates(orders')
    <2> SUFFICES ASSUME NEW i \in 1..Len(orders'), NEW j \in 1..Len(orders'),
                        i < j, Known(orders', i), At(orders', j, orders'[i].request.level)
                 PROVE  FALSE
      BY DEF Alternates
    <2>1. i = j
      BY <1>5 DEF At
    <2> QED
      BY <2>1
  <1>8. Steady(orders', jobs')
    BY <1>6, <1>7 DEF Steady
  <1>9. enabled => Holds(stored, orders', jobs')
    <2> SUFFICES ASSUME enabled, NEW l \in Level, stored[l].id # NoId
                 PROVE  At(orders', stored[l].id, l) /\ ~ UnderWay(jobs', stored[l].id)
      BY DEF Holds
    <2>1. At(orders, stored[l].id, l)
      BY DEF LadderInv, BeforeGrid, Holds
    <2>2. Known(orders', stored[l].id) /\ orders'[stored[l].id].request.level = l
      BY <1>3, <1>4, <2>1 DEF At, Remembered, Known
    <2> QED
      BY <1>6, <2>2 DEF At, UnderWay
  <1>10. BeforeGrid'
    BY <1>1, <1>5, <1>9 DEF BeforeGrid, Remembered
  <1> QED
    BY <1>1, <1>2, <1>8, <1>10 DEF LadderInv, ClosedWait

LEMMA NextLadder ==
    ASSUME CrossEnabled, Distance > 0, LadderInv, [Next]_vars
    PROVE  LadderInv'
  <1>1. OnceInv' /\ CompleteInv'
    BY NextOnce, NextComplete DEF LadderInv
  <1> QED
    BY <1>1, ExchangeLadder, AnsweredLadder, ClosedLadder, InitializeLadder, RestartLadder
    DEF Next, Initialize

LEMMA LadderHolds == CrossEnabled /\ Distance > 0 => (Spec => []LadderInv)
  <1> SUFFICES ASSUME CrossEnabled, Distance > 0 PROVE Spec => []LadderInv
    OBVIOUS
  <1>1. LadderInv /\ [Next]_vars => LadderInv'
    BY NextLadder
  <1> QED
    BY <1>1, InitLadder, PTL DEF Spec

\* No open order is forgotten: with levels of their own price and orders that may match at
\* once, each order the plugin got an answer for is the one of its level while it is open,
\* through repeated reports, missing answers, orders of others and restarts.
THEOREM LiveTracked == CrossEnabled /\ Distance > 0 => (Spec => []LiveIsTracked)
  BY LadderHolds, LadderTracks, PTL

\* A level trades to and fro: the next order of a level comes behind a fill, on the other
\* side, whatever was lost and restarted between.
THEOREM LevelsTradeToAndFro == CrossEnabled /\ Distance > 0 => (Spec => []LevelsAlternate)
  BY LadderHolds, LadderAlternates, PTL

\* Initialize, which takes no lock, and the holder of the lock never submit for one level
\* at once: the lock is taken only for a level that has an order, which the levels
\* Initialize still goes through do not have.
THEOREM NoOverlap == CrossEnabled /\ Distance > 0 => (Spec => []SubmissionsDoNotOverlap)
  BY LadderHolds, LadderOverlap, PTL
=============================================================================
