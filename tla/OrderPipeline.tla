--------------------------- MODULE OrderPipeline ---------------------------
(***************************************************************************)
(* The life of the orders of one tenant on one exchange and symbol:        *)
(*                                                                         *)
(*   executor  createOrder / cancelOrder of TradingService                 *)
(*   exchange  accepts, fills and cancels orders (external)                *)
(*   gatherer  handleOrders, run for every answer of the watchOrders and   *)
(*             fetchOrders subscriptions                                   *)
(*   redis     the hash order.<tenant>.<id> and the watchOrders stream     *)
(*   magicbox  the reader of that stream and its list of orders            *)
(*                                                                         *)
(* Every await is a step boundary: other calls run in between.  An order   *)
(* is abstracted to its stage: the fields the gatherer compares (status,   *)
(* filled, amount, remaining) differ exactly when the stage does.          *)
(*                                                                         *)
(* Left out: the expiry of the hash after 7 days, the XTRIM of the stream  *)
(* to 1000 entries (the instances write fewer), and the answer the caller  *)
(* of the executor gets.                                                   *)
(***************************************************************************)
EXTENDS Naturals, Sequences, FiniteSets

CONSTANTS
    Order,               \* the order ids the exchange may hand out
    Creates,             \* create requests to the executor; each stands for its createdByModule
    Cancels,             \* cancel requests to the executor
    Slot,                \* bound: handleOrders calls that run at the same time
    None,                \* undefined
    Retries,             \* retriesBeforeStoppingOrderCreation
    MaxExecutorCrashes,  \* bound: crashes of the executor
    MaxGathererCrashes,  \* bound: crashes or restarts of the gatherer worker
    MaxMagicboxCrashes,  \* bound: crashes or restarts of the magicbox worker
    MaxRedisFailures     \* bound: commands Redis rejects, as when its connection breaks

ASSUME RetriesAssumption == Retries \in Nat \ {0}

ASSUME NoneAssumption == None \notin Order /\ None \notin Creates

VARIABLES
    stage,     \* exchange: the stage of each order
    pushes,    \* exchange: orders whose last change watchOrders has yet to answer
    createJob, \* executor: the createOrder call of each create request
    cancelJob, \* executor: the cancelOrder call of each cancel request
    calls,     \* gatherer: the running handleOrders calls
    fetched,   \* gatherer: orders older than lastTimestamp, no longer fetched
    hash,      \* redis: order.<tenant>.<id>, fields order and orderSource
    stream,    \* redis: the watchOrders stream
    read,      \* magicbox: entries of the stream handled
    orders,    \* magicbox: the cached list of orders
    crashes,   \* how often each process died, or Redis rejected a command
    lost       \* history: states the gatherer recorded and failed to announce

exchangeVars == <<stage, pushes>>
executorVars == <<createJob, cancelJob>>
gathererVars == <<calls, fetched>>
redisVars    == <<hash, stream>>
magicboxVars == <<read, orders>>
crashVars    == <<crashes, lost>>
vars == <<exchangeVars, executorVars, gathererVars, redisVars, magicboxVars, crashVars>>

-----------------------------------------------------------------------------
Final == {"closed", "canceled"}
Stage == {"absent", "open"} \cup Final
View  == [order : Order, stage : Stage]

\* pc names the await the call stands at.
CreateJob == [pc : {"requested", "createOrder", "fetchOrder", "xAdd", "hSet", "done", "failed"},
              attempts : Nat, order : Order \cup {None}, detail : Stage]
CancelJob == [pc : {"requested", "fetchOrder", "hSet", "done", "failed"},
              order : Order \cup {None}, detail : Stage]
Call      == [pc : {"idle", "hGet", "hSet", "xAdd"}, todo : SUBSET View,
              view : View \cup {None}, prev : Stage]

\* A call that holds nothing: not made yet, or lost with its process.
EmptyCreate(pc) == [pc |-> pc, attempts |-> 0, order |-> None, detail |-> "absent"]
EmptyCancel(pc) == [pc |-> pc, order |-> None, detail |-> "absent"]
NoCall      == [pc |-> "idle", todo |-> {}, view |-> None, prev |-> "absent"]

Process == {"executor", "gatherer", "magicbox", "redis"}

Existing == {o \in Order : stage[o] # "absent"}

\* Redis rejects a command.  One that was carried out and whose answer was lost
\* is that step followed by the rejection of the next.
Reject ==
    /\ crashes["redis"] < MaxRedisFailures
    /\ crashes' = [crashes EXCEPT !["redis"] = @ + 1]

SetHash(o, order, source) ==
    hash' = [hash EXCEPT ![o] = [order |-> order, orderSource |-> source]]

-----------------------------------------------------------------------------
(* The exchange *)

\* An order changes and watchOrders has something to answer.
Change(o, s) ==
    /\ stage' = [stage EXCEPT ![o] = s]
    /\ pushes' = pushes \cup {o}

Fill(o) ==
    /\ stage[o] = "open"
    /\ Change(o, "closed")
    /\ UNCHANGED <<executorVars, gathererVars, redisVars, magicboxVars, crashVars>>

-----------------------------------------------------------------------------
(* Executor: createOrder *)

SetCreate(r, pc, attempts, order, detail) ==
    /\ createJob' = [createJob EXCEPT ![r] =
          [pc |-> pc, attempts |-> attempts, order |-> order, detail |-> detail]]
    /\ UNCHANGED cancelJob

\* delayedPromiseRetry calls fn again, from the start, until the tries are used up.
AfterFailure(attempts) == IF attempts < Retries THEN "createOrder" ELSE "failed"

StartCreate(r) ==
    /\ createJob[r].pc = "requested"
    /\ SetCreate(r, "createOrder", 0, None, "absent")
    /\ UNCHANGED <<exchangeVars, gathererVars, redisVars, magicboxVars, crashVars>>

\* exchange.createOrder: the exchange accepts the order, which may fill at once,
\* and answers with its status, answers without one, or its answer is lost; or
\* it refuses.
CallCreateOrder(r) ==
    LET job   == createJob[r]
        tries == job.attempts + 1
    IN  /\ job.pc = "createOrder"
        /\ \/ \E o \in Order \ Existing, s \in {"open", "closed"} :
                 /\ Change(o, s)
                 /\ \/ SetCreate(r, "xAdd", tries, o, s)
                    \/ SetCreate(r, "fetchOrder", tries, o, "absent")
                    \/ SetCreate(r, AfterFailure(tries), tries, job.order, job.detail)
           \/ /\ SetCreate(r, AfterFailure(tries), tries, job.order, job.detail)
              /\ UNCHANGED exchangeVars
        /\ UNCHANGED <<gathererVars, redisVars, magicboxVars, crashVars>>

\* exchange.fetchOrder for an order whose answer had no status.
CallFetchOrder(r) ==
    LET job == createJob[r]
    IN  /\ job.pc = "fetchOrder"
        /\ \/ SetCreate(r, "xAdd", job.attempts, job.order, stage[job.order])
           \/ SetCreate(r, AfterFailure(job.attempts), job.attempts, job.order, job.detail)
        /\ UNCHANGED <<exchangeVars, gathererVars, redisVars, magicboxVars, crashVars>>

AnnounceCreated(r) ==
    LET job == createJob[r]
    IN  /\ job.pc = "xAdd"
        /\ stream' = Append(stream, [order |-> job.order, stage |-> job.detail])
        /\ SetCreate(r, "hSet", job.attempts, job.order, job.detail)
        /\ UNCHANGED <<exchangeVars, gathererVars, hash, magicboxVars, crashVars>>

RecordCreated(r) ==
    LET job == createJob[r]
    IN  /\ job.pc = "hSet"
        /\ SetHash(job.order, job.detail, r)
        /\ SetCreate(r, "done", job.attempts, job.order, job.detail)
        /\ UNCHANGED <<exchangeVars, gathererVars, stream, magicboxVars, crashVars>>

\* The error ends the call; nothing is retried or undone.
RejectCreated(r) ==
    /\ createJob[r].pc \in {"xAdd", "hSet"}
    /\ Reject
    /\ createJob' = [createJob EXCEPT ![r] = EmptyCreate("failed")]
    /\ UNCHANGED <<cancelJob, exchangeVars, gathererVars, redisVars, magicboxVars, lost>>

-----------------------------------------------------------------------------
(* Executor: cancelOrder *)

SetCancel(c, pc, order, detail) ==
    /\ cancelJob' = [cancelJob EXCEPT ![c] = [pc |-> pc, order |-> order, detail |-> detail]]
    /\ UNCHANGED createJob

\* The orders a caller can know: those magicbox lists and those the executor
\* answered with.
Known == {o \in Existing : \/ orders[o] # "absent"
                           \/ \E r \in Creates : createJob[r].pc = "done" /\ createJob[r].order = o}

\* exchange.cancelOrder: cancels an open order, or throws; the answer to a
\* cancellation may be lost.  Errors end the call.
CallCancelOrder(c) ==
    /\ cancelJob[c].pc = "requested"
    /\ \E o \in Known :
        \/ /\ stage[o] = "open"
           /\ Change(o, "canceled")
           /\ \E pc \in {"fetchOrder", "failed"} : SetCancel(c, pc, o, "absent")
        \/ /\ SetCancel(c, "failed", o, "absent")
           /\ UNCHANGED exchangeVars
    /\ UNCHANGED <<gathererVars, redisVars, magicboxVars, crashVars>>

FetchCanceled(c) ==
    LET job == cancelJob[c]
    IN  /\ job.pc = "fetchOrder"
        /\ \/ SetCancel(c, "hSet", job.order, stage[job.order])
           \/ SetCancel(c, "failed", job.order, "absent")
        /\ UNCHANGED <<exchangeVars, gathererVars, redisVars, magicboxVars, crashVars>>

RecordCanceled(c) ==
    LET job == cancelJob[c]
    IN  /\ job.pc = "hSet"
        /\ SetHash(job.order, job.detail, hash[job.order].orderSource)
        /\ SetCancel(c, "done", job.order, job.detail)
        /\ UNCHANGED <<exchangeVars, gathererVars, stream, magicboxVars, crashVars>>

RejectCanceled(c) ==
    /\ cancelJob[c].pc = "hSet"
    /\ Reject
    /\ cancelJob' = [cancelJob EXCEPT ![c] = EmptyCancel("failed")]
    /\ UNCHANGED <<createJob, exchangeVars, gathererVars, redisVars, magicboxVars, lost>>

-----------------------------------------------------------------------------
(* Gatherer: handleOrders *)

SetCall(h, call) == calls' = [calls EXCEPT ![h] = call]

Busy(pc, todo, view, prev) == [pc |-> pc, todo |-> todo, view |-> view, prev |-> prev]

\* The next order of the list a call works through, if there is one left.
Continue(todo) == IF todo = {} THEN NoCall ELSE Busy("hGet", todo, None, "absent")

ViewsOf(S) == {[order |-> o, stage |-> stage[o]] : o \in S}

\* watchOrders answers with the orders that changed since its last answer.
WatchOrders(h) ==
    /\ calls[h].pc = "idle"
    /\ pushes # {}
    /\ SetCall(h, Continue(ViewsOf(pushes)))
    /\ pushes' = {}
    /\ UNCHANGED <<stage, executorVars, fetched, redisVars, magicboxVars, crashVars>>

\* fetchOrders answers with the orders created since the newest one it answered
\* with before.
FetchOrders(h) ==
    /\ calls[h].pc = "idle"
    /\ Existing \ fetched # {}
    /\ SetCall(h, Continue(ViewsOf(Existing \ fetched)))
    /\ fetched' = Existing
    /\ UNCHANGED <<exchangeVars, executorVars, redisVars, magicboxVars, crashVars>>

GetPrevState(h) ==
    /\ calls[h].pc = "hGet"
    /\ \E v \in calls[h].todo :
        SetCall(h, Busy("hSet", calls[h].todo \ {v}, v, hash[v.order].order))
    /\ UNCHANGED <<exchangeVars, executorVars, fetched, redisVars, magicboxVars, crashVars>>

\* Variant: the stream hears only of orders that are new.
RecordOrderNewOnly(h) ==
    LET v == calls[h].view
    IN  /\ calls[h].pc = "hSet"
        /\ SetHash(v.order, v.stage, hash[v.order].orderSource)
        /\ SetCall(h, IF calls[h].prev = "absent" THEN Busy("xAdd", calls[h].todo, v, calls[h].prev)
                      ELSE Continue(calls[h].todo))
        /\ UNCHANGED <<exchangeVars, executorVars, fetched, stream, magicboxVars, crashVars>>

\* Variant: an order without a record is recorded only.
RecordOrderKnownOnly(h) ==
    LET v == calls[h].view
    IN  /\ calls[h].pc = "hSet"
        /\ SetHash(v.order, v.stage, hash[v.order].orderSource)
        /\ SetCall(h, IF calls[h].prev \notin {"absent", v.stage} THEN Busy("xAdd", calls[h].todo, v, calls[h].prev)
                      ELSE Continue(calls[h].todo))
        /\ UNCHANGED <<exchangeVars, executorVars, fetched, stream, magicboxVars, crashVars>>

\* Variant: the whole hash is replaced, not its field order.
RecordOrderWhole(h) ==
    LET v == calls[h].view
    IN  /\ calls[h].pc = "hSet"
        /\ SetHash(v.order, v.stage, None)
        /\ SetCall(h, IF calls[h].prev # v.stage THEN Busy("xAdd", calls[h].todo, v, calls[h].prev)
                      ELSE Continue(calls[h].todo))
        /\ UNCHANGED <<exchangeVars, executorVars, fetched, stream, magicboxVars, crashVars>>

\* The record is always overwritten; the stream hears of it when it changed.
RecordOrder(h) ==
    LET v == calls[h].view
    IN  /\ calls[h].pc = "hSet"
        /\ SetHash(v.order, v.stage, hash[v.order].orderSource)
        /\ SetCall(h, IF calls[h].prev # v.stage THEN Busy("xAdd", calls[h].todo, v, calls[h].prev)
                      ELSE Continue(calls[h].todo))
        /\ UNCHANGED <<exchangeVars, executorVars, fetched, stream, magicboxVars, crashVars>>

AnnounceOrder(h) ==
    /\ calls[h].pc = "xAdd"
    /\ stream' = Append(stream, calls[h].view)
    /\ SetCall(h, Continue(calls[h].todo))
    /\ UNCHANGED <<exchangeVars, executorVars, fetched, hash, magicboxVars, crashVars>>

\* The views that running calls recorded and have yet to announce.
Unannounced(H) == {calls[h].view : h \in {g \in H : calls[g].pc = "xAdd"}}

\* The rest of the list goes with the call.
RejectOrder(h) ==
    /\ calls[h].pc # "idle"
    /\ Reject
    /\ SetCall(h, NoCall)
    /\ lost' = lost \cup Unannounced({h})
    /\ UNCHANGED <<exchangeVars, executorVars, fetched, redisVars, magicboxVars>>

-----------------------------------------------------------------------------
(* Magicbox: the orders reader *)

handleOrdersMessage(data) == orders' = [orders EXCEPT ![data.order] = data.stage]

\* Variant: the reader skips the entry behind the one it read.
ReadOrderSkipping ==
    /\ read < Len(stream)
    /\ handleOrdersMessage(stream[read + 1])
    /\ read' = read + 2
    /\ UNCHANGED <<exchangeVars, executorVars, gathererVars, redisVars, crashVars>>

ReadOrder ==
    /\ read < Len(stream)
    /\ handleOrdersMessage(stream[read + 1])
    /\ read' = read + 1
    /\ UNCHANGED <<exchangeVars, executorVars, gathererVars, redisVars, crashVars>>

-----------------------------------------------------------------------------
(* Crashes: a process loses what it held in memory. *)

CrashExecutor ==
    /\ crashes["executor"] < MaxExecutorCrashes
    /\ crashes' = [crashes EXCEPT !["executor"] = @ + 1]
    /\ createJob' = [r \in Creates |->
          IF createJob[r].pc \in {"requested", "done"} THEN createJob[r]
          ELSE EmptyCreate("failed")]
    /\ cancelJob' = [c \in Cancels |->
          IF cancelJob[c].pc \in {"requested", "done"} THEN cancelJob[c]
          ELSE EmptyCancel("failed")]
    /\ UNCHANGED <<exchangeVars, gathererVars, redisVars, magicboxVars, lost>>

\* The new worker has missed what watchOrders would have answered, and fetches
\* all orders again.
CrashGatherer ==
    /\ crashes["gatherer"] < MaxGathererCrashes
    /\ crashes' = [crashes EXCEPT !["gatherer"] = @ + 1]
    /\ lost' = lost \cup Unannounced(Slot)
    /\ calls' = [h \in Slot |-> NoCall]
    /\ fetched' = {}
    /\ pushes' = {}
    /\ UNCHANGED <<stage, executorVars, redisVars, magicboxVars>>

\* There is no snapshot of the orders: the stream is read from its start.
CrashMagicbox ==
    /\ crashes["magicbox"] < MaxMagicboxCrashes
    /\ crashes' = [crashes EXCEPT !["magicbox"] = @ + 1]
    /\ read' = 0
    /\ orders' = [o \in Order |-> "absent"]
    /\ UNCHANGED <<exchangeVars, executorVars, gathererVars, redisVars, lost>>

-----------------------------------------------------------------------------
Init ==
    /\ stage = [o \in Order |-> "absent"]
    /\ pushes = {}
    /\ createJob = [r \in Creates |-> EmptyCreate("requested")]
    /\ cancelJob = [c \in Cancels |-> EmptyCancel("requested")]
    /\ calls = [h \in Slot |-> NoCall]
    /\ fetched = {}
    /\ hash = [o \in Order |-> [order |-> "absent", orderSource |-> None]]
    /\ stream = <<>>
    /\ read = 0
    /\ orders = [o \in Order |-> "absent"]
    /\ crashes = [p \in Process |-> 0]
    /\ lost = {}

Create(r) == \/ StartCreate(r) \/ CallCreateOrder(r) \/ CallFetchOrder(r)
             \/ AnnounceCreated(r) \/ RecordCreated(r) \/ RejectCreated(r)

Cancel(c) == \/ CallCancelOrder(c) \/ FetchCanceled(c)
             \/ RecordCanceled(c) \/ RejectCanceled(c)

HandleOrders(h) == \/ GetPrevState(h) \/ RecordOrder(h)
                   \/ AnnounceOrder(h) \/ RejectOrder(h)

Subscription(h) == WatchOrders(h) \/ FetchOrders(h)

Next ==
    \/ \E o \in Order : Fill(o)
    \/ \E r \in Creates : Create(r)
    \/ \E c \in Cancels : Cancel(c)
    \/ \E h \in Slot : Subscription(h) \/ HandleOrders(h)
    \/ ReadOrder
    \/ CrashExecutor \/ CrashGatherer \/ CrashMagicbox

Spec == Init /\ [][Next]_vars

\* A call that has begun is carried on by its process, the gatherer's loops keep
\* asking the exchange and the reader's loop keeps reading.  Nothing makes a
\* request arrive, an order fill or a process crash.
FairSpec ==
    /\ Spec
    /\ \A r \in Creates : WF_vars(Create(r) /\ createJob[r].pc # "requested")
    /\ \A c \in Cancels : WF_vars(Cancel(c) /\ cancelJob[c].pc # "requested")
    /\ \A h \in Slot : WF_vars(HandleOrders(h))
    /\ WF_vars(\E h \in Slot : Subscription(h))
    /\ WF_vars(ReadOrder)

-----------------------------------------------------------------------------
(* Properties *)

TypeOK ==
    /\ stage \in [Order -> Stage]
    /\ pushes \subseteq Order
    /\ createJob \in [Creates -> CreateJob]
    /\ cancelJob \in [Cancels -> CancelJob]
    /\ calls \in [Slot -> Call]
    /\ fetched \subseteq Order
    /\ hash \in [Order -> [order : Stage, orderSource : Creates \cup {None}]]
    /\ stream \in Seq(View)
    /\ read \in Nat /\ read <= Len(stream)
    /\ orders \in [Order -> Stage]
    /\ crashes \in [Process -> Nat]
    /\ lost \subseteq View

\* v is in the stream, or a handleOrders call is about to put it there.
Announced(v) == \E i \in 1..Len(stream) : stream[i] = v

BeingAnnounced(v) == \E h \in Slot : calls[h].pc = "xAdd" /\ calls[h].view = v

CanceledBy(c, v) ==
    /\ cancelJob[c].pc = "done"
    /\ cancelJob[c].order = v.order
    /\ cancelJob[c].detail = v.stage

\* v is in the stream or on its way there.  The two exceptions: a state recorded
\* by cancelOrder, and one the gatherer lost (died, or was rejected) between its
\* hSet and its xAdd.
Accounted(v) ==
    \/ v.stage = "absent"
    \/ Announced(v)
    \/ BeingAnnounced(v)
    \/ \E c \in Cancels : CanceledBy(c, v)
    \/ v \in lost

\* Whatever order of awaits the executor and the overlapping handleOrders calls
\* take, a state recorded in the hash is in the stream or about to be announced, but
\* for those cancelOrder recorded and those a gatherer recorded and failed to announce.
RecordedIsAnnounced ==
    \A o \in Order : Accounted([order |-> o, stage |-> hash[o].order])

Unretried(r) == createJob[r].pc = "done" /\ createJob[r].attempts = 1

\* Every order is attributed to the module that asked for it once all requests
\* went through at the first attempt, however the gatherer's writes to the same
\* hash fall between those of the executor.
AttributedUnlessRetried ==
    (\A r \in Creates : Unretried(r) \/ createJob[r].pc = "requested") =>
        \A o \in Existing : \E r \in Creates : createJob[r].order = o /\ hash[o].orderSource = r

\* README.md:65, "(magicbox) gets all orders": every order the exchange accepted
\* ends up in the list of magicbox, also one the executor never heard of.
EventuallyListed ==
    \A o \in Order : (stage[o] # "absent") ~> (orders[o] # "absent")

\* README.md:65, magicbox gets the order "with latest fill and other additional
\* data": it ends up with the final state of every order.
EventuallyFinal ==
    \A o \in Order : <>[](stage[o] \in Final => orders[o] = stage[o])
=============================================================================
