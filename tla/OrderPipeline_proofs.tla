------------------------ MODULE OrderPipeline_proofs ------------------------
(***************************************************************************)
(* RecordedIsAnnounced and AttributedUnlessRetried for any number of       *)
(* orders, requests and overlapping handleOrders calls.                    *)
(***************************************************************************)
EXTENDS OrderPipeline, TLAPS

\* What a handleOrders call read before it writes is accounted for: when it finds
\* its own view there it says nothing, relying on whoever recorded it.
PrevIsAccounted ==
    \A h \in Slot : calls[h].pc = "hSet" =>
        Accounted([order |-> calls[h].view.order, stage |-> calls[h].prev])

\* The executor announces a new order before it records it.
CreatedIsAnnounced ==
    \A r \in Creates : createJob[r].pc = "hSet" =>
        Announced([order |-> createJob[r].order, stage |-> createJob[r].detail])

JobsNameOrders ==
    /\ \A r \in Creates : createJob[r].pc \in {"fetchOrder", "xAdd", "hSet"} => createJob[r].order \in Order
    /\ \A c \in Cancels : cancelJob[c].pc \in {"fetchOrder", "hSet"} => cancelJob[c].order \in Order
    /\ \A h \in Slot : calls[h].pc \in {"hSet", "xAdd"} => calls[h].view \in View

AccountInv == TypeOK /\ JobsNameOrders /\ PrevIsAccounted /\ CreatedIsAnnounced /\ RecordedIsAnnounced

-----------------------------------------------------------------------------
(* Type correctness *)

TypeInv == TypeOK /\ JobsNameOrders

LEMMA InitTypeInv == Init => TypeInv
  <1> SUFFICES ASSUME Init
               PROVE  TypeInv
    OBVIOUS
  <1>1. stage \in [Order -> Stage] /\ orders \in [Order -> Stage]
    BY DEF Init, Stage
  <1>2. createJob \in [Creates -> CreateJob] /\ cancelJob \in [Cancels -> CancelJob]
    BY DEF Init, EmptyCreate, EmptyCancel, CreateJob, CancelJob, Stage
  <1>3. calls \in [Slot -> Call]
    BY DEF Init, NoCall, Call, Stage
  <1>4. hash \in [Order -> [order : Stage, orderSource : Creates \cup {None}]]
    BY DEF Init, Stage
  <1>5. crashes \in [Process -> Nat] /\ lost \subseteq View
    BY DEF Init
  <1>6. stream \in Seq(View) /\ read \in Nat /\ read <= Len(stream)
    BY DEF Init
  <1>7. pushes \subseteq Order /\ fetched \subseteq Order
    BY DEF Init
  <1>8. JobsNameOrders
    BY DEF Init, EmptyCreate, EmptyCancel, NoCall, JobsNameOrders
  <1> QED
    BY <1>1, <1>2, <1>3, <1>4, <1>5, <1>6, <1>7, <1>8 DEF TypeOK, TypeInv

\* Writing a well-formed job of a create request keeps the jobs well formed.
LEMMA SetCreateType ==
    ASSUME TypeInv, NEW r \in Creates, NEW pc, NEW attempts \in Nat,
           NEW order \in Order \cup {None}, NEW detail \in Stage,
           pc \in {"requested", "createOrder", "fetchOrder", "xAdd", "hSet", "done", "failed"},
           pc \in {"fetchOrder", "xAdd", "hSet"} => order \in Order,
           SetCreate(r, pc, attempts, order, detail)
    PROVE  /\ createJob' \in [Creates -> CreateJob]
           /\ cancelJob' = cancelJob
           /\ createJob'[r] = [pc |-> pc, attempts |-> attempts, order |-> order, detail |-> detail]
           /\ \A q \in Creates : q # r => createJob'[q] = createJob[q]
           /\ \A q \in Creates : createJob'[q].pc \in {"fetchOrder", "xAdd", "hSet"}
                                     => createJob'[q].order \in Order
  <1>1. [pc |-> pc, attempts |-> attempts, order |-> order, detail |-> detail] \in CreateJob
    BY DEF CreateJob
  <1> QED
    BY <1>1 DEF TypeInv, TypeOK, JobsNameOrders, crashVars, SetCreate

LEMMA SetCancelType ==
    ASSUME TypeInv, NEW c \in Cancels, NEW order \in Order, NEW detail \in Stage,
           NEW pc \in {"requested", "fetchOrder", "hSet", "done", "failed"},
           SetCancel(c, pc, order, detail)
    PROVE  /\ cancelJob' \in [Cancels -> CancelJob]
           /\ createJob' = createJob
           /\ cancelJob'[c] = [pc |-> pc, order |-> order, detail |-> detail]
           /\ \A d \in Cancels : d # c => cancelJob'[d] = cancelJob[d]
           /\ \A d \in Cancels : cancelJob'[d].pc \in {"fetchOrder", "hSet"}
                                     => cancelJob'[d].order \in Order
  <1>1. [pc |-> pc, order |-> order, detail |-> detail] \in CancelJob
    BY DEF CancelJob
  <1> QED
    BY <1>1 DEF TypeInv, TypeOK, JobsNameOrders, crashVars, SetCancel

LEMMA SetCallType ==
    ASSUME TypeInv, NEW h \in Slot, NEW call \in Call, SetCall(h, call),
           call.pc \in {"hSet", "xAdd"} => call.view \in View
    PROVE  /\ calls' \in [Slot -> Call]
           /\ calls'[h] = call
           /\ \A g \in Slot : g # h => calls'[g] = calls[g]
           /\ \A g \in Slot : calls'[g].pc \in {"hSet", "xAdd"} => calls'[g].view \in View
  BY DEF TypeInv, TypeOK, JobsNameOrders, crashVars, SetCall

LEMMA SetHashType ==
    ASSUME TypeInv, NEW o \in Order, NEW s \in Stage, NEW source \in Creates \cup {None},
           SetHash(o, s, source)
    PROVE  /\ hash' \in [Order -> [order : Stage, orderSource : Creates \cup {None}]]
           /\ hash'[o].order = s
           /\ \A p \in Order : p # o => hash'[p] = hash[p]
  BY DEF TypeInv, TypeOK, SetHash

\* An appended view keeps the stream well formed and the reader behind its end.
LEMMA AppendType ==
    ASSUME TypeInv, NEW v \in View, stream' = Append(stream, v), read' = read
    PROVE  stream' \in Seq(View) /\ read' \in Nat /\ read' <= Len(stream')
  BY DEF TypeInv, TypeOK

\* A call goes on with its list, or is over.
LEMMA ContinueType ==
    ASSUME NEW todo \in SUBSET View
    PROVE  /\ Continue(todo) \in Call
           /\ Continue(todo).pc \in {"idle", "hGet"}
  BY DEF Continue, Busy, NoCall, Call, Stage

LEMMA ChangeType ==
    ASSUME TypeInv, NEW o \in Order, NEW s \in Stage, Change(o, s)
    PROVE  stage' \in [Order -> Stage] /\ pushes' \subseteq Order
  BY DEF TypeInv, TypeOK, Change

LEMMA ViewsOfType ==
    ASSUME TypeInv, NEW S \in SUBSET Order
    PROVE  ViewsOf(S) \in SUBSET View
  BY DEF TypeInv, TypeOK, ViewsOf, View

LEMMA RejectType ==
    ASSUME TypeInv, Reject
    PROVE  crashes' \in [Process -> Nat]
  BY DEF TypeInv, TypeOK, Reject, Process

LEMMA UnannouncedType ==
    ASSUME TypeInv, NEW H \in SUBSET Slot
    PROVE  Unannounced(H) \subseteq View
  BY DEF TypeInv, JobsNameOrders, Unannounced

\* The steps of a createOrder call.
LEMMA CreateTypeInv ==
    ASSUME TypeInv, NEW r \in Creates, Create(r)
    PROVE  TypeInv'
  <1> DEFINE job == createJob[r]
  <1>1. /\ job.attempts \in Nat /\ job.order \in Order \cup {None} /\ job.detail \in Stage
        /\ job.pc \in {"fetchOrder", "xAdd", "hSet"} => job.order \in Order
    BY DEF TypeInv, TypeOK, CreateJob, JobsNameOrders
  <1>2. \A n \in Nat : AfterFailure(n) \in {"createOrder", "failed"}
    BY DEF AfterFailure
  <1>3. CASE StartCreate(r)
    <2>1. None \in Order \cup {None} /\ "absent" \in Stage /\ 0 \in Nat
      BY DEF Stage
    <2> QED
      BY <1>3, <2>1, SetCreateType DEF StartCreate, TypeInv, TypeOK, JobsNameOrders, crashVars,
         exchangeVars, gathererVars, redisVars, magicboxVars
  <1>4. CASE CallCreateOrder(r)
    <2>1. "open" \in Stage /\ "closed" \in Stage /\ "absent" \in Stage
      BY DEF Stage, Final
    <2>2. stage' \in [Order -> Stage] /\ pushes' \subseteq Order
      BY <1>4, <2>1, ChangeType DEF CallCreateOrder, TypeInv, TypeOK, exchangeVars
    <2>3. \/ \E o \in Order, s \in Stage : SetCreate(r, "xAdd", job.attempts + 1, o, s)
          \/ \E o \in Order : SetCreate(r, "fetchOrder", job.attempts + 1, o, "absent")
          \/ SetCreate(r, AfterFailure(job.attempts + 1), job.attempts + 1, job.order, job.detail)
      BY <1>4, <2>1 DEF CallCreateOrder
    <2>4. job.attempts + 1 \in Nat
      BY <1>1
    <2> DEFINE Made == /\ createJob' \in [Creates -> CreateJob]
                       /\ cancelJob' = cancelJob
                       /\ \A q \in Creates : createJob'[q].pc \in {"fetchOrder", "xAdd", "hSet"}
                                                 => createJob'[q].order \in Order
    <2>5. ASSUME NEW o \in Order, NEW s \in Stage, SetCreate(r, "xAdd", job.attempts + 1, o, s)
          PROVE  Made
      BY <2>4, <2>5, SetCreateType
    <2>6. ASSUME NEW o \in Order, SetCreate(r, "fetchOrder", job.attempts + 1, o, "absent")
          PROVE  Made
      BY <2>1, <2>4, <2>6, SetCreateType
    <2>7. ASSUME SetCreate(r, AfterFailure(job.attempts + 1), job.attempts + 1, job.order, job.detail)
          PROVE  Made
      <3>1. AfterFailure(job.attempts + 1) \in {"createOrder", "failed"}
        BY <1>2, <2>4
      <3> QED
        BY <1>1, <2>4, <2>7, <3>1, SetCreateType
    <2>8. Made
      BY <2>3, <2>5, <2>6, <2>7
    <2> QED
      BY <1>4, <2>2, <2>8 DEF CallCreateOrder, TypeInv, TypeOK, JobsNameOrders, crashVars,
         gathererVars, redisVars, magicboxVars
  <1>5. CASE CallFetchOrder(r)
    <2>1. job.order \in Order /\ stage[job.order] \in Stage
      BY <1>1, <1>5 DEF CallFetchOrder, TypeInv, TypeOK
    <2> QED
      BY <1>1, <1>2, <1>5, <2>1, SetCreateType DEF CallFetchOrder, TypeInv, TypeOK, JobsNameOrders, crashVars,
         exchangeVars, gathererVars, redisVars, magicboxVars
  <1>6. CASE AnnounceCreated(r)
    <2>1. [order |-> job.order, stage |-> job.detail] \in View
      BY <1>1, <1>6 DEF AnnounceCreated, View
    <2>2. stream' \in Seq(View) /\ read' \in Nat /\ read' <= Len(stream')
      BY <1>6, <2>1, AppendType DEF AnnounceCreated, magicboxVars
    <2> QED
      BY <1>1, <1>6, <2>2, SetCreateType DEF AnnounceCreated, TypeInv, TypeOK, JobsNameOrders, crashVars,
         exchangeVars, gathererVars, magicboxVars
  <1>7. CASE RecordCreated(r)
    <2>1. hash' \in [Order -> [order : Stage, orderSource : Creates \cup {None}]]
      BY <1>1, <1>7, SetHashType DEF RecordCreated
    <2> QED
      BY <1>1, <1>7, <2>1, SetCreateType DEF RecordCreated, TypeInv, TypeOK, JobsNameOrders, crashVars,
         exchangeVars, gathererVars, magicboxVars
  <1>8. CASE RejectCreated(r)
    <2>1. EmptyCreate("failed") \in CreateJob /\ EmptyCreate("failed").pc = "failed"
      BY DEF EmptyCreate, CreateJob, Stage
    <2>2. crashes' \in [Process -> Nat]
      BY <1>8, RejectType DEF RejectCreated
    <2> QED
      BY <1>8, <2>1, <2>2 DEF RejectCreated, TypeInv, TypeOK, JobsNameOrders,
         exchangeVars, gathererVars, redisVars, magicboxVars
  <1> QED
    BY <1>3, <1>4, <1>5, <1>6, <1>7, <1>8 DEF Create

\* The steps of a cancelOrder call.
LEMMA CancelTypeInv ==
    ASSUME TypeInv, NEW c \in Cancels, Cancel(c)
    PROVE  TypeInv'
  <1> DEFINE job == cancelJob[c]
  <1>1. /\ job.detail \in Stage
        /\ job.pc \in {"fetchOrder", "hSet"} => job.order \in Order
        /\ "absent" \in Stage /\ "canceled" \in Stage
    BY DEF TypeInv, TypeOK, CancelJob, JobsNameOrders, Stage, Final
  <1>2. CASE CallCancelOrder(c)
    <2>1. PICK o \in Order, pc \in {"fetchOrder", "failed"} :
            /\ Change(o, "canceled") \/ UNCHANGED exchangeVars
            /\ SetCancel(c, pc, o, "absent")
      BY <1>2 DEF CallCancelOrder, Known, Existing
    <2>2. stage' \in [Order -> Stage] /\ pushes' \subseteq Order
      BY <1>1, <2>1, ChangeType DEF TypeInv, TypeOK, exchangeVars
    <2>3. pc \in {"requested", "fetchOrder", "hSet", "done", "failed"}
      BY <2>1
    <2>4. /\ cancelJob' \in [Cancels -> CancelJob]
          /\ createJob' = createJob
          /\ \A d \in Cancels : cancelJob'[d].pc \in {"fetchOrder", "hSet"}
                                    => cancelJob'[d].order \in Order
      BY <1>1, <2>1, <2>3, SetCancelType
    <2> QED
      BY <1>2, <2>2, <2>4 DEF CallCancelOrder, TypeInv, TypeOK, JobsNameOrders, crashVars,
         gathererVars, redisVars, magicboxVars
  <1>3. CASE FetchCanceled(c)
    <2>1. job.order \in Order /\ stage[job.order] \in Stage
      BY <1>1, <1>3 DEF FetchCanceled, TypeInv, TypeOK
    <2> QED
      BY <1>1, <1>3, <2>1, SetCancelType DEF FetchCanceled, TypeInv, TypeOK, JobsNameOrders, crashVars,
         exchangeVars, gathererVars, redisVars, magicboxVars
  <1>4. CASE RecordCanceled(c)
    <2>1. job.order \in Order /\ hash[job.order].orderSource \in Creates \cup {None}
      BY <1>1, <1>4 DEF RecordCanceled, TypeInv, TypeOK
    <2>2. hash' \in [Order -> [order : Stage, orderSource : Creates \cup {None}]]
      BY <1>1, <1>4, <2>1, SetHashType DEF RecordCanceled
    <2> QED
      BY <1>1, <1>4, <2>1, <2>2, SetCancelType DEF RecordCanceled, TypeInv, TypeOK, JobsNameOrders, crashVars,
         exchangeVars, gathererVars, magicboxVars
  <1>5. CASE RejectCanceled(c)
    <2>1. EmptyCancel("failed") \in CancelJob /\ EmptyCancel("failed").pc = "failed"
      BY DEF EmptyCancel, CancelJob, Stage
    <2>2. crashes' \in [Process -> Nat]
      BY <1>5, RejectType DEF RejectCanceled
    <2> QED
      BY <1>5, <2>1, <2>2 DEF RejectCanceled, TypeInv, TypeOK, JobsNameOrders,
         exchangeVars, gathererVars, redisVars, magicboxVars
  <1> QED
    BY <1>2, <1>3, <1>4, <1>5 DEF Cancel

\* The steps of a handleOrders call, from the answer that starts it.
LEMMA GathererTypeInv ==
    ASSUME TypeInv, NEW h \in Slot, Subscription(h) \/ HandleOrders(h)
    PROVE  TypeInv'
  <1> DEFINE call == calls[h]
  <1>1. /\ call.todo \in SUBSET View /\ call.view \in View \cup {None} /\ call.prev \in Stage
        /\ call.pc \in {"hSet", "xAdd"} => call.view \in View
        /\ None \in View \cup {None} /\ "absent" \in Stage
    BY DEF TypeInv, TypeOK, Call, JobsNameOrders, Stage
  <1>2. \A v \in View : v.order \in Order /\ v.stage \in Stage
    BY DEF View
  <1>3. CASE WatchOrders(h)
    <2>1. /\ Continue(ViewsOf(pushes)) \in Call
          /\ Continue(ViewsOf(pushes)).pc \in {"idle", "hGet"}
      BY ViewsOfType, ContinueType DEF TypeInv, TypeOK
    <2>2. /\ calls' \in [Slot -> Call]
          /\ \A g \in Slot : calls'[g].pc \in {"hSet", "xAdd"} => calls'[g].view \in View
      BY <1>3, <2>1, SetCallType DEF WatchOrders
    <2> QED
      BY <1>3, <2>2 DEF WatchOrders, TypeInv, TypeOK, JobsNameOrders, crashVars,
         executorVars, redisVars, magicboxVars
  <1>4. CASE FetchOrders(h)
    <2>1. Existing \in SUBSET Order /\ Existing \ fetched \in SUBSET Order
      BY DEF Existing
    <2>2. /\ Continue(ViewsOf(Existing \ fetched)) \in Call
          /\ Continue(ViewsOf(Existing \ fetched)).pc \in {"idle", "hGet"}
      BY <2>1, ViewsOfType, ContinueType
    <2>3. /\ calls' \in [Slot -> Call]
          /\ \A g \in Slot : calls'[g].pc \in {"hSet", "xAdd"} => calls'[g].view \in View
      BY <1>4, <2>2, SetCallType DEF FetchOrders
    <2> QED
      BY <1>4, <2>1, <2>3 DEF FetchOrders, TypeInv, TypeOK, JobsNameOrders, crashVars,
         exchangeVars, executorVars, redisVars, magicboxVars
  <1>5. CASE GetPrevState(h)
    <2>1. PICK v \in call.todo :
            SetCall(h, Busy("hSet", call.todo \ {v}, v, hash[v.order].order))
      BY <1>5 DEF GetPrevState
    <2>2. v \in View /\ hash[v.order].order \in Stage /\ call.todo \ {v} \in SUBSET View
      BY <1>1, <1>2, <2>1 DEF TypeInv, TypeOK
    <2>3. /\ Busy("hSet", call.todo \ {v}, v, hash[v.order].order) \in Call
          /\ Busy("hSet", call.todo \ {v}, v, hash[v.order].order).view \in View
      BY <2>2 DEF Busy, Call
    <2>4. /\ calls' \in [Slot -> Call]
          /\ \A g \in Slot : calls'[g].pc \in {"hSet", "xAdd"} => calls'[g].view \in View
      BY <2>1, <2>3, SetCallType
    <2> QED
      BY <1>5, <2>4 DEF GetPrevState, TypeInv, TypeOK, JobsNameOrders, crashVars,
         exchangeVars, executorVars, redisVars, magicboxVars
  <1>6. CASE RecordOrder(h)
    <2>1. call.view \in View
      BY <1>1, <1>6 DEF RecordOrder
    <2>2. call.view.order \in Order /\ call.view.stage \in Stage
      BY <1>2, <2>1
    <2>3. hash[call.view.order].orderSource \in Creates \cup {None}
      BY <2>2 DEF TypeInv, TypeOK
    <2>4. hash' \in [Order -> [order : Stage, orderSource : Creates \cup {None}]]
      BY <1>6, <2>2, <2>3, SetHashType DEF RecordOrder
    <2>5. /\ Continue(call.todo) \in Call
          /\ Continue(call.todo).pc \in {"idle", "hGet"}
      BY <1>1, ContinueType
    <2>6. /\ Busy("xAdd", call.todo, call.view, call.prev) \in Call
          /\ Busy("xAdd", call.todo, call.view, call.prev).view \in View
      BY <1>1, <2>1 DEF Busy, Call
    <2>7. PICK next \in Call : /\ SetCall(h, next)
                               /\ next.pc \in {"hSet", "xAdd"} => next.view \in View
      BY <1>6, <2>5, <2>6 DEF RecordOrder
    <2>8. /\ calls' \in [Slot -> Call]
          /\ \A g \in Slot : calls'[g].pc \in {"hSet", "xAdd"} => calls'[g].view \in View
      BY <2>7, SetCallType
    <2> QED
      BY <1>6, <2>4, <2>8 DEF RecordOrder, TypeInv, TypeOK, JobsNameOrders, crashVars,
         exchangeVars, executorVars, magicboxVars
  <1>7. CASE AnnounceOrder(h)
    <2>1. stream' \in Seq(View) /\ read' \in Nat /\ read' <= Len(stream')
      BY <1>1, <1>7, AppendType DEF AnnounceOrder, magicboxVars
    <2>2. /\ Continue(call.todo) \in Call
          /\ Continue(call.todo).pc \in {"idle", "hGet"}
      BY <1>1, ContinueType
    <2>3. /\ calls' \in [Slot -> Call]
          /\ \A g \in Slot : calls'[g].pc \in {"hSet", "xAdd"} => calls'[g].view \in View
      BY <1>7, <2>2, SetCallType DEF AnnounceOrder
    <2> QED
      BY <1>7, <2>1, <2>3 DEF AnnounceOrder, TypeInv, TypeOK, JobsNameOrders, crashVars,
         exchangeVars, executorVars, magicboxVars
  <1>8. CASE RejectOrder(h)
    <2>1. NoCall \in Call /\ NoCall.pc = "idle"
      BY DEF NoCall, Call, Stage
    <2>2. /\ calls' \in [Slot -> Call]
          /\ \A g \in Slot : calls'[g].pc \in {"hSet", "xAdd"} => calls'[g].view \in View
      BY <1>8, <2>1, SetCallType DEF RejectOrder
    <2>3. crashes' \in [Process -> Nat]
      BY <1>8, RejectType DEF RejectOrder
    <2>4. lost' \subseteq View
      BY <1>8, UnannouncedType DEF RejectOrder, TypeInv, TypeOK
    <2> QED
      BY <1>8, <2>2, <2>3, <2>4 DEF RejectOrder, TypeInv, TypeOK, JobsNameOrders,
         exchangeVars, executorVars, redisVars, magicboxVars
  <1> QED
    BY <1>3, <1>4, <1>5, <1>6, <1>7, <1>8 DEF Subscription, HandleOrders

LEMMA NextTypeInv == TypeInv /\ [Next]_vars => TypeInv'
  <1> SUFFICES ASSUME TypeInv, [Next]_vars
               PROVE  TypeInv'
    OBVIOUS
  <1>1. ASSUME NEW o \in Order, Fill(o)
        PROVE  TypeInv'
    <2>1. "closed" \in Stage
      BY DEF Stage, Final
    <2>2. stage' \in [Order -> Stage] /\ pushes' \subseteq Order
      BY <1>1, <2>1, ChangeType DEF Fill
    <2> QED
      BY <1>1, <2>2 DEF Fill, TypeInv, TypeOK, JobsNameOrders, crashVars,
         executorVars, gathererVars, redisVars, magicboxVars
  <1>2. CASE ReadOrder
    <2>1. stream[read + 1] \in View
      BY <1>2 DEF ReadOrder, TypeInv, TypeOK
    <2>2. stream[read + 1].order \in Order /\ stream[read + 1].stage \in Stage
      BY <2>1 DEF View
    <2>3. orders' \in [Order -> Stage]
      BY <1>2, <2>2 DEF ReadOrder, handleOrdersMessage, TypeInv, TypeOK
    <2>4. read' \in Nat /\ read' <= Len(stream)
      BY <1>2 DEF ReadOrder, TypeInv, TypeOK
    <2> QED
      BY <1>2, <2>3, <2>4 DEF ReadOrder, TypeInv, TypeOK, JobsNameOrders, crashVars,
         exchangeVars, executorVars, gathererVars, redisVars
  <1>3. \A p \in Process : [crashes EXCEPT ![p] = @ + 1] \in [Process -> Nat]
    BY DEF TypeInv, TypeOK
  <1>4. CASE CrashExecutor
    <2>1. EmptyCreate("failed") \in CreateJob /\ EmptyCreate("failed").pc = "failed"
      BY DEF EmptyCreate, CreateJob, Stage
    <2>2. EmptyCancel("failed") \in CancelJob /\ EmptyCancel("failed").pc = "failed"
      BY DEF EmptyCancel, CancelJob, Stage
    <2>3. /\ createJob' \in [Creates -> CreateJob]
          /\ cancelJob' \in [Cancels -> CancelJob]
      BY <1>4, <2>1, <2>2 DEF CrashExecutor, TypeInv, TypeOK
    <2>4. crashes' \in [Process -> Nat]
      BY <1>3, <1>4 DEF CrashExecutor, Process
    <2>5. JobsNameOrders'
      BY <1>4, <2>1, <2>2 DEF CrashExecutor, TypeInv, JobsNameOrders, gathererVars
    <2> QED
      BY <1>4, <2>3, <2>4, <2>5 DEF CrashExecutor, TypeInv, TypeOK,
         exchangeVars, gathererVars, redisVars, magicboxVars
  <1>5. CASE CrashGatherer
    <2>1. NoCall \in Call /\ NoCall.pc = "idle"
      BY DEF NoCall, Call, Stage
    <2>2. crashes' \in [Process -> Nat]
      BY <1>3, <1>5 DEF CrashGatherer, Process
    <2>3. lost' \subseteq View
      BY <1>5, UnannouncedType DEF CrashGatherer, TypeInv, TypeOK
    <2> QED
      BY <1>5, <2>1, <2>2, <2>3 DEF CrashGatherer, TypeInv, TypeOK, JobsNameOrders, crashVars,
         executorVars, redisVars, magicboxVars
  <1>6. CASE CrashMagicbox
    <2>1. crashes' \in [Process -> Nat]
      BY <1>3, <1>6 DEF CrashMagicbox, Process
    <2>2. orders' \in [Order -> Stage]
      BY <1>6 DEF CrashMagicbox, Stage
    <2> QED
      BY <1>6, <2>1, <2>2 DEF CrashMagicbox, TypeInv, TypeOK, JobsNameOrders, crashVars,
         exchangeVars, executorVars, gathererVars, redisVars
  <1>7. CASE UNCHANGED vars
    BY <1>7 DEF vars, TypeInv, TypeOK, JobsNameOrders, crashVars,
       exchangeVars, executorVars, gathererVars, redisVars, magicboxVars
  <1> QED
    BY <1>1, <1>2, <1>4, <1>5, <1>6, <1>7, CreateTypeInv, CancelTypeInv, GathererTypeInv DEF Next

\* The variables keep their types in every behaviour: the reader of the stream is
\* never ahead of it, and no call works on an order the exchange did not hand out.
THEOREM TypeCorrect == Spec => []TypeOK
  <1>1. TypeInv => TypeOK
    BY DEF TypeInv
  <1> QED
    BY InitTypeInv, NextTypeInv, <1>1, PTL DEF Spec

-----------------------------------------------------------------------------
(* RecordedIsAnnounced: which step writes what *)

\* The stream is written by two steps only, and only at its end.
LEMMA StreamSteps ==
    ASSUME [Next]_vars
    PROVE  \/ stream' = stream
           \/ \E r \in Creates : AnnounceCreated(r)
           \/ \E h \in Slot : AnnounceOrder(h)
  BY DEF vars, Next, Fill, Create, StartCreate, CallCreateOrder, CallFetchOrder, RejectCreated, RecordCreated,
     Cancel, CallCancelOrder, FetchCanceled, RejectCanceled, RecordCanceled, Subscription, WatchOrders, FetchOrders,
     HandleOrders, GetPrevState, RejectOrder, RecordOrder, ReadOrder, CrashExecutor, CrashGatherer, CrashMagicbox,
     redisVars

\* The hash is written by three steps only.
LEMMA HashSteps ==
    ASSUME [Next]_vars
    PROVE  \/ hash' = hash
           \/ \E r \in Creates : RecordCreated(r)
           \/ \E c \in Cancels : RecordCanceled(c)
           \/ \E h \in Slot : RecordOrder(h)
  BY DEF vars, Next, Fill, Create, StartCreate, CallCreateOrder, CallFetchOrder, RejectCreated, AnnounceCreated,
     Cancel, CallCancelOrder, FetchCanceled, RejectCanceled, Subscription, WatchOrders, FetchOrders,
     HandleOrders, GetPrevState, RejectOrder, AnnounceOrder, ReadOrder, CrashExecutor, CrashGatherer, CrashMagicbox,
     redisVars

\* A handleOrders call is moved by its own steps and by the death of the gatherer.
LEMMA CallSteps ==
    ASSUME [Next]_vars
    PROVE  \/ calls' = calls
           \/ \E h \in Slot : Subscription(h) \/ HandleOrders(h)
           \/ CrashGatherer
  BY DEF vars, Next, Fill, Create, StartCreate, CallCreateOrder, CallFetchOrder, RejectCreated, AnnounceCreated,
     RecordCreated, Cancel, CallCancelOrder, FetchCanceled, RejectCanceled, RecordCanceled, ReadOrder, CrashExecutor,
     CrashMagicbox, gathererVars

\* What the gatherer died with stays lost.
LEMMA LostStays ==
    ASSUME [Next]_vars
    PROVE  lost \subseteq lost'
  <1>1. CASE CrashGatherer
    BY <1>1 DEF CrashGatherer
  <1>2. CASE ~ CrashGatherer
    BY <1>2 DEF vars, crashVars, Next, Fill, Create, StartCreate, CallCreateOrder, CallFetchOrder, RejectCreated,
       AnnounceCreated, RecordCreated, Cancel, CallCancelOrder, FetchCanceled, RejectCanceled, RecordCanceled,
       Subscription, WatchOrders, FetchOrders, HandleOrders, GetPrevState, RejectOrder, RecordOrder,
       AnnounceOrder, ReadOrder, CrashExecutor, CrashMagicbox
  <1> QED
    BY <1>1, <1>2

\* The jobs of the executor are moved by their own steps and by its death.
LEMMA JobSteps ==
    ASSUME [Next]_vars
    PROVE  \/ createJob' = createJob /\ cancelJob' = cancelJob
           \/ \E r \in Creates : Create(r)
           \/ \E c \in Cancels : Cancel(c)
           \/ CrashExecutor
  BY DEF vars, Next, Fill, Subscription, WatchOrders, FetchOrders, HandleOrders, GetPrevState, RejectOrder,
     RecordOrder, AnnounceOrder, ReadOrder, CrashGatherer, CrashMagicbox, executorVars

-----------------------------------------------------------------------------
(* RecordedIsAnnounced: what is accounted for stays accounted for *)

LEMMA AppendAnnounces ==
    ASSUME TypeInv, NEW w \in View, stream' = Append(stream, w)
    PROVE  /\ Announced(w)'
           /\ \A v \in View : Announced(v) => Announced(v)'
  <1>1. /\ Len(stream') = Len(stream) + 1 /\ Len(stream) \in Nat
        /\ stream'[Len(stream) + 1] = w
        /\ \A i \in 1..Len(stream) : stream'[i] = stream[i]
    BY DEF TypeInv, TypeOK
  <1> QED
    BY <1>1 DEF Announced

LEMMA AnnouncedStays ==
    ASSUME TypeInv, [Next]_vars, NEW v \in View, Announced(v)
    PROVE  Announced(v)'
  <1>1. CASE stream' = stream
    BY <1>1 DEF Announced
  <1>2. ASSUME NEW r \in Creates, AnnounceCreated(r)
        PROVE  Announced(v)'
    <2>1. [order |-> createJob[r].order, stage |-> createJob[r].detail] \in View
      BY <1>2 DEF AnnounceCreated, TypeInv, TypeOK, CreateJob, JobsNameOrders, View
    <2> QED
      BY <1>2, <2>1, AppendAnnounces DEF AnnounceCreated
  <1>3. ASSUME NEW h \in Slot, AnnounceOrder(h)
        PROVE  Announced(v)'
    <2>1. calls[h].view \in View
      BY <1>3 DEF AnnounceOrder, TypeInv, JobsNameOrders
    <2> QED
      BY <1>3, <2>1, AppendAnnounces DEF AnnounceOrder
  <1> QED
    BY <1>1, <1>2, <1>3, StreamSteps

\* A call that is about to announce a view does so, or dies with the gatherer.
LEMMA BeingAnnouncedIsKept ==
    ASSUME TypeInv, [Next]_vars, NEW v \in View, BeingAnnounced(v)
    PROVE  Announced(v)' \/ BeingAnnounced(v)' \/ v \in lost'
  <1>1. PICK h \in Slot : calls[h].pc = "xAdd" /\ calls[h].view = v
    BY DEF BeingAnnounced
  <1>2. CASE calls' = calls
    BY <1>1, <1>2 DEF BeingAnnounced
  <1>3. CASE CrashGatherer
    BY <1>1, <1>3 DEF CrashGatherer, Unannounced
  <1>4. ASSUME NEW g \in Slot, Subscription(g) \/ HandleOrders(g)
        PROVE  Announced(v)' \/ BeingAnnounced(v)' \/ v \in lost'
    <2>1. CASE g = h
      <3>1. AnnounceOrder(h) \/ RejectOrder(h)
        BY <1>1, <1>4, <2>1 DEF Subscription, WatchOrders, FetchOrders,
           HandleOrders, GetPrevState, RecordOrder
      <3>2. CASE AnnounceOrder(h)
        BY <1>1, <3>2, AppendAnnounces DEF AnnounceOrder
      <3>3. CASE RejectOrder(h)
        BY <1>1, <3>3 DEF RejectOrder, Unannounced
      <3> QED
        BY <3>1, <3>2, <3>3
    <2>2. CASE g # h
      <3>1. calls'[h] = calls[h]
        BY <1>4, <2>2 DEF Subscription, WatchOrders, FetchOrders, HandleOrders, GetPrevState,
           RecordOrder, AnnounceOrder, RejectOrder, SetCall, TypeInv, TypeOK
      <3> QED
        BY <1>1, <3>1 DEF BeingAnnounced
    <2> QED
      BY <2>1, <2>2
  <1> QED
    BY <1>2, <1>3, <1>4, CallSteps

LEMMA CanceledByStays ==
    ASSUME TypeInv, [Next]_vars, NEW v \in View, NEW c \in Cancels, CanceledBy(c, v)
    PROVE  CanceledBy(c, v)'
  <1>1. cancelJob[c].pc = "done"
    BY DEF CanceledBy
  <1>2. cancelJob'[c] = cancelJob[c]
    <2>1. CASE CrashExecutor
      BY <1>1, <2>1 DEF CrashExecutor
    <2>2. ASSUME NEW r \in Creates, Create(r)
          PROVE  cancelJob' = cancelJob
      BY <2>2 DEF Create, StartCreate, CallCreateOrder, CallFetchOrder, AnnounceCreated,
         RecordCreated, RejectCreated, SetCreate
    <2>3. ASSUME NEW d \in Cancels, Cancel(d)
          PROVE  cancelJob'[c] = cancelJob[c]
      <3>1. d # c
        BY <1>1, <2>3 DEF Cancel, CallCancelOrder, FetchCanceled, RecordCanceled, RejectCanceled
      <3> QED
        BY <2>3, <3>1 DEF Cancel, CallCancelOrder, FetchCanceled, RecordCanceled, RejectCanceled, SetCancel,
           TypeInv, TypeOK
    <2> QED
      BY <2>1, <2>2, <2>3, JobSteps
  <1> QED
    BY <1>2 DEF CanceledBy

LEMMA AccountedStays ==
    ASSUME TypeInv, [Next]_vars, NEW v \in View, Accounted(v)
    PROVE  Accounted(v)'
  <1>1. CASE v.stage = "absent"
    BY <1>1 DEF Accounted
  <1>2. CASE Announced(v)
    BY <1>2, AnnouncedStays DEF Accounted
  <1>3. CASE BeingAnnounced(v)
    BY <1>3, BeingAnnouncedIsKept DEF Accounted
  <1>4. CASE \E c \in Cancels : CanceledBy(c, v)
    BY <1>4, CanceledByStays DEF Accounted
  <1>5. CASE v \in lost
    BY <1>5, LostStays DEF Accounted
  <1> QED
    BY <1>1, <1>2, <1>3, <1>4, <1>5 DEF Accounted

-----------------------------------------------------------------------------
(* RecordedIsAnnounced: the inductive invariant *)

\* The record [order, stage] of the invariant's statements, as a view of its own.
LEMMA HashIsAccounted ==
    ASSUME NEW o \in Order, NEW v \in View, v = [order |-> o, stage |-> hash'[o].order], Accounted(v)'
    PROVE  Accounted([order |-> o, stage |-> hash[o].order])'
  BY DEF Accounted, Announced, BeingAnnounced, CanceledBy

LEMMA PrevAccounted ==
    ASSUME NEW h \in Slot, NEW v \in View,
           v = [order |-> calls'[h].view.order, stage |-> calls'[h].prev], Accounted(v)'
    PROVE  Accounted([order |-> calls[h].view.order, stage |-> calls[h].prev])'
  BY DEF Accounted, Announced, BeingAnnounced, CanceledBy

\* A state the executor is about to record was announced by the step before.
LEMMA CreatedIsAnnouncedStep ==
    ASSUME TypeInv, CreatedIsAnnounced, [Next]_vars
    PROVE  CreatedIsAnnounced'
  <1> SUFFICES ASSUME NEW r \in Creates, createJob'[r].pc = "hSet"
               PROVE  Announced([order |-> createJob[r].order, stage |-> createJob[r].detail])'
    BY DEF CreatedIsAnnounced
  <1>1. CASE createJob'[r] = createJob[r]
    <2>1. PICK v \in View : v = [order |-> createJob[r].order, stage |-> createJob[r].detail]
      BY <1>1 DEF TypeInv, TypeOK, CreateJob, JobsNameOrders, View
    <2>2. Announced(v)'
      BY <1>1, <2>1, AnnouncedStays DEF CreatedIsAnnounced
    <2> QED
      BY <1>1, <2>1, <2>2 DEF Announced
  <1>2. CASE AnnounceCreated(r)
    <2>1. PICK v \in View : v = [order |-> createJob[r].order, stage |-> createJob[r].detail]
      BY <1>2 DEF AnnounceCreated, TypeInv, TypeOK, CreateJob, JobsNameOrders, View
    <2>2. Announced(v)'
      BY <1>2, <2>1, AppendAnnounces DEF AnnounceCreated
    <2>3. /\ createJob'[r].order = createJob[r].order
          /\ createJob'[r].detail = createJob[r].detail
      BY <1>2 DEF AnnounceCreated, SetCreate, TypeInv, TypeOK
    <2> QED
      BY <2>1, <2>2, <2>3 DEF Announced
  <1>3. createJob'[r] = createJob[r] \/ AnnounceCreated(r)
    <2>1. CASE CrashExecutor
      BY <2>1 DEF CrashExecutor, EmptyCreate
    <2>2. ASSUME NEW c \in Cancels, Cancel(c)
          PROVE  createJob' = createJob
      BY <2>2 DEF Cancel, CallCancelOrder, FetchCanceled, RecordCanceled, RejectCanceled, SetCancel
    <2>3. ASSUME NEW q \in Creates, Create(q), q # r
          PROVE  createJob'[r] = createJob[r]
      BY <2>3 DEF Create, StartCreate, CallCreateOrder, CallFetchOrder, AnnounceCreated,
         RecordCreated, RejectCreated, SetCreate, TypeInv, TypeOK
    <2>4. ASSUME Create(r), ~ AnnounceCreated(r)
          PROVE  createJob'[r].pc # "hSet"
      BY <2>4 DEF Create, StartCreate, CallCreateOrder, CallFetchOrder, RecordCreated,
         RejectCreated, EmptyCreate, AfterFailure, SetCreate, TypeInv, TypeOK
    <2> QED
      BY <2>1, <2>2, <2>3, <2>4, JobSteps
  <1> QED
    BY <1>1, <1>2, <1>3

\* What a handleOrders call read is accounted for when it reads it, and stays so.
LEMMA PrevIsAccountedStep ==
    ASSUME TypeInv, PrevIsAccounted, RecordedIsAnnounced, [Next]_vars
    PROVE  PrevIsAccounted'
  <1> SUFFICES ASSUME NEW h \in Slot, calls'[h].pc = "hSet"
               PROVE  Accounted([order |-> calls[h].view.order, stage |-> calls[h].prev])'
    BY DEF PrevIsAccounted
  <1>1. CASE calls'[h] = calls[h]
    <2>1. PICK v \in View : v = [order |-> calls[h].view.order, stage |-> calls[h].prev]
      BY <1>1 DEF TypeInv, TypeOK, Call, JobsNameOrders, View
    <2>2. Accounted(v)'
      BY <1>1, <2>1, AccountedStays DEF PrevIsAccounted
    <2> QED
      BY <1>1, <2>1, <2>2, PrevAccounted
  <1>2. CASE GetPrevState(h)
    <2>1. PICK w \in calls[h].todo :
            SetCall(h, Busy("hSet", calls[h].todo \ {w}, w, hash[w.order].order))
      BY <1>2 DEF GetPrevState
    <2>2. w.order \in Order
      BY <2>1 DEF TypeInv, TypeOK, Call, View
    <2>3. PICK v \in View : v = [order |-> w.order, stage |-> hash[w.order].order]
      BY <2>2 DEF TypeInv, TypeOK, View
    <2>4. Accounted(v)'
      BY <2>2, <2>3, AccountedStays DEF RecordedIsAnnounced
    <2>5. calls'[h].view = w /\ calls'[h].prev = hash[w.order].order
      BY <2>1 DEF SetCall, Busy, TypeInv, TypeOK
    <2> QED
      BY <2>3, <2>4, <2>5, PrevAccounted
  <1>3. calls'[h] = calls[h] \/ GetPrevState(h)
    <2>1. CASE CrashGatherer
      BY <2>1 DEF CrashGatherer, NoCall
    <2>2. ASSUME NEW g \in Slot, Subscription(g) \/ HandleOrders(g), g # h
          PROVE  calls'[h] = calls[h]
      BY <2>2 DEF Subscription, WatchOrders, FetchOrders, HandleOrders, GetPrevState,
         RecordOrder, AnnounceOrder, RejectOrder, SetCall, TypeInv, TypeOK
    <2>3. ASSUME Subscription(h) \/ HandleOrders(h), ~ GetPrevState(h)
          PROVE  calls'[h].pc # "hSet"
      BY <2>3 DEF Subscription, WatchOrders, FetchOrders, HandleOrders, RecordOrder, AnnounceOrder,
         RejectOrder, SetCall, Continue, Busy, NoCall, TypeInv, TypeOK
    <2> QED
      BY <2>1, <2>2, <2>3, CallSteps
  <1> QED
    BY <1>1, <1>2, <1>3

\* Each of the three steps that write the hash leaves an accounted state in it.
LEMMA RecordedIsAnnouncedStep ==
    ASSUME AccountInv, [Next]_vars
    PROVE  RecordedIsAnnounced'
  <1> SUFFICES ASSUME NEW o \in Order
               PROVE  Accounted([order |-> o, stage |-> hash[o].order])'
    BY DEF RecordedIsAnnounced
  <1>1. TypeInv /\ TypeInv'
    BY NextTypeInv DEF AccountInv, TypeInv
  <1>2. PICK v \in View : v = [order |-> o, stage |-> hash'[o].order]
    BY <1>1 DEF TypeInv, TypeOK, View
  <1>3. CASE hash'[o] = hash[o]
    <2>1. Accounted(v)
      BY <1>2, <1>3 DEF AccountInv, RecordedIsAnnounced
    <2>2. Accounted(v)'
      BY <1>1, <2>1, AccountedStays
    <2> QED
      BY <1>2, <2>2, HashIsAccounted
  <1>4. ASSUME NEW r \in Creates, RecordCreated(r), hash'[o] # hash[o]
        PROVE  Accounted(v)'
    <2>1. o = createJob[r].order /\ hash'[o].order = createJob[r].detail
      BY <1>1, <1>4 DEF RecordCreated, SetHash, TypeInv, TypeOK
    <2>2. Announced(v)
      BY <1>2, <1>4, <2>1 DEF RecordCreated, AccountInv, CreatedIsAnnounced
    <2> QED
      BY <1>1, <2>2, AnnouncedStays DEF Accounted
  <1>5. ASSUME NEW c \in Cancels, RecordCanceled(c), hash'[o] # hash[o]
        PROVE  Accounted(v)'
    <2>1. o = cancelJob[c].order /\ hash'[o].order = cancelJob[c].detail
      BY <1>1, <1>5 DEF RecordCanceled, SetHash, TypeInv, TypeOK
    <2>2. /\ cancelJob'[c].pc = "done"
          /\ cancelJob'[c].order = cancelJob[c].order
          /\ cancelJob'[c].detail = cancelJob[c].detail
      BY <1>1, <1>5 DEF RecordCanceled, SetCancel, TypeInv, TypeOK
    <2>3. CanceledBy(c, v)'
      BY <1>2, <2>1, <2>2 DEF CanceledBy
    <2> QED
      BY <2>3 DEF Accounted
  <1>6. ASSUME NEW h \in Slot, RecordOrder(h), hash'[o] # hash[o]
        PROVE  Accounted(v)'
    <2>1. calls[h].view \in View
      BY <1>1, <1>6 DEF RecordOrder, TypeInv, JobsNameOrders
    <2>2. o = calls[h].view.order /\ hash'[o].order = calls[h].view.stage
      BY <1>1, <1>6, <2>1 DEF RecordOrder, SetHash, TypeInv, TypeOK, View
    <2>3. v = calls[h].view
      BY <1>2, <2>1, <2>2 DEF View
    <2>4. CASE calls[h].prev = calls[h].view.stage
      <3>1. Accounted(v)
        BY <1>2, <1>6, <2>2, <2>4 DEF RecordOrder, AccountInv, PrevIsAccounted
      <3> QED
        BY <1>1, <3>1, AccountedStays
    <2>5. CASE calls[h].prev # calls[h].view.stage
      <3>1. calls'[h].pc = "xAdd" /\ calls'[h].view = v
        BY <1>1, <1>6, <2>3, <2>5 DEF RecordOrder, SetCall, Busy, TypeInv, TypeOK
      <3> QED
        BY <3>1 DEF Accounted, BeingAnnounced
    <2> QED
      BY <2>4, <2>5
  <1> QED
    BY <1>2, <1>3, <1>4, <1>5, <1>6, HashSteps, HashIsAccounted

LEMMA NextAccountInv == AccountInv /\ [Next]_vars => AccountInv'
  <1> SUFFICES ASSUME AccountInv, [Next]_vars
               PROVE  AccountInv'
    OBVIOUS
  <1>1. TypeInv /\ CreatedIsAnnounced /\ PrevIsAccounted /\ RecordedIsAnnounced
    BY DEF AccountInv, TypeInv
  <1> QED
    BY <1>1, NextTypeInv, CreatedIsAnnouncedStep, PrevIsAccountedStep, RecordedIsAnnouncedStep
    DEF AccountInv, TypeInv

LEMMA InitAccountInv == Init => AccountInv
  <1> SUFFICES ASSUME Init
               PROVE  AccountInv
    OBVIOUS
  <1>1. CreatedIsAnnounced /\ PrevIsAccounted
    BY DEF Init, EmptyCreate, NoCall, CreatedIsAnnounced, PrevIsAccounted
  <1>2. RecordedIsAnnounced
    BY DEF Init, RecordedIsAnnounced, Accounted
  <1> QED
    BY <1>1, <1>2, InitTypeInv DEF AccountInv, TypeInv

\* For any number of orders, requests and overlapping handleOrders calls: a state
\* recorded in the hash is in the watchOrders stream or on its way there, unless
\* cancelOrder recorded it or the gatherer failed before announcing it.
THEOREM RecordedReachesStream == Spec => []RecordedIsAnnounced
  <1>1. AccountInv => RecordedIsAnnounced
    BY DEF AccountInv
  <1> QED
    BY InitAccountInv, NextAccountInv, <1>1, PTL DEF Spec

-----------------------------------------------------------------------------
(* AttributedUnlessRetried *)

\* The executor works on the order of this request, or has worked on it.
Holds(r) == createJob[r].pc \in {"fetchOrder", "xAdd", "hSet", "done"}

\* No try of this request has failed so far.
Clean(r) ==
    \/ createJob[r].pc = "requested"
    \/ createJob[r].pc = "createOrder" /\ createJob[r].attempts = 0
    \/ Holds(r) /\ createJob[r].attempts = 1

\* Requests hold different orders, and only such as exist.
OwnOrders ==
    \A q \in Creates : createJob[q].order # None =>
        /\ createJob[q].order \in Existing
        /\ \A r \in Creates \ {q} : createJob[r].order # createJob[q].order

Owned(o) ==
    \E r \in Creates :
        /\ Holds(r) /\ createJob[r].order = o
        /\ createJob[r].pc = "done" => hash[o].orderSource = r

CleanIsOwned == (\A r \in Creates : Clean(r)) => \A o \in Existing : Owned(o)

\* An order is only asked for again when a try has created it.
Tried == \A r \in Creates : createJob[r].pc = "fetchOrder" => createJob[r].attempts >= 1

OwnerInv == TypeInv /\ OwnOrders /\ CleanIsOwned /\ Tried

LEMMA OwnedIsAttributed == OwnerInv => AttributedUnlessRetried
  <1> SUFFICES ASSUME OwnerInv, \A r \in Creates : Unretried(r) \/ createJob[r].pc = "requested",
                      NEW o \in Existing
               PROVE  \E r \in Creates : createJob[r].order = o /\ hash[o].orderSource = r
    BY DEF AttributedUnlessRetried
  <1>1. \A r \in Creates : Clean(r)
    BY DEF Unretried, Clean, Holds
  <1>2. PICK r \in Creates : /\ Holds(r) /\ createJob[r].order = o
                             /\ createJob[r].pc = "done" => hash[o].orderSource = r
    BY <1>1 DEF OwnerInv, CleanIsOwned, Owned
  <1>3. createJob[r].pc = "done"
    BY <1>2 DEF Holds, Unretried
  <1> QED
    BY <1>2, <1>3

LEMMA InitOwner == Init => OwnOrders /\ CleanIsOwned /\ Tried
  BY DEF Init, EmptyCreate, OwnOrders, CleanIsOwned, Tried, Existing

\* No order of another request is touched when only r moves on and takes no order but a
\* new one.
LEMMA OwnOrdersKept ==
    ASSUME TypeInv, OwnOrders, NEW r \in Creates,
           \A q \in Creates \ {r} : createJob'[q] = createJob[q],
           Existing \subseteq Existing',
           \/ createJob'[r].order \in {createJob[r].order, None}
           \/ createJob'[r].order \in Existing' \ Existing
    PROVE  OwnOrders'
  <1> SUFFICES ASSUME NEW q \in Creates, createJob'[q].order # None
               PROVE  /\ createJob'[q].order \in Existing'
                      /\ \A p \in Creates \ {q} : createJob'[p].order # createJob'[q].order
    BY DEF OwnOrders
  <1>1. CASE q = r
    BY <1>1 DEF OwnOrders
  <1>2. CASE q # r
    <2>1. createJob'[q] = createJob[q] /\ createJob[q].order \in Existing
      BY <1>2 DEF OwnOrders
    <2>2. \A p \in Creates \ {q, r} : createJob'[p].order # createJob'[q].order
      BY <2>1 DEF OwnOrders
    <2>3. createJob'[r].order # createJob'[q].order
      BY <1>2, <2>1 DEF OwnOrders
    <2> QED
      BY <2>1, <2>2, <2>3
  <1> QED
    BY <1>1, <1>2

\* Orders stay owned when only r moves on, it owned none or still owns its own, and the
\* source is overwritten only by their owners.
LEMMA OwnedKept ==
    ASSUME NEW r \in Creates, NEW o, Owned(o),
           \A q \in Creates \ {r} : createJob'[q] = createJob[q],
           hash'[o].orderSource = hash[o].orderSource,
           Holds(r) => /\ Holds(r)' /\ createJob'[r].order = createJob[r].order
                       /\ createJob'[r].pc = "done" => createJob[r].pc = "done"
    PROVE  Owned(o)'
  <1>1. PICK q \in Creates : /\ Holds(q) /\ createJob[q].order = o
                             /\ createJob[q].pc = "done" => hash[o].orderSource = q
    BY DEF Owned
  <1>2. Holds(q)' /\ createJob'[q].order = o /\ (createJob'[q].pc = "done" => createJob[q].pc = "done")
    BY <1>1 DEF Holds
  <1> QED
    BY <1>1, <1>2 DEF Owned

\* If every request is clean after a step of r that left r unclean, there is nothing to show.
LEMMA UncleanStep ==
    ASSUME NEW r \in Creates, ~ Clean(r)'
    PROVE  CleanIsOwned'
  BY DEF CleanIsOwned

LEMMA CallCreateOwner ==
    ASSUME TypeInv, OwnOrders, CleanIsOwned, NEW r \in Creates, CallCreateOrder(r)
    PROVE  OwnOrders' /\ CleanIsOwned'
  <1> DEFINE job == createJob[r]
             tries == job.attempts + 1
  <1>1. job.attempts \in Nat /\ job.pc = "createOrder" /\ hash' = hash /\ tries \in Nat /\ tries >= 1
    BY DEF CallCreateOrder, TypeInv, TypeOK, CreateJob, redisVars
  <1>2. AfterFailure(tries) \in {"createOrder", "failed"}
    BY DEF AfterFailure
  <1>3. Existing \subseteq Existing'
    BY DEF CallCreateOrder, Change, Existing, exchangeVars, TypeInv, TypeOK
  <1>4. CASE SetCreate(r, AfterFailure(tries), tries, job.order, job.detail)
    <2>1. /\ createJob'[r].pc \in {"createOrder", "failed"} /\ createJob'[r].attempts # 0
          /\ createJob'[r].order = job.order
          /\ \A q \in Creates \ {r} : createJob'[q] = createJob[q]
      BY <1>1, <1>2, <1>4 DEF SetCreate, TypeInv, TypeOK
    <2>2. ~ Clean(r)'
      BY <2>1 DEF Clean, Holds
    <2> QED
      BY <1>3, <2>1, <2>2, OwnOrdersKept, UncleanStep
  <1>5. ASSUME NEW o \in Order \ Existing, NEW s \in {"open", "closed"}, Change(o, s),
               NEW pc \in {"xAdd", "fetchOrder"}, NEW d, SetCreate(r, pc, tries, o, d)
        PROVE  OwnOrders' /\ CleanIsOwned'
    <2>1. Existing' = Existing \cup {o}
      BY <1>5 DEF Change, Existing, TypeInv, TypeOK
    <2>2. /\ createJob'[r].pc = pc /\ createJob'[r].attempts = tries /\ createJob'[r].order = o
          /\ \A q \in Creates \ {r} : createJob'[q] = createJob[q]
      BY <1>5 DEF SetCreate, TypeInv, TypeOK
    <2>3. OwnOrders'
      BY <2>1, <2>2, OwnOrdersKept
    <2>4. ASSUME \A q \in Creates : Clean(q)' PROVE \A p \in Existing' : Owned(p)'
      <3>1. tries = 1
        BY <2>2, <2>4 DEF Clean, Holds
      <3>2. Clean(r)
        BY <1>1, <3>1 DEF Clean
      <3>3. \A q \in Creates \ {r} : Clean(q)
        BY <2>2, <2>4 DEF Clean, Holds
      <3>4. \A p \in Existing : Owned(p)
        BY <3>2, <3>3 DEF CleanIsOwned
      <3>5. ~ Holds(r)
        BY <1>1 DEF Holds
      <3>6. \A p \in Existing : Owned(p)'
        BY <1>1, <2>2, <3>4, <3>5, OwnedKept
      <3>7. Owned(o)'
        BY <2>2 DEF Owned, Holds
      <3> QED
        BY <2>1, <3>6, <3>7
    <2> QED
      BY <2>3, <2>4 DEF CleanIsOwned
  <1> QED
    BY <1>4, <1>5 DEF CallCreateOrder

\* The other steps of a request: it keeps its order, if it had one.
LEMMA CreateOwner ==
    ASSUME TypeInv, OwnOrders, CleanIsOwned, Tried, NEW r \in Creates, Create(r)
    PROVE  OwnOrders' /\ CleanIsOwned'
  <1> DEFINE job == createJob[r]
  <1>1. job.attempts \in Nat
    BY DEF TypeInv, TypeOK, CreateJob
  <1>2. CASE StartCreate(r)
    <2>1. /\ job.pc = "requested" /\ Existing' = Existing /\ hash' = hash
          /\ createJob'[r].pc = "createOrder" /\ createJob'[r].order = None
          /\ \A q \in Creates \ {r} : createJob'[q] = createJob[q]
      BY <1>2 DEF StartCreate, SetCreate, TypeInv, TypeOK, Existing, exchangeVars, redisVars
    <2>2. OwnOrders'
      BY <2>1, OwnOrdersKept
    <2>3. ASSUME \A q \in Creates : Clean(q)' PROVE \A p \in Existing' : Owned(p)'
      <3>1. \A q \in Creates : Clean(q)
        BY <2>1, <2>3 DEF Clean, Holds
      <3>2. ~ Holds(r)
        BY <2>1 DEF Holds
      <3> QED
        BY <2>1, <3>1, <3>2, OwnedKept DEF CleanIsOwned
    <2> QED
      BY <2>2, <2>3 DEF CleanIsOwned
  <1>3. CASE CallCreateOrder(r)
    BY <1>3, CallCreateOwner
  <1>4. ASSUME NEW pc \in {"xAdd", "hSet"}, NEW d, job.pc \in {"fetchOrder", "xAdd"},
               SetCreate(r, pc, job.attempts, job.order, d), Existing' = Existing, hash' = hash
        PROVE  OwnOrders' /\ CleanIsOwned'
    <2>1. /\ createJob'[r].pc = pc /\ createJob'[r].order = job.order
          /\ createJob'[r].attempts = job.attempts
          /\ \A q \in Creates \ {r} : createJob'[q] = createJob[q]
      BY <1>4 DEF SetCreate, TypeInv, TypeOK
    <2>2. OwnOrders'
      BY <1>4, <2>1, OwnOrdersKept
    <2>3. ASSUME \A q \in Creates : Clean(q)' PROVE \A p \in Existing' : Owned(p)'
      <3>1. \A q \in Creates : Clean(q)
        BY <1>4, <2>1, <2>3 DEF Clean, Holds
      <3>2. Holds(r)' /\ createJob'[r].pc # "done"
        BY <2>1 DEF Holds
      <3> QED
        BY <1>4, <2>1, <3>1, <3>2, OwnedKept DEF CleanIsOwned
    <2> QED
      BY <2>2, <2>3 DEF CleanIsOwned
  <1>5. CASE CallFetchOrder(r)
    <2>1. Existing' = Existing /\ hash' = hash /\ job.pc = "fetchOrder"
      BY <1>5 DEF CallFetchOrder, Existing, exchangeVars, redisVars
    <2>2. CASE SetCreate(r, "xAdd", job.attempts, job.order, stage[job.order])
      BY <1>4, <2>1, <2>2
    <2>3. CASE SetCreate(r, AfterFailure(job.attempts), job.attempts, job.order, job.detail)
      <3>1. /\ createJob'[r].pc = AfterFailure(job.attempts) /\ createJob'[r].order = job.order
            /\ createJob'[r].attempts = job.attempts
            /\ \A q \in Creates \ {r} : createJob'[q] = createJob[q]
        BY <2>3 DEF SetCreate, TypeInv, TypeOK
      <3>2. OwnOrders'
        BY <2>1, <3>1, OwnOrdersKept
      <3>3. job.attempts >= 1
        BY <2>1 DEF Tried
      <3>4. ~ Clean(r)'
        BY <3>1, <3>3, <1>1 DEF AfterFailure, Clean, Holds
      <3> QED
        BY <3>2, <3>4, UncleanStep
    <2> QED
      BY <1>5, <2>2, <2>3 DEF CallFetchOrder
  <1>6. CASE AnnounceCreated(r)
    <2>1. Existing' = Existing /\ hash' = hash /\ job.pc = "xAdd"
      BY <1>6 DEF AnnounceCreated, Existing, exchangeVars
    <2> QED
      BY <1>4, <1>6, <2>1 DEF AnnounceCreated
  <1>7. CASE RecordCreated(r)
    <2>1. /\ Existing' = Existing /\ job.pc = "hSet"
          /\ createJob'[r].pc = "done" /\ createJob'[r].order = job.order
          /\ createJob'[r].attempts = job.attempts
          /\ \A q \in Creates \ {r} : createJob'[q] = createJob[q]
      BY <1>7 DEF RecordCreated, SetCreate, TypeInv, TypeOK, Existing, exchangeVars
    <2>2. OwnOrders'
      BY <2>1, OwnOrdersKept
    <2>3. /\ job.order \in Order /\ job.order # None
          /\ hash'[job.order].orderSource = r
          /\ \A p \in Order \ {job.order} : hash'[p] = hash[p]
      BY <1>7, <2>1, NoneAssumption DEF RecordCreated, SetHash, TypeInv, TypeOK, JobsNameOrders
    <2>4. ASSUME \A q \in Creates : Clean(q)', NEW p \in Existing' PROVE Owned(p)'
      <3>1. \A q \in Creates : Clean(q)
        BY <2>1, <2>4 DEF Clean, Holds
      <3>2. PICK q \in Creates : /\ Holds(q) /\ createJob[q].order = p
                                 /\ createJob[q].pc = "done" => hash[p].orderSource = q
        BY <2>1, <2>4, <3>1 DEF CleanIsOwned, Owned
      <3>3. CASE q = r
        BY <2>1, <2>3, <3>2, <3>3 DEF Owned, Holds
      <3>4. CASE q # r
        <4>1. p # job.order /\ p \in Order
          BY <2>3, <2>4, <3>2, <3>4 DEF OwnOrders, Existing
        <4>2. hash'[p] = hash[p] /\ createJob'[q] = createJob[q]
          BY <2>1, <2>3, <3>4, <4>1
        <4> QED
          BY <3>2, <4>2 DEF Owned, Holds
      <3> QED
        BY <3>3, <3>4
    <2> QED
      BY <2>2, <2>4 DEF CleanIsOwned
  <1>8. CASE RejectCreated(r)
    <2>1. /\ Existing' = Existing
          /\ createJob'[r].pc = "failed" /\ createJob'[r].order = None
          /\ \A q \in Creates \ {r} : createJob'[q] = createJob[q]
      BY <1>8 DEF RejectCreated, EmptyCreate, Existing, exchangeVars, TypeInv, TypeOK
    <2>2. ~ Clean(r)'
      BY <2>1 DEF Clean, Holds
    <2> QED
      BY <2>1, <2>2, OwnOrdersKept, UncleanStep
  <1> QED
    BY <1>2, <1>3, <1>5, <1>6, <1>7, <1>8 DEF Create

\* Steps that leave the requests, the orders that exist and their sources alone.
LEMMA QuietOwner ==
    ASSUME OwnOrders, CleanIsOwned, createJob' = createJob, Existing' = Existing,
           \A o \in Order : hash'[o].orderSource = hash[o].orderSource
    PROVE  OwnOrders' /\ CleanIsOwned'
  <1>1. OwnOrders'
    BY DEF OwnOrders
  <1>2. Existing \subseteq Order
    BY DEF Existing
  <1>3. \A o \in Existing : Owned(o) => Owned(o)'
    BY <1>2 DEF Owned, Holds
  <1>4. \A r \in Creates : Clean(r)' => Clean(r)
    BY DEF Clean, Holds
  <1> QED
    BY <1>1, <1>3, <1>4 DEF CleanIsOwned

LEMMA CrashOwner ==
    ASSUME TypeInv, OwnOrders, CleanIsOwned, CrashExecutor
    PROVE  OwnOrders' /\ CleanIsOwned'
  <1>1. Existing' = Existing /\ hash' = hash
    BY DEF CrashExecutor, Existing, exchangeVars, redisVars
  <1>2. \A r \in Creates : \/ createJob'[r] = createJob[r]
                           \/ createJob'[r].pc = "failed" /\ createJob'[r].order = None
    BY DEF CrashExecutor, EmptyCreate
  <1>3. OwnOrders'
    BY <1>1, <1>2 DEF OwnOrders
  <1>4. ASSUME \A r \in Creates : Clean(r)' PROVE \A o \in Existing' : Owned(o)'
    <2>1. \A r \in Creates : createJob'[r] = createJob[r]
      BY <1>2, <1>4 DEF Clean, Holds
    <2>2. \A r \in Creates : Clean(r)
      BY <1>4, <2>1 DEF Clean, Holds
    <2> QED
      BY <1>1, <2>1, <2>2 DEF CleanIsOwned, Owned, Holds
  <1> QED
    BY <1>3, <1>4 DEF CleanIsOwned

\* Only a request makes an order exist, and none ceases to.
LEMMA ExistingSteps ==
    ASSUME TypeInv, [Next]_vars
    PROVE  Existing' = Existing \/ \E r \in Creates : Create(r)
  <1>1. CASE \E o \in Order : Fill(o)
    BY <1>1 DEF Fill, Change, Existing, TypeInv, TypeOK
  <1>2. CASE \E c \in Cancels : CallCancelOrder(c)
    <2>1. PICK c \in Cancels : CallCancelOrder(c)
      BY <1>2
    <2>2. \/ stage' = stage
          \/ \E o \in Order : stage[o] = "open" /\ stage' = [stage EXCEPT ![o] = "canceled"]
      BY <2>1 DEF CallCancelOrder, Known, Existing, Change, exchangeVars
    <2> QED
      BY <2>2 DEF Existing, TypeInv, TypeOK
  <1>3. CASE /\ ~ \E o \in Order : Fill(o)
             /\ ~ \E c \in Cancels : CallCancelOrder(c)
             /\ ~ \E r \in Creates : Create(r)
    <2>1. stage' = stage
      BY <1>3 DEF vars, Next, Cancel, FetchCanceled, RejectCanceled, RecordCanceled, Subscription, WatchOrders,
         FetchOrders, HandleOrders, GetPrevState, RejectOrder, RecordOrder, AnnounceOrder, ReadOrder,
         CrashExecutor, CrashGatherer, CrashMagicbox, exchangeVars
    <2> QED
      BY <2>1 DEF Existing
  <1> QED
    BY <1>1, <1>2, <1>3

\* Only the executor writes who an order is for.
LEMMA SourceSteps ==
    ASSUME TypeInv, [Next]_vars
    PROVE  \/ \A o \in Order : hash'[o].orderSource = hash[o].orderSource
           \/ \E r \in Creates : Create(r)
  <1>1. ASSUME NEW c \in Cancels, RecordCanceled(c)
        PROVE  \A o \in Order : hash'[o].orderSource = hash[o].orderSource
    BY <1>1 DEF RecordCanceled, SetHash, TypeInv, TypeOK
  <1>2. ASSUME NEW h \in Slot, RecordOrder(h)
        PROVE  \A o \in Order : hash'[o].orderSource = hash[o].orderSource
    BY <1>2 DEF RecordOrder, SetHash, TypeInv, TypeOK
  <1> QED
    BY <1>1, <1>2, HashSteps DEF Create

LEMMA CancelKeepsJobs ==
    ASSUME NEW c \in Cancels, Cancel(c)
    PROVE  createJob' = createJob
  BY DEF Cancel, CallCancelOrder, FetchCanceled, RecordCanceled, RejectCanceled, SetCancel

LEMMA CreateTried ==
    ASSUME TypeInv, Tried, NEW r \in Creates, Create(r)
    PROVE  Tried'
  <1>1. createJob[r].attempts \in Nat /\ DOMAIN createJob = Creates
    BY DEF TypeInv, TypeOK, CreateJob
  <1>2. CASE CallCreateOrder(r)
    BY <1>1, <1>2 DEF CallCreateOrder, SetCreate, Tried
  <1>3. CASE CallFetchOrder(r)
    BY <1>1, <1>3 DEF CallFetchOrder, SetCreate, AfterFailure, Tried
  <1>4. CASE StartCreate(r) \/ AnnounceCreated(r) \/ RecordCreated(r) \/ RejectCreated(r)
    BY <1>1, <1>4 DEF StartCreate, AnnounceCreated, RecordCreated, RejectCreated, SetCreate, EmptyCreate, Tried
  <1> QED
    BY <1>2, <1>3, <1>4 DEF Create

LEMMA NextOwner == OwnerInv /\ [Next]_vars => OwnerInv'
  <1> SUFFICES ASSUME OwnerInv, [Next]_vars
               PROVE  OwnerInv'
    OBVIOUS
  <1>1. TypeInv /\ OwnOrders /\ CleanIsOwned /\ Tried /\ TypeInv'
    BY NextTypeInv DEF OwnerInv
  <1>2. CASE \E r \in Creates : Create(r)
    BY <1>1, <1>2, CreateOwner, CreateTried DEF OwnerInv
  <1>3. CASE CrashExecutor
    <2>1. Tried'
      BY <1>1, <1>3 DEF CrashExecutor, EmptyCreate, Tried
    <2> QED
      BY <1>1, <1>3, <2>1, CrashOwner DEF OwnerInv
  <1>4. CASE ~ (\E r \in Creates : Create(r)) /\ ~ CrashExecutor
    <2>1. createJob' = createJob
      BY <1>4, JobSteps, CancelKeepsJobs
    <2> QED
      BY <1>1, <1>4, <2>1, ExistingSteps, SourceSteps, QuietOwner DEF OwnerInv, Tried
  <1> QED
    BY <1>2, <1>3, <1>4

\* For any number of requests whose calls overlap with each other and with those of the
\* gatherer: as long as no try has failed, every order of the exchange is attributed to
\* the module that asked for it.
THEOREM OrdersAreAttributed == Spec => []AttributedUnlessRetried
  <1>1. Init => OwnerInv
    BY InitTypeInv, InitOwner DEF OwnerInv
  <1> QED
    BY <1>1, NextOwner, OwnedIsAttributed, PTL DEF Spec
=============================================================================
