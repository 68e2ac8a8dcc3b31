------------------------ MODULE SpreadTrader_proofs ------------------------
(***************************************************************************)
(* AtMostOneAttended for any number of orders, ticks, failed requests and  *)
(* restarts.                                                               *)
(***************************************************************************)
EXTENDS SpreadTrader, FiniteSetTheorems, TLAPS

\* What the fields of the plugin and the awaited request have to do with each other:
\* a tick that creates has no order to remember, and one that cancels is about the
\* order remembered.
TickInv ==
    /\ tick.pc = "idle" => tick = NoTick
    /\ tick.pc = "creating" => lastOrderId = NoId
    /\ tick.pc = "creating" /\ ~ tick.acted => tick.order = NoId
    /\ tick.pc = "canceling" => tick.order = lastOrderId
    /\ tick.pc = "canceling" => tick.order \in Placed
    /\ tick.pc = "canceling" /\ tick.acted => tick.order \notin Open

AttendedInv == TypeOK /\ TickInv /\ OpenIsAttended

Order == [side : Side, status : {"open", "closed", "canceled"}]
Request == [order : Nat, side : Side]
Tick == [pc : {"idle", "canceling", "creating"}, acted : BOOLEAN, order : 0..Len(orders)]

-----------------------------------------------------------------------------
(* What the exchange does to the orders *)

\* A new order is put behind the others, which stay as they are.
LEMMA PlaceOrderEffect ==
    ASSUME orders \in Seq(Order), NEW side \in Side, PlaceOrder(side)
    PROVE  /\ orders' \in Seq(Order)
           /\ Len(orders') = Len(orders) + 1
           /\ Placed' = Placed \cup {Len(orders) + 1}
           /\ Open' = Open \cup {Len(orders) + 1}
  <1>1. [side |-> side, status |-> "open"] \in Order
    BY DEF Order
  <1>2. orders' \in Seq(Order) /\ Len(orders') = Len(orders) + 1
    BY <1>1 DEF PlaceOrder
  <1>3. Placed' = Placed \cup {Len(orders) + 1}
    BY <1>2 DEF Placed
  <1>4. orders'[Len(orders) + 1].status = "open" /\ \A o \in Placed : orders'[o] = orders[o]
    BY <1>1 DEF PlaceOrder, Placed
  <1> QED
    BY <1>2, <1>3, <1>4 DEF Open, Placed

\* An order that is no longer open is the only one to change.
LEMMA SetStatusEffect ==
    ASSUME orders \in Seq(Order), NEW o \in Open, NEW status \in {"closed", "canceled"},
           SetStatus(o, status)
    PROVE  /\ orders' \in Seq(Order)
           /\ Len(orders') = Len(orders)
           /\ Placed' = Placed
           /\ Open' = Open \ {o}
  <1>1. o \in Placed /\ orders[o] \in Order
    BY DEF Open, Placed
  <1>2. [orders[o] EXCEPT !.status = status] \in Order
    BY <1>1 DEF Order
  <1>3. orders' \in Seq(Order) /\ Len(orders') = Len(orders)
    <2>1. orders \in [Placed -> Order] /\ Len(orders) \in Nat
      BY DEF Placed
    <2>2. orders' \in [Placed -> Order]
      BY <1>1, <1>2, <2>1 DEF SetStatus
    <2> QED
      BY <2>1, <2>2 DEF Placed
  <1>4. orders'[o].status = status /\ \A p \in Placed : p # o => orders'[p] = orders[p]
    BY <1>1 DEF SetStatus, Placed, Order
  <1>5. Placed' = Placed
    BY <1>3 DEF Placed
  <1> QED
    BY <1>3, <1>4, <1>5 DEF Open

-----------------------------------------------------------------------------
(* The inductive invariant *)

LEMMA InitAttendedInv == Init => AttendedInv
  <1> SUFFICES ASSUME Init
               PROVE  AttendedInv
    OBVIOUS
  <1>1. Placed = {} /\ Open = {}
    BY DEF Init, Placed, Open
  <1>2. TypeOK
    <2>1. orders \in Seq(Order) /\ Len(orders) = 0 /\ late \subseteq Request /\ forgotten \subseteq Placed
      BY DEF Init
    <2>2. tick \in Tick
      BY <2>1 DEF Init, Tick, NoTick, NoId
    <2>3. lastOrderId \in 0..Len(orders) /\ nextAction \in Side
      BY <2>1 DEF Init, NoId, Side
    <2>4. priced \in BOOLEAN
      BY DEF Init
    <2>5. waiting \in Nat /\ faults \in Nat /\ restarts \in Nat
      BY DEF Init
    <2> QED
      BY <2>1, <2>2, <2>3, <2>4, <2>5 DEF TypeOK, Order, Request, Tick
  <1>3. TickInv
    BY DEF Init, TickInv, NoTick
  <1>4. OpenIsAttended
    BY <1>1 DEF OpenIsAttended
  <1> QED
    BY <1>2, <1>3, <1>4 DEF AttendedInv

\* What a step leaves of the exchange, and what it makes of the plugin, in the terms
\* of the invariant.
LEMMA TypeFromParts ==
    ASSUME orders' \in Seq(Order), late' \subseteq Request, priced' \in BOOLEAN,
           lastOrderId' \in 0..Len(orders'), nextAction' \in Side, tick' \in Tick',
           waiting' \in Nat, forgotten' \subseteq Placed', faults' \in Nat, restarts' \in Nat
    PROVE  TypeOK'
  BY DEF TypeOK, Order, Request, Tick

LEMMA TypeParts ==
    ASSUME TypeOK
    PROVE  /\ orders \in Seq(Order) /\ Len(orders) \in Nat /\ late \subseteq Request
           /\ tick \in Tick /\ Open \subseteq Placed /\ Placed \subseteq Nat \ {NoId}
  BY DEF TypeOK, Order, Request, Tick, Open, Placed, NoId

LEMMA FillStep ==
    ASSUME AttendedInv, NEW o \in Placed, Fill(o)
    PROVE  AttendedInv'
  <1>1. TypeOK /\ TickInv /\ OpenIsAttended
    BY DEF AttendedInv
  <1>2. /\ orders' \in Seq(Order) /\ Len(orders') = Len(orders)
        /\ Placed' = Placed /\ Open' = Open \ {o}
    BY <1>1, TypeParts, SetStatusEffect DEF Fill
  <1>3. TypeOK'
    BY <1>1, <1>2, TypeParts, TypeFromParts DEF Fill, TypeOK, Tick, pluginVars, boundVars
  <1>4. TickInv'
    BY <1>1, <1>2 DEF Fill, TickInv, pluginVars, NoTick
  <1>5. OpenIsAttended'
    BY <1>1, <1>2 DEF Fill, OpenIsAttended, pluginVars
  <1> QED
    BY <1>3, <1>4, <1>5 DEF AttendedInv

LEMMA CreateStep ==
    ASSUME AttendedInv, Create
    PROVE  AttendedInv'
  <1>1. TypeOK /\ TickInv /\ OpenIsAttended
    BY DEF AttendedInv
  <1>2. /\ orders' \in Seq(Order) /\ Len(orders') = Len(orders) + 1
        /\ Placed' = Placed \cup {Len(orders) + 1} /\ Open' = Open \cup {Len(orders) + 1}
    BY <1>1, TypeParts, PlaceOrderEffect DEF Create, TypeOK
  <1>3. tick'.pc = "creating" /\ tick'.acted = TRUE /\ tick'.order = Len(orders) + 1 /\ tick' \in Tick'
    <2>1. tick \in Tick /\ Len(orders) \in Nat /\ Len(orders') = Len(orders) + 1
      BY <1>1, <1>2, TypeParts
    <2>2. tick' = [pc |-> "creating", acted |-> TRUE, order |-> Len(orders) + 1]
      BY <2>1 DEF Create, Tick
    <2>3. Len(orders) + 1 \in 0..Len(orders')
      BY <2>1
    <2> QED
      BY <2>2, <2>3 DEF Tick
  <1>4. TypeOK'
    <2>1. lastOrderId' \in 0..Len(orders') /\ forgotten' \subseteq Placed'
      BY <1>1, <1>2, TypeParts DEF Create, TypeOK
    <2> QED
      BY <1>1, <1>2, <1>3, <2>1, TypeParts, TypeFromParts DEF Create, TypeOK, boundVars
  <1>5. TickInv'
    BY <1>1, <1>3 DEF Create, TickInv
  <1>6. Open \ forgotten = {}
    BY <1>1, TypeParts DEF Create, TickInv, OpenIsAttended
  <1>7. OpenIsAttended'
    BY <1>2, <1>3, <1>6 DEF Create, OpenIsAttended
  <1> QED
    BY <1>4, <1>5, <1>7 DEF AttendedInv

LEMMA CancelStep ==
    ASSUME AttendedInv, Cancel
    PROVE  AttendedInv'
  <1>1. TypeOK /\ TickInv /\ OpenIsAttended
    BY DEF AttendedInv
  <1>2. /\ orders' \in Seq(Order) /\ Len(orders') = Len(orders)
        /\ Placed' = Placed /\ Open' = Open \ {tick.order}
    BY <1>1, TypeParts, SetStatusEffect DEF Cancel
  <1>3. tick'.pc = "canceling" /\ tick'.acted = TRUE /\ tick'.order = tick.order /\ tick' \in Tick'
    BY <1>1, <1>2, TypeParts DEF Cancel, Tick
  <1>4. TypeOK'
    BY <1>1, <1>2, <1>3, TypeParts, TypeFromParts DEF Cancel, TypeOK, boundVars
  <1>5. TickInv'
    BY <1>1, <1>2, <1>3 DEF Cancel, TickInv
  <1>6. OpenIsAttended'
    BY <1>1, <1>2, <1>3 DEF Cancel, OpenIsAttended
  <1> QED
    BY <1>4, <1>5, <1>6 DEF AttendedInv

LEMMA ActLateStep ==
    ASSUME AttendedInv, ActLate
    PROVE  AttendedInv'
  <1>1. TypeOK /\ TickInv /\ OpenIsAttended
    BY DEF AttendedInv
  <1>2. PICK r \in late : /\ late' = late \ {r}
                          /\ \/ /\ r.order = NoId
                                /\ PlaceOrder(r.side)
                                /\ forgotten' = forgotten \cup {Len(orders) + 1}
                             \/ /\ r.order \in Open
                                /\ SetStatus(r.order, "canceled")
                                /\ UNCHANGED forgotten
    BY DEF ActLate
  <1>3. r.side \in Side
    BY <1>1, TypeParts DEF Request
  <1>4. UNCHANGED <<priced, lastOrderId, nextAction, tick, waiting, faults, restarts>>
    BY DEF ActLate, pluginVars, boundVars
  <1>5. CASE PlaceOrder(r.side) /\ forgotten' = forgotten \cup {Len(orders) + 1}
    <2>1. /\ orders' \in Seq(Order) /\ Len(orders') = Len(orders) + 1
          /\ Placed' = Placed \cup {Len(orders) + 1} /\ Open' = Open \cup {Len(orders) + 1}
      BY <1>1, <1>3, <1>5, TypeParts, PlaceOrderEffect
    <2>2. tick' \in Tick'
      BY <1>1, <1>4, <2>1, TypeParts DEF Tick
    <2>3. lastOrderId' \in 0..Len(orders') /\ forgotten' \subseteq Placed'
      BY <1>1, <1>4, <1>5, <2>1, TypeParts DEF TypeOK
    <2>4. TypeOK'
      BY <1>1, <1>2, <1>4, <2>1, <2>2, <2>3, TypeParts, TypeFromParts DEF TypeOK
    <2>5. Len(orders) + 1 \notin Placed
      BY <1>1, TypeParts DEF Placed
    <2>6. TickInv'
      BY <1>1, <1>4, <2>1, <2>5 DEF TickInv, NoTick
    <2>7. OpenIsAttended'
      BY <1>1, <1>4, <1>5, <2>1 DEF OpenIsAttended
    <2> QED
      BY <2>4, <2>6, <2>7 DEF AttendedInv
  <1>6. CASE r.order \in Open /\ SetStatus(r.order, "canceled") /\ UNCHANGED forgotten
    <2>1. /\ orders' \in Seq(Order) /\ Len(orders') = Len(orders)
          /\ Placed' = Placed /\ Open' = Open \ {r.order}
      BY <1>1, <1>6, TypeParts, SetStatusEffect
    <2>2. tick' \in Tick'
      BY <1>1, <1>4, <2>1, TypeParts DEF Tick
    <2>3. TypeOK'
      BY <1>1, <1>2, <1>4, <1>6, <2>1, <2>2, TypeParts, TypeFromParts DEF TypeOK
    <2>4. TickInv'
      BY <1>1, <1>4, <2>1 DEF TickInv, NoTick
    <2>5. OpenIsAttended'
      BY <1>1, <1>4, <1>6, <2>1 DEF OpenIsAttended
    <2> QED
      BY <2>3, <2>4, <2>5 DEF AttendedInv
  <1> QED
    BY <1>2, <1>5, <1>6

-----------------------------------------------------------------------------
(* Steps of the plugin, which leave the orders alone *)

\* What the orders give to a step that does not touch them.
LEMMA OrdersStay ==
    ASSUME TypeOK, UNCHANGED orders
    PROVE  /\ orders' \in Seq(Order) /\ Len(orders') = Len(orders)
           /\ Placed' = Placed /\ Open' = Open /\ Tick' = Tick
  BY TypeParts DEF Placed, Open, Tick

LEMMA WaitStep ==
    ASSUME AttendedInv, Handle \/ Interval
    PROVE  AttendedInv'
  <1>1. TypeOK /\ TickInv /\ OpenIsAttended
    BY DEF AttendedInv
  <1>2. UNCHANGED <<orders, late, lastOrderId, nextAction, tick, forgotten, faults, restarts>>
    BY DEF Handle, Interval, boundVars
  <1>3. priced' \in BOOLEAN /\ waiting' \in Nat
    BY <1>1 DEF Handle, Interval, TypeOK
  <1>4. TypeOK'
    BY <1>1, <1>2, <1>3, OrdersStay, TypeParts, TypeFromParts DEF TypeOK
  <1>5. TickInv' /\ OpenIsAttended'
    BY <1>1, <1>2, OrdersStay DEF TickInv, OpenIsAttended, NoTick
  <1> QED
    BY <1>4, <1>5 DEF AttendedInv

\* A tick without an order to cancel goes on to create one, or ends.
LEMMA CreateNextEffect ==
    ASSUME TypeOK, UNCHANGED orders, CreateNext
    PROVE  /\ tick' \in Tick'
           /\ tick'.pc \in {"idle", "creating"} /\ tick'.acted = FALSE /\ tick'.order = NoId
           /\ tick'.pc = "idle" => tick' = NoTick
  BY OrdersStay, TypeParts DEF CreateNext, Creating, NoTick, Tick, NoId

\* As lastOrderId names no order, the tick may place one.
LEMMA CreateNextInv ==
    ASSUME UNCHANGED orders, TypeOK, CreateNext, lastOrderId' = NoId
    PROVE  TickInv'
  BY CreateNextEffect DEF TickInv

LEMMA AcquireStep ==
    ASSUME AttendedInv, Acquire
    PROVE  AttendedInv'
  <1>1. TypeOK /\ TickInv /\ OpenIsAttended
    BY DEF AttendedInv
  <1>2. UNCHANGED <<orders, late, priced, lastOrderId, nextAction, forgotten, faults, restarts>>
    BY DEF Acquire, boundVars
  <1>3. waiting' \in Nat /\ tick = NoTick
    BY <1>1 DEF Acquire, TypeOK, TickInv
  <1>4. tick' \in Tick' /\ TickInv'
    <2>1. CASE lastOrderId # NoId /\ tick' = Canceling(lastOrderId)
      <3>1. lastOrderId \in 0..Len(orders) /\ lastOrderId \in Placed /\ lastOrderId' = lastOrderId
        BY <1>1, <1>2, <2>1, TypeParts DEF TypeOK, Placed, NoId
      <3>2. tick'.pc = "canceling" /\ tick'.acted = FALSE /\ tick'.order = lastOrderId
        BY <2>1 DEF Canceling
      <3>3. tick' \in Tick'
        BY <1>1, <1>2, <2>1, <3>1, OrdersStay DEF Canceling, Tick
      <3> QED
        BY <1>1, <1>2, <3>1, <3>2, <3>3, OrdersStay DEF TickInv
    <2>2. CASE lastOrderId = NoId /\ CreateNext
      BY <1>1, <1>2, <2>2, CreateNextEffect, CreateNextInv
    <2> QED
      BY <2>1, <2>2 DEF Acquire
  <1>5. TypeOK'
    BY <1>1, <1>2, <1>3, <1>4, OrdersStay, TypeParts, TypeFromParts DEF TypeOK
  <1>6. \A o \in Open \ forgotten : o = lastOrderId
    BY <1>1, <1>3, TypeParts DEF OpenIsAttended, NoTick
  <1>7. OpenIsAttended'
    BY <1>1, <1>2, <1>6, OrdersStay DEF OpenIsAttended
  <1> QED
    BY <1>4, <1>5, <1>7 DEF AttendedInv

\* Both endings of a cancellation forget the order, which is no longer open or not
\* the plugin's business any more.
LEMMA CanceledStep ==
    ASSUME AttendedInv, AnswerCancel \/ AnswerCancelEmpty
    PROVE  AttendedInv'
  <1>1. TypeOK /\ TickInv /\ OpenIsAttended
    BY DEF AttendedInv
  <1>2. /\ tick.pc = "canceling" /\ CreateNext /\ lastOrderId' = NoId
        /\ UNCHANGED <<orders, late, priced, nextAction, waiting, restarts>>
    BY DEF AnswerCancel, AnswerCancelEmpty, Canceled
  <1>3. faults' \in Nat
    BY <1>1 DEF AnswerCancel, AnswerCancelEmpty, Fault, TypeOK
  <1>4. forgotten' \subseteq Placed /\ Open \ forgotten' = {}
    <2>1. \A o \in Open \ forgotten : o = tick.order
      BY <1>1, <1>2 DEF OpenIsAttended, TickInv
    <2>2. CASE AnswerCancel
      BY <1>1, <1>2, <2>1, <2>2 DEF AnswerCancel, TickInv, TypeOK
    <2>3. CASE AnswerCancelEmpty
      BY <1>1, <2>1, <2>3, TypeParts DEF AnswerCancelEmpty, TypeOK
    <2> QED
      BY <2>2, <2>3
  <1>5. tick' \in Tick' /\ TickInv'
    BY <1>1, <1>2, CreateNextEffect, CreateNextInv
  <1>6. lastOrderId' \in 0..Len(orders')
    BY <1>1, <1>2, OrdersStay, TypeParts DEF NoId
  <1>7. TypeOK'
    BY <1>1, <1>2, <1>3, <1>4, <1>5, <1>6, OrdersStay, TypeParts, TypeFromParts DEF TypeOK
  <1>8. OpenIsAttended'
    BY <1>1, <1>2, <1>4, OrdersStay DEF OpenIsAttended
  <1> QED
    BY <1>5, <1>7, <1>8 DEF AttendedInv

\* A tick that ends leaves nothing but lastOrderId to tell of its order.
LEMMA TickEndsInv ==
    ASSUME TypeOK, UNCHANGED orders, tick' = NoTick
    PROVE  tick' \in Tick' /\ TickInv'
  BY OrdersStay, TypeParts DEF NoTick, Tick, TickInv, NoId

LEMMA CreatedStep ==
    ASSUME AttendedInv, AnswerCreate \/ AnswerCreateEmpty
    PROVE  AttendedInv'
  <1>1. TypeOK /\ TickInv /\ OpenIsAttended
    BY DEF AttendedInv
  <1>2. /\ tick.pc = "creating" /\ nextAction' = Opposite(nextAction) /\ tick' = NoTick
        /\ UNCHANGED <<orders, late, priced, waiting, restarts>>
    BY DEF AnswerCreate, AnswerCreateEmpty, Created
  <1>3. faults' \in Nat /\ nextAction' \in Side
    BY <1>1, <1>2 DEF AnswerCreate, AnswerCreateEmpty, Fault, TypeOK, Opposite, Side
  <1>4. tick.order \in 0..Len(orders) /\ lastOrderId = NoId
    BY <1>1, <1>2, TypeParts DEF Tick, TickInv
  <1>5. \A o \in Open \ forgotten : o = tick.order
    BY <1>1, <1>4, TypeParts DEF OpenIsAttended
  <1>6. /\ lastOrderId' \in 0..Len(orders) /\ forgotten' \subseteq Placed
        /\ \A o \in Open \ forgotten' : o = lastOrderId'
    <2>1. CASE AnswerCreate
      BY <1>1, <1>4, <1>5, <2>1 DEF AnswerCreate, Created, TypeOK
    <2>2. CASE AnswerCreateEmpty
      <3>1. lastOrderId' = NoId /\ forgotten' = forgotten \cup ({tick.order} \ {NoId})
        BY <2>2 DEF AnswerCreateEmpty, Created
      <3>2. {tick.order} \ {NoId} \subseteq Placed
        BY <1>1, <1>4, TypeParts DEF Placed, NoId
      <3> QED
        BY <1>1, <1>5, <3>1, <3>2, TypeParts DEF TypeOK, NoId
    <2> QED
      BY <2>1, <2>2
  <1>7. tick' \in Tick' /\ TickInv'
    BY <1>1, <1>2, TickEndsInv
  <1>8. TypeOK'
    BY <1>1, <1>2, <1>3, <1>6, <1>7, OrdersStay, TypeParts, TypeFromParts DEF TypeOK
  <1>9. OpenIsAttended'
    BY <1>1, <1>2, <1>6, OrdersStay DEF OpenIsAttended
  <1> QED
    BY <1>7, <1>8, <1>9 DEF AttendedInv

LEMMA AbandonedType ==
    ASSUME TypeOK
    PROVE  Abandoned \subseteq Request
  <1>1. tick.order \in Nat /\ nextAction \in Side
    BY TypeParts DEF TypeOK, Tick
  <1> QED
    BY <1>1 DEF Abandoned, Request

LEMMA TimeoutStep ==
    ASSUME AttendedInv, Timeout
    PROVE  AttendedInv'
  <1>1. TypeOK /\ TickInv /\ OpenIsAttended
    BY DEF AttendedInv
  <1>2. /\ tick' = NoTick /\ late' = late \cup Abandoned
        /\ UNCHANGED <<orders, priced, lastOrderId, nextAction, waiting, restarts>>
    BY DEF Timeout
  <1>3. faults' \in Nat /\ late' \subseteq Request
    BY <1>1, <1>2, AbandonedType, TypeParts DEF Timeout, Fault, TypeOK
  <1>4. /\ forgotten' \subseteq Placed
        /\ \A o \in Open \ forgotten' : o = lastOrderId
    <2>1. CASE tick.pc = "creating"
      <3>1. forgotten' = forgotten \cup ({tick.order} \ {NoId})
        BY <2>1 DEF Timeout
      <3>2. {tick.order} \ {NoId} \subseteq Placed
        BY <1>1, TypeParts DEF Tick, Placed, NoId
      <3>3. \A o \in Open \ forgotten : o = tick.order \/ o = lastOrderId
        BY <1>1 DEF OpenIsAttended
      <3> QED
        BY <1>1, <3>1, <3>2, <3>3, TypeParts DEF TypeOK
    <2>2. CASE tick.pc # "creating"
      <3>1. forgotten' = forgotten
        BY <2>2 DEF Timeout
      <3>2. tick.pc = "canceling"
        BY <1>1, <2>2, TypeParts DEF Timeout, Tick
      <3> QED
        BY <1>1, <3>1, <3>2 DEF TypeOK, TickInv, OpenIsAttended
    <2> QED
      BY <2>1, <2>2
  <1>5. tick' \in Tick' /\ TickInv'
    BY <1>1, <1>2, TickEndsInv
  <1>6. TypeOK'
    BY <1>1, <1>2, <1>3, <1>4, <1>5, OrdersStay, TypeParts, TypeFromParts DEF TypeOK
  <1>7. OpenIsAttended'
    BY <1>1, <1>2, <1>4, OrdersStay DEF OpenIsAttended
  <1> QED
    BY <1>5, <1>6, <1>7 DEF AttendedInv

LEMMA RestartStep ==
    ASSUME AttendedInv, Restart
    PROVE  AttendedInv'
  <1>1. TypeOK
    BY DEF AttendedInv
  <1>2. /\ UNCHANGED <<orders, faults>> /\ tick' = NoTick /\ lastOrderId' = NoId /\ forgotten' = Placed
        /\ nextAction' = "buy" /\ waiting' = 0 /\ late' = late \cup Abandoned
    BY DEF Restart
  <1>3. priced' \in BOOLEAN
    BY DEF Restart
  <1>4. restarts' \in Nat /\ late' \subseteq Request /\ nextAction' \in Side
    BY <1>1, <1>2, AbandonedType, TypeParts DEF Restart, TypeOK, Side
  <1>5. tick' \in Tick' /\ TickInv'
    BY <1>1, <1>2, TickEndsInv
  <1>6. lastOrderId' \in 0..Len(orders')
    BY <1>1, <1>2, OrdersStay, TypeParts DEF NoId
  <1>7. TypeOK'
    BY <1>1, <1>2, <1>3, <1>4, <1>5, <1>6, OrdersStay, TypeParts, TypeFromParts DEF TypeOK
  <1>8. OpenIsAttended'
    BY <1>1, <1>2, OrdersStay, TypeParts DEF OpenIsAttended
  <1> QED
    BY <1>5, <1>7, <1>8 DEF AttendedInv

LEMMA NextAttendedInv == AttendedInv /\ [Next]_vars => AttendedInv'
  <1> SUFFICES ASSUME AttendedInv, [Next]_vars
               PROVE  AttendedInv'
    OBVIOUS
  <1>1. ASSUME NEW o \in Placed, Fill(o) PROVE AttendedInv'
    BY <1>1, FillStep
  <1>2. CASE Exchange
    BY <1>2, CreateStep, CancelStep, ActLateStep DEF Exchange
  <1>3. CASE Handle \/ Interval
    BY <1>3, WaitStep
  <1>4. CASE Acquire
    BY <1>4, AcquireStep
  <1>5. CASE Answered
    BY <1>5, CanceledStep, CreatedStep, TimeoutStep DEF Answered
  <1>6. CASE Restart
    BY <1>6, RestartStep
  <1>7. CASE UNCHANGED vars
    <2>1. TypeOK /\ TickInv /\ OpenIsAttended
      BY DEF AttendedInv
    <2>2. UNCHANGED <<orders, late, priced, lastOrderId, nextAction, tick, waiting, forgotten, faults, restarts>>
      BY <1>7 DEF vars, pluginVars, boundVars
    <2>3. TypeOK'
      BY <2>1, <2>2, OrdersStay, TypeParts, TypeFromParts DEF TypeOK
    <2>4. TickInv' /\ OpenIsAttended'
      BY <2>1, <2>2, OrdersStay DEF TickInv, OpenIsAttended, NoTick
    <2> QED
      BY <2>3, <2>4 DEF AttendedInv
  <1> QED
    BY <1>1, <1>2, <1>3, <1>4, <1>5, <1>6, <1>7 DEF Next

-----------------------------------------------------------------------------
\* The variables of the spread trader keep their types, in particular lastOrderId names
\* an order of the exchange or none.
THEOREM TypeCorrect == Spec => []TypeOK
  <1>1. AttendedInv => TypeOK
    BY DEF AttendedInv
  <1> QED
    BY InitAttendedInv, NextAttendedInv, <1>1, PTL DEF Spec

\* However many ticks pile up behind the lock and requests fail: an open order whose
\* fate the plugin heard of is the one this tick is about or the next one cancels.
THEOREM NoneUnattended == Spec => []OpenIsAttended
  <1>1. AttendedInv => OpenIsAttended
    BY DEF AttendedInv
  <1> QED
    BY InitAttendedInv, NextAttendedInv, <1>1, PTL DEF Spec

\* There is at most one such order, as lastOrderId is cleared before a tick submits.
THEOREM OneAttended == Spec => []AtMostOneAttended
  <1>1. ASSUME AttendedInv
        PROVE  AtMostOneAttended
    <2>1. TypeOK /\ TickInv /\ OpenIsAttended
      BY <1>1 DEF AttendedInv
    <2>2. PICK x : Open \ forgotten \subseteq {x}
      <3>1. CASE tick.pc = "creating"
        BY <2>1, <3>1, TypeParts DEF TickInv, OpenIsAttended
      <3>2. CASE tick.pc # "creating"
        BY <2>1, <3>2, TypeParts DEF TickInv, OpenIsAttended, NoTick, Tick
      <3> QED
        BY <3>1, <3>2
    <2>3. IsFiniteSet({x}) /\ Cardinality({x}) = 1
      BY FS_Singleton
    <2>4. /\ Cardinality(Open \ forgotten) <= Cardinality({x})
      BY <2>2, <2>3, FS_Subset
    <2> QED
      BY <2>3, <2>4 DEF AtMostOneAttended
  <1> QED
    BY InitAttendedInv, NextAttendedInv, <1>1, PTL DEF Spec
=============================================================================
