---------------------------- MODULE SpreadTrader ----------------------------
(***************************************************************************)
(* The spread trader plugin of magicbox.  Every 5 s a tick takes the lock, *)
(* cancels the order of an earlier tick, and submits the next one in the   *)
(* middle of the spread, buying and selling in turn.                       *)
(*                                                                         *)
(* Both requests to the executor end with an answer, with an empty body    *)
(* (the executor swallowed an error) or with an exception after 2 s; the   *)
(* last two leave open whether the exchange did what was asked.  The ticks *)
(* that find the lock taken wait for it; as a tick takes 4 s at most, none *)
(* waits for the 90 s after which it would fail.                           *)
(*                                                                         *)
(* Left out: prices, and what the plugin notes in Redis.                   *)
(***************************************************************************)
EXTENDS Integers, Sequences, FiniteSets

CONSTANTS
    MaxOrders,  \* bound: orders the exchange accepts
    MaxWaiting, \* bound: ticks that wait for the lock
    MaxFaults,  \* bound: requests answered empty for no good reason, or not in time
    MaxRestarts \* bound: restarts of the magicbox worker

VARIABLES
    orders,      \* exchange: the orders of this plugin, by id
    late,        \* executor: requests nobody waits for any more
    priced,      \* this.balance and this.spread are both there
    lastOrderId, \* NoId for undefined and null
    nextAction,  \* the side of the next order
    tick,        \* what the tick that holds the lock awaits
    waiting,     \* ticks that wait for the lock
    forgotten,   \* history: orders whose fate the plugin did not hear of
    faults, restarts

pluginVars == <<priced, lastOrderId, nextAction, tick, waiting>>
boundVars  == <<faults, restarts>>
vars == <<orders, late, pluginVars, forgotten, boundVars>>

-----------------------------------------------------------------------------
Side == {"buy", "sell"}
NoId == 0

Opposite(side) == IF side = "buy" THEN "sell" ELSE "buy"

\* What the holder of the lock awaits: the cancellation of an order, or a new one.
\* acted tells whether the exchange has done it yet, order which order it is about.
NoTick       == [pc |-> "idle", acted |-> FALSE, order |-> NoId]
Canceling(o) == [pc |-> "canceling", acted |-> FALSE, order |-> o]
Creating     == [pc |-> "creating", acted |-> FALSE, order |-> NoId]

Placed == 1..Len(orders)
Open   == {o \in Placed : orders[o].status = "open"}

PlaceOrder(side) ==
    /\ Len(orders) < MaxOrders
    /\ orders' = Append(orders, [side |-> side, status |-> "open"])

SetStatus(o, status) == orders' = [orders EXCEPT ![o].status = status]

Fault == faults < MaxFaults /\ faults' = faults + 1

-----------------------------------------------------------------------------
(* The exchange *)

Fill(o) ==
    /\ o \in Open
    /\ SetStatus(o, "closed")
    /\ UNCHANGED <<late, pluginVars, forgotten, boundVars>>

Create ==
    /\ tick.pc = "creating" /\ ~ tick.acted
    /\ PlaceOrder(nextAction)
    /\ tick' = [tick EXCEPT !.acted = TRUE, !.order = Len(orders) + 1]
    /\ UNCHANGED <<late, priced, lastOrderId, nextAction, waiting, forgotten, boundVars>>

Cancel ==
    /\ tick.pc = "canceling" /\ ~ tick.acted
    /\ tick.order \in Open
    /\ SetStatus(tick.order, "canceled")
    /\ tick' = [tick EXCEPT !.acted = TRUE]
    /\ UNCHANGED <<late, priced, lastOrderId, nextAction, waiting, forgotten, boundVars>>

\* A request the plugin gave up on is carried out after all.
ActLate ==
    /\ \E r \in late :
        /\ late' = late \ {r}
        /\ \/ /\ r.order = NoId
              /\ PlaceOrder(r.side)
              /\ forgotten' = forgotten \cup {Len(orders) + 1}
           \/ /\ r.order \in Open
              /\ SetStatus(r.order, "canceled")
              /\ UNCHANGED forgotten
    /\ UNCHANGED <<pluginVars, boundVars>>

-----------------------------------------------------------------------------
(* Handle *)

\* Balances and order books come in.  A book without bids or asks has no spread.
Handle ==
    /\ priced' \in BOOLEAN
    /\ UNCHANGED <<orders, late, lastOrderId, nextAction, tick, waiting, forgotten, boundVars>>

-----------------------------------------------------------------------------
(* tick *)

Interval ==
    /\ waiting < MaxWaiting
    /\ waiting' = waiting + 1
    /\ UNCHANGED <<orders, late, priced, lastOrderId, nextAction, tick, forgotten, boundVars>>

\* With the data at hand an order is created, otherwise the lock is given back.
CreateNext == tick' = IF priced THEN Creating ELSE NoTick

\* Variant: nobody need have asked for the lock.
AcquireUnasked ==
    /\ tick.pc = "idle"
    /\ waiting' = waiting - 1
    /\ \/ lastOrderId # NoId /\ tick' = Canceling(lastOrderId)
       \/ lastOrderId = NoId /\ CreateNext
    /\ UNCHANGED <<orders, late, priced, lastOrderId, nextAction, forgotten, boundVars>>

\* Variant: the order of the last tick is left alone.
AcquireCreating ==
    /\ tick.pc = "idle" /\ waiting > 0
    /\ waiting' = waiting - 1
    /\ CreateNext
    /\ UNCHANGED <<orders, late, priced, lastOrderId, nextAction, forgotten, boundVars>>

Acquire ==
    /\ tick.pc = "idle" /\ waiting > 0
    /\ waiting' = waiting - 1
    /\ \/ lastOrderId # NoId /\ tick' = Canceling(lastOrderId)
       \/ lastOrderId = NoId /\ CreateNext
    /\ UNCHANGED <<orders, late, priced, lastOrderId, nextAction, forgotten, boundVars>>

Canceled ==
    /\ lastOrderId' = NoId
    /\ CreateNext
    /\ UNCHANGED <<late, priced, nextAction, waiting, restarts>>

\* The order was canceled, or turned out to be filled (an empty body).
AnswerCancel ==
    /\ tick.pc = "canceling"
    /\ tick.acted \/ tick.order \notin Open
    /\ Canceled
    /\ UNCHANGED <<orders, forgotten, faults>>

\* The executor failed to cancel; the body is not looked at.
AnswerCancelEmpty ==
    /\ tick.pc = "canceling" /\ tick.order \in Open
    /\ Fault
    /\ Canceled
    /\ forgotten' = forgotten \cup {tick.order}
    /\ UNCHANGED orders

\* Variant: the order is not remembered.
CreatedUnnoted(id) ==
    /\ nextAction' = Opposite(nextAction)
    /\ tick' = NoTick
    /\ UNCHANGED <<lastOrderId, orders, late, priced, waiting, restarts>>

Created(id) ==
    /\ lastOrderId' = id
    /\ nextAction' = Opposite(nextAction)
    /\ tick' = NoTick
    /\ UNCHANGED <<orders, late, priced, waiting, restarts>>

AnswerCreate ==
    /\ tick.pc = "creating" /\ tick.acted
    /\ Created(tick.order)
    /\ UNCHANGED <<forgotten, faults>>

\* An empty body has no id, and counts as an order.
AnswerCreateEmpty ==
    /\ tick.pc = "creating"
    /\ Fault
    /\ Created(NoId)
    /\ forgotten' = forgotten \cup ({tick.order} \ {NoId})

Abandoned ==
    IF tick.pc = "idle" \/ tick.acted THEN {} ELSE {[order |-> tick.order, side |-> nextAction]}

\* Variant: done is not called in the catch clause.
TimeoutHolding ==
    /\ tick.pc # "idle"
    /\ Fault
    /\ late' = late \cup Abandoned
    /\ forgotten' = forgotten \cup (IF tick.pc = "creating" THEN {tick.order} \ {NoId} ELSE {})
    /\ tick' = [tick EXCEPT !.pc = "stuck"]
    /\ UNCHANGED <<orders, priced, lastOrderId, nextAction, waiting, restarts>>

\* No answer within 2 s: the exception goes to done, lastOrderId stays as it is.
Timeout ==
    /\ tick.pc # "idle"
    /\ Fault
    /\ late' = late \cup Abandoned
    /\ forgotten' = forgotten \cup (IF tick.pc = "creating" THEN {tick.order} \ {NoId} ELSE {})
    /\ tick' = NoTick
    /\ UNCHANGED <<orders, priced, lastOrderId, nextAction, waiting, restarts>>

\* The worker is terminated and started again.
Restart ==
    /\ restarts < MaxRestarts
    /\ restarts' = restarts + 1
    /\ late' = late \cup Abandoned
    /\ forgotten' = Placed
    /\ priced' = FALSE
    /\ lastOrderId' = NoId
    /\ nextAction' = "buy"
    /\ tick' = NoTick
    /\ waiting' = 0
    /\ UNCHANGED <<orders, faults>>

-----------------------------------------------------------------------------
Init ==
    /\ orders = <<>>
    /\ late = {}
    /\ priced = FALSE
    /\ lastOrderId = NoId
    /\ nextAction = "buy"
    /\ tick = NoTick
    /\ waiting = 0
    /\ forgotten = {}
    /\ faults = 0 /\ restarts = 0

Answered == \/ AnswerCancel \/ AnswerCancelEmpty
            \/ AnswerCreate \/ AnswerCreateEmpty \/ Timeout

Exchange == Create \/ Cancel \/ ActLate

Next ==
    \/ \E o \in Placed : Fill(o)
    \/ Exchange
    \/ Handle
    \/ Interval \/ Acquire \/ Answered
    \/ Restart

Spec == Init /\ [][Next]_vars

\* The timer goes off, the event loop starts the waiting tick, and a request is
\* carried out and answered, or times out.
FairSpec ==
    /\ Spec
    /\ WF_vars(Interval) /\ WF_vars(Acquire) /\ WF_vars(Answered)
    /\ WF_vars(Create) /\ WF_vars(Cancel)

-----------------------------------------------------------------------------
(* Properties *)

TypeOK ==
    /\ orders \in Seq([side : Side, status : {"open", "closed", "canceled"}])
    /\ late \subseteq [order : Nat, side : Side]
    /\ priced \in BOOLEAN
    /\ lastOrderId \in 0..Len(orders)
    /\ nextAction \in Side
    /\ tick \in [pc : {"idle", "canceling", "creating"}, acted : BOOLEAN, order : 0..Len(orders)]
    /\ waiting \in Nat
    /\ forgotten \subseteq Placed
    /\ faults \in Nat /\ restarts \in Nat

\* An open order whose fate the plugin heard of is the one this tick is about or the
\* next one cancels: however ticks pile up behind the lock and fills fall between
\* them, none is left in the market unattended.
OpenIsAttended ==
    \A o \in Open \ forgotten : o = lastOrderId \/ o = tick.order

\* There is one such order at most: a tick places the next one only when the order of
\* the tick before is gone or given up.
AtMostOneAttended == Cardinality(Open \ forgotten) <= 1

\* A tick always ends and gives the lock back, however its requests end (an order
\* beyond the bound is never placed).
TickEnds == (tick.pc # "idle") ~> (tick.pc = "idle" \/ Len(orders) = MaxOrders)
=============================================================================
