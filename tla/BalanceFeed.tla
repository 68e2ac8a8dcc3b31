------------------------------ MODULE BalanceFeed ------------------------------
(***************************************************************************)
(* The balances of one account of an exchange: the two loops of            *)
(* DataStreamerService that poll fetchBalance and await watchBalance, and  *)
(* the handlers of the gatherer's worker that publish what changed.        *)
(*                                                                         *)
(* The worker subscribes once per symbol of its plan, so an answer is      *)
(* handled once per symbol; every symbol compares with a clone of its own  *)
(* and all of them write to the one watchBalance stream of the exchange.   *)
(* A handler sets its clone after it has awaited its write, first XADD and *)
(* then XTRIM: the stream has the entry before, and other answers are      *)
(* handled in between.                                                     *)
(*                                                                         *)
(* A balance is a function from the tokens it names.  An answer is taken   *)
(* not to change once it was handed out.  A handler whose write is         *)
(* rejected ends there, and the worker goes on: LoggingService listens for *)
(* uncaught exceptions.  The exchange has fetchBalance: without it nothing *)
(* is subscribed.                                                          *)
(***************************************************************************)
EXTENDS Naturals, Sequences, FiniteSets

CONSTANTS
    Token,       \* currencies of the account
    Value,       \* amounts of a currency
    Holdings,    \* what the account may hold of each
    Opening,     \* what it holds at first
    NSymbols,    \* symbols of the plan, in its order
    Quit,        \* NUMBER_OF_ERROR_BEFORE_QUITTING
    MaxChanges,  \* bound: changes of the account
    MaxErrors,   \* bound: answers of the exchange that are rejected
    MaxFaults,   \* bound: writes that are rejected and deaths of the worker
    MaxWrites    \* bound: writes under way when an answer is handled

ASSUME OpeningAssumption == Holdings \subseteq [Token -> Value] /\ Opening \in Holdings

\* An account has some currency.
ASSUME TokenAssumption == Token # {}

ASSUME BoundsAssumption ==
    /\ NSymbols \in Nat \ {0} /\ Quit \in Nat
    /\ MaxChanges \in Nat /\ MaxErrors \in Nat /\ MaxFaults \in Nat /\ MaxWrites \in Nat

VARIABLES
    account,   \* exchange: the balance of each token
    watches,   \* exchange: whether it has watchBalance
    news,      \* exchange: answers watchBalance has yet to give
    running,   \* the worker is up
    loop,      \* the loop of each action
    answer,    \* fetchBalance: the answer under way
    clone,     \* balanceClone of each symbol
    writes,    \* entries whose handlers await XADD or XTRIM, in the order they were sent
    added,     \* how many of them the stream has
    latest,    \* the last entry of the stream
    torn,      \* history: the handler that sent it was cut short
    changes, errors, faults

exchangeVars == <<account, watches, news, changes>>
loopVars     == <<loop, answer, errors>>
handlerVars  == <<clone, writes, added, torn>>
vars == <<exchangeVars, running, loopVars, handlerVars, latest, faults>>

Action == {"fetchBalance", "watchBalance"}
Symbol == 1..NSymbols

\* An answer names some token, so it is never taken for no answer.
Unknown == [t \in {} |-> Opening]
Balance == UNION {[T -> Value] : T \in SUBSET Token}

\* errorCount and whether lastError is set.
NewLoop(pc) == [pc |-> pc, errorCount |-> 0, lastError |-> FALSE]

-----------------------------------------------------------------------------
(* The exchange *)

\* The balances of some tokens change; the answer of watchBalance names them and may
\* name others.
Change(new, named) ==
    /\ changes < MaxChanges
    /\ new # account /\ {t \in Token : new[t] # account[t]} \subseteq named
    /\ account' = new
    /\ changes' = changes + 1
    /\ news' = IF running /\ watches
               THEN Append(news, [t \in named |-> new[t]]) ELSE news
    /\ UNCHANGED <<watches, running, loopVars, handlerVars, latest, faults>>

\* The loop has slept, fetchBalance was called and the exchange answers.
Serve ==
    /\ loop["fetchBalance"].pc = "waiting"
    /\ loop' = [loop EXCEPT !["fetchBalance"].pc = "served"]
    /\ answer' = account
    /\ UNCHANGED <<exchangeVars, running, errors, handlerVars, latest, faults>>

-----------------------------------------------------------------------------
(* The loops *)

\* Variant: one error too few is forgiven, and errors far apart count too.
AfterErrorStrict(l, soon) ==
    IF l.errorCount >= Quit
    THEN [l EXCEPT !.pc = "ended"]
    ELSE [l EXCEPT !.pc = "waiting", !.lastError = TRUE, !.errorCount = @ + 1]
\* Variant: the loop never ends.
AfterErrorEndless(l, soon) ==
    [l EXCEPT !.pc = "waiting", !.lastError = TRUE,
              !.errorCount = IF l.lastError /\ soon THEN @ + 1 ELSE 0]
\* A rejected answer: the loop ends when it counted too many errors before this one,
\* and counts this one if it came soon after the last.
AfterError(l, soon) ==
    IF l.errorCount > Quit
    THEN [l EXCEPT !.pc = "ended"]
    ELSE [l EXCEPT !.pc = "waiting", !.lastError = TRUE,
                   !.errorCount = IF l.lastError /\ soon THEN @ + 1 ELSE 0]

\* The answers of watchBalance under way may be lost with its connection.
Fail(a, soon) ==
    /\ loop[a].pc \in {"waiting", "served"} /\ errors < MaxErrors
    /\ errors' = errors + 1
    /\ loop' = [loop EXCEPT ![a] = AfterError(@, soon)]
    /\ answer' = IF a = "fetchBalance" THEN Unknown ELSE answer
    /\ \/ UNCHANGED news
       \/ a = "watchBalance" /\ news' = <<>>
    /\ UNCHANGED <<account, watches, changes, running, handlerVars, latest, faults>>

-----------------------------------------------------------------------------
(* The handlers *)

\* applyBalanceDeltaToSnapshot
Apply(snapshot, deltas) ==
    [t \in DOMAIN snapshot \cup DOMAIN deltas |->
        IF t \in DOMAIN deltas THEN deltas[t] ELSE snapshot[t]]

\* What the handler of symbol s takes an answer for.
Seen(s, a, data) ==
    IF a = "watchBalance" /\ clone[s] # Unknown THEN Apply(clone[s], data) ELSE data

\* Some symbols in the order of the plan.
InPlanOrder(S) ==
    {q \in [1..Cardinality(S) -> S] : \A i, j \in 1..Cardinality(S) : i < j => q[i] < q[j]}

\* The symbols for which the answer is news send their writes.
Publish(a, data) ==
    \E q \in InPlanOrder({s \in Symbol : Seen(s, a, data) # clone[s]}) :
        writes' = writes \o [i \in DOMAIN q |-> [by |-> q[i], balance |-> Seen(q[i], a, data)]]

\* Variant: the clone is set when the write is sent.
HandleEager(a, data) ==
    /\ Len(writes) <= MaxWrites
    /\ Publish(a, data)
    /\ clone' = [s \in Symbol |-> Seen(s, a, data)]
    /\ UNCHANGED <<added, torn, account, watches, changes, running, errors, latest, faults>>
\* The handlers run one after the other, each as far as its write.
Handle(a, data) ==
    /\ Len(writes) <= MaxWrites
    /\ Publish(a, data)
    /\ UNCHANGED <<clone, added, torn, account, watches, changes, running, errors, latest, faults>>

DeliverFetched ==
    /\ loop["fetchBalance"].pc = "served"
    /\ Handle("fetchBalance", answer)
    /\ loop' = [loop EXCEPT !["fetchBalance"].pc = "waiting"]
    /\ answer' = Unknown
    /\ UNCHANGED news

DeliverWatched ==
    /\ loop["watchBalance"].pc = "waiting" /\ news # <<>>
    /\ Handle("watchBalance", Head(news))
    /\ news' = Tail(news)
    /\ UNCHANGED <<loop, answer>>

\* The stream gets the next entry.
Add ==
    /\ added < Len(writes)
    /\ added' = added + 1
    /\ latest' = writes[added + 1].balance
    /\ torn' = FALSE
    /\ UNCHANGED <<clone, writes, exchangeVars, running, loopVars, faults>>

\* Both commands of the first write are answered, and its handler sets the clone.
Written ==
    /\ added > 0
    /\ clone' = [clone EXCEPT ![Head(writes).by] = Head(writes).balance]
    /\ writes' = Tail(writes)
    /\ added' = added - 1
    /\ UNCHANGED <<torn, latest, exchangeVars, running, loopVars, faults>>

\* A command is rejected, which cuts the handler short: an XADD that was not carried out;
\* or, with the entry in the stream, the XTRIM, or the connection before the answers.
Reject(i) ==
    /\ i <= added + 1 /\ faults < MaxFaults
    /\ faults' = faults + 1
    /\ writes' = [k \in 1..(Len(writes) - 1) |-> IF k < i THEN writes[k] ELSE writes[k + 1]]
    /\ added' = IF i <= added THEN added - 1 ELSE added
    /\ torn' = (torn \/ i = added)
    /\ UNCHANGED <<clone, latest, exchangeVars, running, loopVars>>

-----------------------------------------------------------------------------
(* The worker *)

\* fetchBalance is subscribed; watchBalance too, if the exchange has it.
Start ==
    /\ ~ running
    /\ running' = TRUE
    /\ loop' = [a \in Action |->
          NewLoop(IF a = "fetchBalance" \/ watches THEN "waiting" ELSE "ended")]
    /\ UNCHANGED <<exchangeVars, answer, errors, handlerVars, latest, faults>>

\* The worker is terminated or dies; Redis may still carry out what it was sent.
Die(carriedOut) ==
    /\ running /\ faults < MaxFaults
    /\ faults' = faults + 1
    /\ running' = FALSE
    /\ loop' = [a \in Action |-> NewLoop("ended")]
    /\ answer' = Unknown /\ news' = <<>> /\ writes' = <<>> /\ added' = 0
    /\ clone' = [s \in Symbol |-> Unknown]
    /\ torn' = FALSE
    /\ latest' = IF carriedOut = added THEN latest ELSE writes[carriedOut].balance
    /\ UNCHANGED <<account, watches, changes, errors>>

Init ==
    /\ account = Opening
    /\ watches \in BOOLEAN
    /\ news = <<>>
    /\ running = FALSE
    /\ loop = [a \in Action |-> NewLoop("ended")]
    /\ answer = Unknown
    /\ clone = [s \in Symbol |-> Unknown]
    /\ writes = <<>> /\ added = 0
    /\ latest = Unknown /\ torn = FALSE
    /\ changes = 0 /\ errors = 0 /\ faults = 0

Next ==
    \/ \E new \in Holdings, named \in SUBSET Token : Change(new, named)
    \/ Serve
    \/ \E a \in Action, soon \in BOOLEAN : Fail(a, soon)
    \/ DeliverFetched
    \/ DeliverWatched
    \/ Add
    \/ Written
    \/ \E i \in 1..Len(writes) : Reject(i)
    \/ Start
    \/ \E n \in added..Len(writes) : Die(n)

Spec == Init /\ [][Next]_vars

\* The worker is started again, the loops go on, the exchange and Redis answer.
Fairness ==
    /\ WF_vars(Start)
    /\ WF_vars(Serve \/ DeliverFetched)
    /\ WF_vars(DeliverWatched)
    /\ WF_vars(Add \/ Written)

FairSpec == Spec /\ Fairness

-----------------------------------------------------------------------------
(* Every variable has its type, and an answer is held exactly while one is under way. *)
TypeOK ==
    /\ account \in Holdings
    /\ watches \in BOOLEAN /\ running \in BOOLEAN
    /\ news \in Seq(Balance) /\ Len(news) <= MaxChanges
    /\ loop \in [Action -> [pc : {"waiting", "served", "ended"}, errorCount : 0..(Quit + 1),
                            lastError : BOOLEAN]]
    /\ answer \in Holdings <=> loop["fetchBalance"].pc = "served"
    /\ clone \in [Symbol -> Balance]
    /\ writes \in Seq([by : Symbol, balance : Balance])
    /\ added \in 0..Len(writes)
    /\ latest \in Balance /\ torn \in BOOLEAN
    /\ changes \in 0..MaxChanges /\ errors \in 0..MaxErrors /\ faults \in 0..MaxFaults

(* What every symbol takes for known is what the stream says, however the answers and     *)
(* the writes of their handlers interleave and whichever writes are rejected: once the    *)
(* entries of the stream are answered, what is not published is its last entry.  Not so   *)
(* while a handler has yet to set its clone to what it added, nor when the one that sent  *)
(* the last entry was cut short.                                                          *)
KnownIsPublished ==
    added = 0 /\ ~ torn /\ clone[1] # Unknown /\ (\A s \in Symbol : clone[s] = clone[1])
        => latest = clone[1]

(* Once the account stops changing, the last entry of the stream comes to be the account  *)
(* and stays so, whatever the handlers made of older answers; unless the loop of          *)
(* fetchBalance used up its budget of errors, or the handler that sent the last entry was *)
(* cut short.                                                                             *)
StreamFollowsAccount ==
    <>[](\/ latest = account
         \/ loop["fetchBalance"].pc = "ended" /\ loop["fetchBalance"].errorCount > Quit
         \/ torn)
=============================================================================
