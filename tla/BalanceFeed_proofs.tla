------------------------- MODULE BalanceFeed_proofs -------------------------
(***************************************************************************)
(* Type correctness and KnownIsPublished for any account, number of        *)
(* symbols, budget of errors, and any faults.                              *)
(***************************************************************************)
EXTENDS BalanceFeed, FiniteSetTheorems, TLAPS

Loop == [pc : {"waiting", "served", "ended"}, errorCount : 0..(Quit + 1),
         lastError : BOOLEAN]
Entry == [by : Symbol, balance : Balance]

\* A worker that is down has no loops, and watchBalance no more answers to give than the
\* account changed.
LoopsFit ==
    /\ ~ running => \A a \in Action : loop[a].pc = "ended"
    /\ Len(news) <= changes

\* Some symbol that has nothing of its own in the stream yet to be answered takes the last
\* entry for known, if it takes any.
Informed ==
    \E s \in Symbol :
        /\ \A i \in 1..added : writes[i].by # s
        /\ clone[s] \in {Unknown, latest}

\* The last entry is that of a handler that was cut short, or of one that has yet to set its
\* clone to it, or some symbol knows it.
LastIsKnown ==
    torn \/ (added > 0 /\ latest = writes[added].balance) \/ Informed

FeedInv == TypeOK /\ LoopsFit /\ LastIsKnown

LEMMA LastIsPublished == FeedInv => KnownIsPublished
  <1> SUFFICES ASSUME FeedInv, added = 0, ~ torn, clone[1] # Unknown,
                      \A s \in Symbol : clone[s] = clone[1]
               PROVE  latest = clone[1]
    BY DEF KnownIsPublished
  <1>1. Informed
    BY DEF FeedInv, LastIsKnown
  <1> QED
    BY <1>1 DEF Informed

-----------------------------------------------------------------------------
(* What answers and loops are *)

LEMMA UnknownBalance == Unknown \in Balance /\ Unknown \notin Holdings
  <1>1. Unknown \in [{} -> Value] /\ DOMAIN Unknown = {}
    BY DEF Unknown
  <1>2. [{} -> Value] \subseteq Balance
    BY DEF Balance
  <1> QED
    BY <1>1, <1>2, TokenAssumption, OpeningAssumption

LEMMA AccountBalance == ASSUME NEW b \in Holdings PROVE b \in Balance
  BY OpeningAssumption DEF Balance

\* Tokens of an answer become known, the others stay.
LEMMA ApplyBalance ==
    ASSUME NEW snapshot \in Balance, NEW deltas \in Balance
    PROVE  Apply(snapshot, deltas) \in Balance
  <1>1. PICK S \in SUBSET Token : snapshot \in [S -> Value]
    BY DEF Balance
  <1>2. PICK D \in SUBSET Token : deltas \in [D -> Value]
    BY DEF Balance
  <1>3. Apply(snapshot, deltas) = [t \in S \cup D |-> IF t \in D THEN deltas[t] ELSE snapshot[t]]
    BY <1>1, <1>2 DEF Apply
  <1>4. Apply(snapshot, deltas) \in [S \cup D -> Value] /\ S \cup D \in SUBSET Token
    BY <1>1, <1>2, <1>3
  <1> QED
    BY <1>4 DEF Balance

LEMMA SeenBalance ==
    ASSUME clone \in [Symbol -> Balance], NEW s \in Symbol, NEW a, NEW data \in Balance
    PROVE  Seen(s, a, data) \in Balance
  BY ApplyBalance DEF Seen

LEMMA NewLoopType ==
    ASSUME NEW pc \in {"waiting", "served", "ended"}
    PROVE  NewLoop(pc) \in Loop /\ NewLoop(pc).pc = pc
  BY BoundsAssumption DEF NewLoop, Loop

LEMMA AfterErrorType ==
    ASSUME NEW l \in Loop, NEW soon \in BOOLEAN
    PROVE  /\ AfterError(l, soon) \in Loop
           /\ AfterError(l, soon).pc \in {"waiting", "ended"}
  <1>1. l.errorCount \in 0..(Quit + 1) /\ l.lastError \in BOOLEAN /\ Quit \in Nat
    BY BoundsAssumption DEF Loop
  <1>2. CASE l.errorCount > Quit
    <2>1. AfterError(l, soon) = [pc |-> "ended", errorCount |-> l.errorCount,
                                 lastError |-> l.lastError]
      BY <1>2 DEF AfterError, Loop
    <2> QED
      BY <1>1, <2>1 DEF Loop
  <1>3. CASE ~ l.errorCount > Quit
    <2>1. PICK n : n = IF l.lastError /\ soon THEN l.errorCount + 1 ELSE 0
      OBVIOUS
    <2>2. n \in 0..(Quit + 1)
      BY <1>1, <1>3, <2>1
    <2>3. AfterError(l, soon) = [pc |-> "waiting", errorCount |-> n, lastError |-> TRUE]
      BY <1>3, <2>1 DEF AfterError, Loop
    <2> QED
      BY <1>1, <2>2, <2>3 DEF Loop
  <1> QED
    BY <1>2, <1>3

\* What handlers send are entries.
LEMMA PublishType ==
    ASSUME clone \in [Symbol -> Balance], writes \in Seq(Entry),
           NEW a, NEW data \in Balance, Publish(a, data)
    PROVE  /\ writes' \in Seq(Entry) /\ Len(writes) <= Len(writes')
           /\ \A i \in 1..Len(writes) : writes'[i] = writes[i]
  <1>1. PICK S \in SUBSET Symbol : \E q \in InPlanOrder(S) :
            writes' = writes \o [i \in DOMAIN q |-> [by |-> q[i], balance |-> Seen(q[i], a, data)]]
    BY DEF Publish
  <1>2. PICK q \in InPlanOrder(S) :
            writes' = writes \o [i \in DOMAIN q |-> [by |-> q[i], balance |-> Seen(q[i], a, data)]]
    BY <1>1
  <1>3. Cardinality(S) \in Nat
    <2>1. IsFiniteSet(Symbol)
      BY FS_Interval, BoundsAssumption DEF Symbol
    <2> QED
      BY <2>1, FS_Subset, FS_CardinalityType
  <1>4. q \in [1..Cardinality(S) -> Symbol]
    BY <1>2 DEF InPlanOrder
  <1>5. \A i \in 1..Cardinality(S) : [by |-> q[i], balance |-> Seen(q[i], a, data)] \in Entry
    BY <1>4, SeenBalance DEF Entry
  <1>6. PICK e : e = [i \in 1..Cardinality(S) |-> [by |-> q[i], balance |-> Seen(q[i], a, data)]]
    OBVIOUS
  <1>7. e \in [1..Cardinality(S) -> Entry]
    BY <1>5, <1>6
  <1>8. e \in Seq(Entry)
    BY <1>3, <1>7
  <1>9. writes' = writes \o e
    BY <1>2, <1>4, <1>6
  <1> QED
    BY <1>8, <1>9

-----------------------------------------------------------------------------
(* The steps *)

LEMMA InitFeed == Init => FeedInv
  <1> SUFFICES ASSUME Init PROVE FeedInv
    OBVIOUS
  <1>1. Symbol # {} /\ 1 \in Symbol
    BY BoundsAssumption DEF Symbol
  <1>2. account \in Holdings /\ news = <<>> /\ writes = <<>> /\ added = 0
    BY OpeningAssumption DEF Init
  <1>3. news \in Seq(Balance) /\ Len(news) = 0 /\ writes \in Seq(Entry) /\ Len(writes) = 0
    BY <1>2
  <1>4. loop \in [Action -> Loop] /\ \A a \in Action : loop[a].pc = "ended"
    BY NewLoopType DEF Init
  <1>5. clone \in [Symbol -> Balance] /\ latest \in Balance /\ \A s \in Symbol : clone[s] = Unknown
    BY UnknownBalance DEF Init
  <1>6. ~ (answer \in Holdings) /\ loop["fetchBalance"].pc = "ended"
    BY <1>4, UnknownBalance DEF Init, Action
  <1>7. /\ changes = 0 /\ errors = 0 /\ faults = 0 /\ watches \in BOOLEAN /\ running \in BOOLEAN
        /\ changes \in 0..MaxChanges /\ errors \in 0..MaxErrors /\ faults \in 0..MaxFaults
        /\ torn \in BOOLEAN
    <2>1. changes = 0 /\ errors = 0 /\ faults = 0
      BY DEF Init
    <2>2. watches \in BOOLEAN /\ running \in BOOLEAN /\ torn \in BOOLEAN
      BY ZenonT(30) DEF Init
    <2> QED
      BY <2>1, <2>2, BoundsAssumption
  <1>8. TypeOK
    BY <1>2, <1>3, <1>4, <1>5, <1>6, <1>7, BoundsAssumption DEF TypeOK, Loop, Entry
  <1>9. LoopsFit
    BY <1>3, <1>4, <1>7 DEF LoopsFit
  <1>10. LastIsKnown
    BY <1>1, <1>2, <1>5 DEF LastIsKnown, Informed
  <1> QED
    BY <1>8, <1>9, <1>10 DEF FeedInv

\* TypeOK, with the names used here.
LEMMA Typed ==
    ASSUME FeedInv
    PROVE  /\ account \in Holdings /\ account \in [Token -> Value] /\ news \in Seq(Balance)
           /\ Len(news) \in Nat /\ Len(news) <= changes
           /\ loop \in [Action -> Loop] /\ clone \in [Symbol -> Balance]
           /\ writes \in Seq(Entry) /\ Len(writes) \in Nat /\ added \in 0..Len(writes)
           /\ latest \in Balance /\ torn \in BOOLEAN
           /\ changes \in 0..MaxChanges /\ errors \in 0..MaxErrors
  BY OpeningAssumption DEF FeedInv, TypeOK, LoopsFit, Loop, Entry

\* What touches neither the entries, the clones nor the stream keeps what is known of it.
LEMMA KnownStays ==
    ASSUME LastIsKnown, UNCHANGED <<clone, writes, added, torn, latest>>
    PROVE  LastIsKnown'
  BY DEF LastIsKnown, Informed

LEMMA ChangeFeed ==
    ASSUME FeedInv, NEW new \in Holdings, NEW named \in SUBSET Token, Change(new, named)
    PROVE  FeedInv'
  <1>1. /\ changes' = changes + 1 /\ changes' \in 0..MaxChanges /\ account' \in Holdings
        /\ MaxChanges \in Nat
    BY Typed, BoundsAssumption DEF Change
  <1>2. [t \in named |-> new[t]] \in Balance
    BY OpeningAssumption DEF Balance
  <1>3. news' \in Seq(Balance) /\ Len(news') <= Len(news) + 1
    <2>1. CASE news' = news
      BY <2>1, Typed
    <2>2. CASE news' = Append(news, [t \in named |-> new[t]])
      BY <1>2, <2>2, Typed
    <2> QED
      BY <2>1, <2>2 DEF Change
  <1>4. Len(news') \in Nat /\ Len(news') <= changes' /\ Len(news') <= MaxChanges
    BY <1>1, <1>3, Typed
  <1>5. UNCHANGED <<watches, running, loopVars, handlerVars, latest, faults>>
    BY DEF Change
  <1>6. TypeOK'
    BY <1>1, <1>3, <1>4, <1>5 DEF FeedInv, TypeOK, loopVars, handlerVars
  <1>7. LoopsFit'
    BY <1>4, <1>5 DEF FeedInv, LoopsFit, loopVars
  <1> QED
    BY <1>5, <1>6, <1>7, KnownStays DEF FeedInv, handlerVars

LEMMA ServeFeed ==
    ASSUME FeedInv, Serve
    PROVE  FeedInv'
  <1>1. /\ loop' = [loop EXCEPT !["fetchBalance"].pc = "served"] /\ answer' = account
        /\ UNCHANGED <<exchangeVars, running, errors, handlerVars, latest, faults>>
        /\ loop["fetchBalance"].pc = "waiting"
    BY DEF Serve
  <1>2. loop' \in [Action -> Loop] /\ loop'["fetchBalance"].pc = "served"
    BY <1>1, Typed DEF Action, Loop
  <1>3. answer' \in Holdings /\ running
    BY <1>1, Typed DEF FeedInv, LoopsFit, TypeOK, Action
  <1>4. TypeOK'
    BY <1>1, <1>2, <1>3 DEF FeedInv, TypeOK, Loop, exchangeVars, handlerVars
  <1>5. LoopsFit'
    BY <1>1, <1>2, <1>3 DEF FeedInv, LoopsFit, exchangeVars
  <1> QED
    BY <1>1, <1>4, <1>5, KnownStays DEF FeedInv, handlerVars

LEMMA FailFeed ==
    ASSUME FeedInv, NEW a \in Action, NEW soon \in BOOLEAN, Fail(a, soon)
    PROVE  FeedInv'
  <1>1. /\ errors' = errors + 1 /\ errors < MaxErrors /\ MaxErrors \in Nat
        /\ loop' = [loop EXCEPT ![a] = AfterError(loop[a], soon)]
        /\ loop[a].pc \in {"waiting", "served"}
        /\ UNCHANGED <<account, watches, changes, running, handlerVars, latest, faults>>
    BY BoundsAssumption DEF Fail
  <1>2. loop \in [Action -> Loop] /\ errors \in Nat
    BY Typed
  <1>3. AfterError(loop[a], soon) \in Loop /\ AfterError(loop[a], soon).pc \in {"waiting", "ended"}
    BY <1>2, AfterErrorType
  <1>4. /\ loop' \in [Action -> Loop] /\ loop'[a].pc # "served"
        /\ \A b \in Action : b # a => loop'[b] = loop[b]
    BY <1>1, <1>2, <1>3
  <1>5. running
    BY <1>1 DEF FeedInv, LoopsFit
  <1>6. news' \in Seq(Balance) /\ Len(news') \in Nat /\ Len(news') <= Len(news)
    <2>1. CASE news' = news
      BY <2>1, Typed
    <2>2. CASE news' = <<>>
      BY <2>2, Typed
    <2> QED
      BY <2>1, <2>2 DEF Fail
  <1>7. Len(news') <= changes /\ Len(news') <= MaxChanges
    BY <1>6, Typed, BoundsAssumption
  <1>8. answer' \in Holdings <=> loop'["fetchBalance"].pc = "served"
    <2>1. CASE a = "fetchBalance"
      BY <1>4, <2>1, UnknownBalance DEF Fail
    <2>2. CASE a # "fetchBalance"
      BY <1>4, <2>2 DEF Fail, FeedInv, TypeOK, Action
    <2> QED
      BY <2>1, <2>2
  <1>9. errors' \in 0..MaxErrors
    BY <1>1, <1>2
  <1>10. TypeOK'
    BY <1>1, <1>4, <1>6, <1>7, <1>8, <1>9 DEF FeedInv, TypeOK, Loop, handlerVars
  <1>11. LoopsFit'
    BY <1>1, <1>5, <1>7 DEF LoopsFit
  <1> QED
    BY <1>1, <1>10, <1>11, KnownStays DEF FeedInv, handlerVars

\* The handlers of an answer send entries and touch nothing else: the stream has none of
\* those yet.
LEMMA HandleFeed ==
    ASSUME FeedInv, NEW a, NEW data \in Balance, Handle(a, data)
    PROVE  /\ writes' \in Seq(Entry) /\ added' \in 0..Len(writes')
           /\ UNCHANGED <<clone, added, torn, account, watches, changes, running, errors, latest,
                          faults>>
           /\ LastIsKnown'
  <1>1. /\ Publish(a, data)
        /\ UNCHANGED <<clone, added, torn, account, watches, changes, running, errors, latest,
                       faults>>
    BY DEF Handle
  <1>2. /\ writes' \in Seq(Entry) /\ Len(writes) <= Len(writes')
        /\ \A i \in 1..Len(writes) : writes'[i] = writes[i]
    BY <1>1, Typed, PublishType
  <1>3. writes' \in Seq(Entry) /\ added' \in 0..Len(writes') /\ \A i \in 1..added : writes'[i] = writes[i]
    BY <1>1, <1>2, Typed
  <1>4. LastIsKnown'
    <2>1. CASE torn \/ (added > 0 /\ latest = writes[added].balance)
      BY <1>1, <1>3, <2>1, Typed DEF LastIsKnown
    <2>2. CASE Informed
      BY <1>1, <1>3, <2>2 DEF LastIsKnown, Informed
    <2> QED
      BY <2>1, <2>2 DEF FeedInv, LastIsKnown
  <1> QED
    BY <1>1, <1>3, <1>4

LEMMA DeliverFetchedFeed ==
    ASSUME FeedInv, DeliverFetched
    PROVE  FeedInv'
  <1>1. /\ Handle("fetchBalance", answer) /\ loop["fetchBalance"].pc = "served"
        /\ loop' = [loop EXCEPT !["fetchBalance"].pc = "waiting"]
        /\ answer' = Unknown /\ UNCHANGED news
    BY DEF DeliverFetched
  <1>2. answer \in Balance
    BY <1>1, AccountBalance DEF FeedInv, TypeOK
  <1>3. /\ writes' \in Seq(Entry) /\ added' \in 0..Len(writes')
        /\ UNCHANGED <<clone, torn, account, watches, changes, running, errors, latest, faults>>
        /\ LastIsKnown'
    BY <1>1, <1>2, HandleFeed
  <1>4. loop' \in [Action -> Loop] /\ loop'["fetchBalance"].pc # "served"
    BY <1>1, Typed DEF Action, Loop
  <1>5. ~ (answer' \in Holdings) /\ running
    BY <1>1, UnknownBalance DEF FeedInv, LoopsFit, Action
  <1>6. TypeOK'
    BY <1>1, <1>3, <1>4, <1>5 DEF FeedInv, TypeOK, Loop, Entry
  <1>7. LoopsFit'
    BY <1>1, <1>3, <1>4, <1>5 DEF FeedInv, LoopsFit
  <1> QED
    BY <1>3, <1>6, <1>7 DEF FeedInv

LEMMA DeliverWatchedFeed ==
    ASSUME FeedInv, DeliverWatched
    PROVE  FeedInv'
  <1>1. /\ Handle("watchBalance", Head(news)) /\ news # <<>> /\ news' = Tail(news)
        /\ UNCHANGED <<loop, answer>>
    BY DEF DeliverWatched
  <1>2. Head(news) \in Balance /\ news' \in Seq(Balance) /\ Len(news') = Len(news) - 1
    BY <1>1, Typed
  <1>3. /\ writes' \in Seq(Entry) /\ added' \in 0..Len(writes')
        /\ UNCHANGED <<clone, torn, account, watches, changes, running, errors, latest, faults>>
        /\ LastIsKnown'
    BY <1>1, <1>2, HandleFeed
  <1>4. Len(news') <= changes' /\ Len(news') <= MaxChanges
    BY <1>2, <1>3, Typed, BoundsAssumption
  <1>5. TypeOK'
    BY <1>1, <1>2, <1>3, <1>4 DEF FeedInv, TypeOK, Entry
  <1>6. LoopsFit'
    BY <1>1, <1>3, <1>4 DEF FeedInv, LoopsFit
  <1> QED
    BY <1>3, <1>5, <1>6 DEF FeedInv

\* What is added is the last entry, and its handler has yet to set its clone.
LEMMA AddFeed ==
    ASSUME FeedInv, Add
    PROVE  FeedInv'
  <1>1. /\ added < Len(writes) /\ added' = added + 1 /\ latest' = writes[added + 1].balance
        /\ torn' = FALSE
        /\ UNCHANGED <<clone, writes, exchangeVars, running, loopVars, faults>>
    BY DEF Add
  <1>2. added + 1 \in 1..Len(writes) /\ added' \in 0..Len(writes') /\ added' > 0
    BY <1>1, Typed
  <1>3. writes[added + 1] \in Entry
    BY <1>2, Typed
  <1>4. latest' \in Balance /\ latest' = writes'[added'].balance
    BY <1>1, <1>3 DEF Entry
  <1>5. TypeOK'
    BY <1>1, <1>2, <1>4 DEF FeedInv, TypeOK, exchangeVars, loopVars
  <1>6. LoopsFit'
    BY <1>1 DEF FeedInv, LoopsFit, exchangeVars, loopVars
  <1> QED
    BY <1>2, <1>4, <1>5, <1>6 DEF FeedInv, LastIsKnown

\* The first handler sets its clone, to the last entry if no other was added since.
LEMMA WrittenFeed ==
    ASSUME FeedInv, Written
    PROVE  FeedInv'
  <1>1. /\ added > 0 /\ writes' = Tail(writes) /\ added' = added - 1
        /\ clone' = [clone EXCEPT ![Head(writes).by] = Head(writes).balance]
        /\ UNCHANGED <<torn, latest, exchangeVars, running, loopVars, faults>>
    BY DEF Written
  <1>2. writes # <<>> /\ added \in 1..Len(writes) /\ Head(writes) = writes[1]
    BY <1>1, Typed
  <1>3. /\ Head(writes) \in Entry /\ writes' \in Seq(Entry) /\ Len(writes') = Len(writes) - 1
        /\ \A i \in 1..added' : writes'[i] = writes[i + 1]
    BY <1>1, <1>2, Typed
  <1>4. Head(writes).by \in Symbol /\ Head(writes).balance \in Balance
    BY <1>3 DEF Entry
  <1>5. clone' \in [Symbol -> Balance] /\ added' \in 0..Len(writes')
    BY <1>1, <1>2, <1>3, <1>4, Typed
  <1>6. LastIsKnown'
    <2>1. CASE torn
      BY <1>1, <2>1 DEF LastIsKnown
    <2>2. CASE added = 1 /\ latest = writes[added].balance
      <3>1. clone'[Head(writes).by] = latest' /\ added' = 0
        BY <1>1, <1>2, <1>4, <2>2, Typed
      <3> QED
        BY <1>4, <3>1 DEF LastIsKnown, Informed
    <2>3. CASE added > 1 /\ latest = writes[added].balance
      <3>1. added' > 0 /\ added' \in 1..added' /\ added' + 1 = added
        BY <1>1, <1>2, <2>3
      <3>2. writes'[added'] = writes[added]
        BY <1>3, <3>1
      <3> QED
        BY <1>1, <2>3, <3>1, <3>2 DEF LastIsKnown
    <2>4. CASE Informed
      <3>1. PICK s \in Symbol : (\A i \in 1..added : writes[i].by # s) /\ clone[s] \in {Unknown, latest}
        BY <2>4 DEF Informed
      <3>2. 1 \in 1..added /\ \A i \in 1..added' : i + 1 \in 1..added
        BY <1>1, <1>2
      <3>3. Head(writes).by # s
        BY <1>2, <3>1, <3>2
      <3>4. clone'[s] = clone[s] /\ \A i \in 1..added' : writes'[i].by # s
        BY <1>1, <1>3, <3>1, <3>2, <3>3, Typed
      <3> QED
        BY <1>1, <3>1, <3>4 DEF LastIsKnown, Informed
    <2> QED
      BY <1>2, <2>1, <2>2, <2>3, <2>4 DEF FeedInv, LastIsKnown
  <1>7. TypeOK'
    BY <1>1, <1>3, <1>5 DEF FeedInv, TypeOK, Entry, exchangeVars, loopVars
  <1>8. LoopsFit'
    BY <1>1 DEF FeedInv, LoopsFit, exchangeVars, loopVars
  <1> QED
    BY <1>6, <1>7, <1>8 DEF FeedInv

\* A handler that is cut short before the last entry leaves that to another.
LEMMA RejectFeed ==
    ASSUME FeedInv, NEW i \in 1..Len(writes), Reject(i)
    PROVE  FeedInv'
  <1>1. /\ i <= added + 1 /\ faults < MaxFaults /\ faults' = faults + 1
        /\ writes' = [k \in 1..(Len(writes) - 1) |-> IF k < i THEN writes[k] ELSE writes[k + 1]]
        /\ added' = IF i <= added THEN added - 1 ELSE added
        /\ torn' = (torn \/ i = added)
        /\ UNCHANGED <<clone, latest, exchangeVars, running, loopVars>>
    BY DEF Reject
  <1>2. Len(writes) \in Nat \ {0} /\ added \in 0..Len(writes) /\ i \in Nat \ {0}
    BY Typed
  <1>3. \A k \in 1..(Len(writes) - 1) : writes'[k] \in Entry
    <2> TAKE k \in 1..(Len(writes) - 1)
    <2>1. k \in 1..Len(writes) /\ k + 1 \in 1..Len(writes)
      BY <1>2
    <2>2. writes[k] \in Entry /\ writes[k + 1] \in Entry
      BY <2>1, Typed
    <2> QED
      BY <1>1, <2>2
  <1>4. writes' \in Seq(Entry) /\ Len(writes') = Len(writes) - 1
    <2>1. writes' \in [1..(Len(writes) - 1) -> Entry] /\ Len(writes) - 1 \in Nat
      BY <1>1, <1>2, <1>3
    <2> QED
      BY <2>1
  <1>5. added' \in 0..Len(writes')
    BY <1>1, <1>2, <1>4
  <1>6. torn' \in BOOLEAN
    BY <1>1
  <1>7. LastIsKnown'
    <2>1. CASE torn \/ i = added
      BY <1>1, <2>1 DEF LastIsKnown
    <2>2. CASE i < added /\ latest = writes[added].balance
      <3>1. added' = added - 1 /\ added' \in 1..(Len(writes) - 1) /\ ~ added' < i /\ added' + 1 = added
        BY <1>1, <1>2, <2>2
      <3>2. writes'[added'] = writes[added]
        BY <1>1, <3>1
      <3> QED
        BY <1>1, <2>2, <3>1, <3>2 DEF LastIsKnown
    <2>3. CASE i = added + 1 /\ added > 0 /\ latest = writes[added].balance
      <3>1. added' = added /\ added \in 1..(Len(writes) - 1) /\ added < i
        BY <1>1, <1>2, <2>3
      <3>2. writes'[added'] = writes[added]
        BY <1>1, <3>1
      <3> QED
        BY <1>1, <2>3, <3>1, <3>2 DEF LastIsKnown
    <2>4. CASE Informed
      <3>1. PICK s \in Symbol : (\A j \in 1..added : writes[j].by # s) /\ clone[s] \in {Unknown, latest}
        BY <2>4 DEF Informed
      <3>2. ASSUME NEW k \in 1..added' PROVE writes'[k].by # s
        <4>1. k \in 1..(Len(writes) - 1) /\ (k < i => k \in 1..added) /\ (~ k < i => k + 1 \in 1..added)
          BY <1>1, <1>2
        <4>2. writes'[k] = IF k < i THEN writes[k] ELSE writes[k + 1]
          BY <1>1, <4>1
        <4> QED
          BY <3>1, <4>1, <4>2
      <3> QED
        BY <1>1, <3>1, <3>2 DEF LastIsKnown, Informed
    <2> QED
      BY <1>1, <1>2, <2>1, <2>2, <2>3, <2>4 DEF FeedInv, LastIsKnown
  <1>8. faults' \in 0..MaxFaults
    BY <1>1, BoundsAssumption DEF FeedInv, TypeOK
  <1>9. TypeOK'
    BY <1>1, <1>4, <1>5, <1>6, <1>8 DEF FeedInv, TypeOK, Entry, exchangeVars, loopVars
  <1>10. LoopsFit'
    BY <1>1 DEF FeedInv, LoopsFit, exchangeVars, loopVars
  <1> QED
    BY <1>7, <1>9, <1>10 DEF FeedInv

LEMMA StartFeed ==
    ASSUME FeedInv, Start
    PROVE  FeedInv'
  <1>1. /\ ~ running /\ running' = TRUE
        /\ UNCHANGED <<exchangeVars, answer, errors, handlerVars, latest, faults>>
    BY DEF Start
  <1>2. loop' \in [Action -> Loop] /\ \A a \in Action : loop'[a].pc # "served"
    <2>1. loop' = [a \in Action |-> loop'[a]]
      BY DEF Start
    <2>2. ASSUME NEW a \in Action
          PROVE  loop'[a] \in Loop /\ loop'[a].pc # "served"
      <3>1. loop'[a] = NewLoop("waiting") \/ loop'[a] = NewLoop("ended")
        BY DEF Start
      <3> QED
        BY <3>1, NewLoopType
    <2> QED
      BY <2>1, <2>2
  <1>3. ~ (answer \in Holdings) /\ loop'["fetchBalance"].pc # "served"
    BY <1>1, <1>2 DEF FeedInv, TypeOK, LoopsFit, Action
  <1>4. TypeOK'
    BY <1>1, <1>2, <1>3 DEF FeedInv, TypeOK, Loop, exchangeVars, handlerVars
  <1>5. LoopsFit'
    BY <1>1 DEF FeedInv, LoopsFit, exchangeVars
  <1> QED
    BY <1>1, <1>4, <1>5, KnownStays DEF FeedInv, handlerVars

\* No symbol of the worker that is started next knows anything.
LEMMA DieFeed ==
    ASSUME FeedInv, NEW n \in added..Len(writes), Die(n)
    PROVE  FeedInv'
  <1>1. /\ faults < MaxFaults /\ faults' = faults + 1 /\ running' = FALSE
        /\ loop' = [a \in Action |-> NewLoop("ended")] /\ answer' = Unknown
        /\ news' = <<>> /\ writes' = <<>> /\ added' = 0 /\ torn' = FALSE
        /\ clone' = [s \in Symbol |-> Unknown]
        /\ latest' = IF n = added THEN latest ELSE writes[n].balance
        /\ UNCHANGED <<account, watches, changes, errors>>
    BY DEF Die
  <1>2. loop' \in [Action -> Loop] /\ \A a \in Action : loop'[a].pc = "ended"
    BY <1>1, NewLoopType
  <1>3. /\ news' \in Seq(Balance) /\ Len(news') = 0
        /\ writes' \in Seq(Entry) /\ added' \in 0..Len(writes')
    BY <1>1
  <1>4. latest' \in Balance
    <2>1. CASE n = added
      BY <1>1, <2>1, Typed
    <2>2. CASE n # added
      <3>1. n \in 1..Len(writes)
        BY <2>2, Typed
      <3>2. writes[n] \in Entry
        BY <3>1, Typed
      <3> QED
        BY <1>1, <2>2, <3>2 DEF Entry
    <2> QED
      BY <2>1, <2>2
  <1>5. clone' \in [Symbol -> Balance] /\ 1 \in Symbol /\ clone'[1] = Unknown
    BY <1>1, UnknownBalance, BoundsAssumption DEF Symbol
  <1>6. ~ (answer' \in Holdings) /\ loop'["fetchBalance"].pc # "served"
    BY <1>1, <1>2, UnknownBalance DEF Action
  <1>7. /\ faults' \in 0..MaxFaults /\ changes' \in Nat /\ errors' \in Nat
        /\ Len(news') <= MaxChanges
    BY <1>1, <1>3, Typed, BoundsAssumption DEF FeedInv, TypeOK
  <1>8. TypeOK'
    BY <1>1, <1>2, <1>3, <1>4, <1>5, <1>6, <1>7 DEF FeedInv, TypeOK, Loop, Entry
  <1>9. LoopsFit'
    BY <1>1, <1>2, <1>3, <1>7 DEF LoopsFit
  <1>10. LastIsKnown'
    BY <1>1, <1>5 DEF LastIsKnown, Informed
  <1> QED
    BY <1>8, <1>9, <1>10 DEF FeedInv

LEMMA NextFeed == FeedInv /\ [Next]_vars => FeedInv'
  <1> SUFFICES ASSUME FeedInv, [Next]_vars PROVE FeedInv'
    OBVIOUS
  <1>1. CASE UNCHANGED vars
    BY <1>1 DEF vars, exchangeVars, loopVars, handlerVars, FeedInv, TypeOK, LoopsFit, LastIsKnown,
       Informed
  <1> QED
    BY <1>1, ChangeFeed, ServeFeed, FailFeed, DeliverFetchedFeed, DeliverWatchedFeed,
       AddFeed, WrittenFeed, RejectFeed, StartFeed, DieFeed DEF Next

-----------------------------------------------------------------------------
(* The theorems *)

\* Every variable has its type; an answer of fetchBalance is held exactly while one is under
\* way, which a worker that is started relies on: none is left of the one before.
THEOREM TypeCorrect == Spec => []TypeOK
  <1>1. FeedInv => TypeOK
    BY DEF FeedInv
  <1> QED
    BY <1>1, InitFeed, NextFeed, PTL DEF Spec

\* What all symbols of the plan take for known is the last entry of the stream, however
\* answers are handled while writes are under way and whichever writes are rejected: once
\* what the stream has is answered, and unless the handler of its last entry was cut short.
THEOREM KnownPublished == Spec => []KnownIsPublished
  <1> QED
    BY LastIsPublished, InitFeed, NextFeed, PTL DEF Spec
=============================================================================
