-------------------------- MODULE AgentReload_proofs --------------------------
(***************************************************************************)
(* Proofs about AgentReload for every set of configurations and every      *)
(* number of writes, losses, restarts and failures.                        *)
(***************************************************************************)
EXTENDS AgentReload, FiniteSetTheorems, TLAPS

-----------------------------------------------------------------------------
(* Type correctness *)

JobType == [pc : {"preparing", "disconnecting", "connecting"} \cup Ended,
            todo : SUBSET Tenant, visited : SUBSET (Tenant \X Nat)]
UnitType == [tenant : Tenant, job : Nat, state : {"connecting", "live", "dead"}, listed : BOOLEAN]

MainType == jobs \in Seq(JobType) /\ units \subseteq UnitType

LEMMA SettingTenants ==
    ASSUME NEW s \in Settings
    PROVE  s.tenants \subseteq Tenant /\ s.started \in BOOLEAN
  BY SettingsAssumption DEF Tenant

LEMMA WantedType ==
    ASSUME NEW c \in Config
    PROVE  Wanted(c) \subseteq Tenant
  BY DEF Wanted, Config

LEMMA UnitTyped ==
    ASSUME NEW t \in Tenant, NEW j \in Nat, NEW st \in {"connecting", "live", "dead"}
    PROVE  Unit(t, j, st) \in UnitType
  BY DEF Unit, UnitType

LEMMA JobTyped ==
    ASSUME NEW pc \in {"preparing", "disconnecting", "connecting"} \cup Ended,
           NEW todo \in SUBSET Tenant
    PROVE  Job(pc, todo) \in JobType
  BY DEF Job, JobType

\* A job is added to the list, or one of it is replaced.
LEMMA JobsAppend ==
    ASSUME jobs \in Seq(JobType), NEW job \in JobType, jobs' = Append(jobs, job)
    PROVE  /\ jobs' \in Seq(JobType)
           /\ Len(jobs') = Len(jobs) + 1
           /\ jobs'[Len(jobs) + 1] = job
           /\ \A i \in 1..Len(jobs) : jobs'[i] = jobs[i]
  OBVIOUS

LEMMA JobsExcept ==
    ASSUME jobs \in Seq(JobType), NEW j \in 1..Len(jobs), NEW job \in JobType,
           jobs' = [jobs EXCEPT ![j] = job]
    PROVE  /\ jobs' \in Seq(JobType)
           /\ Len(jobs') = Len(jobs)
           /\ jobs'[j] = job
           /\ \A i \in 1..Len(jobs) : i # j => jobs'[i] = jobs[i]
  OBVIOUS

LEMMA UnlistedTyped ==
    ASSUME NEW u \in UnitType
    PROVE  /\ Unlisted(u) \in UnitType
           /\ Unlisted(u).tenant = u.tenant /\ Unlisted(u).state = u.state
  BY DEF Unlisted, UnitType

\* A service gets another state.
LEMMA StateTyped ==
    ASSUME NEW u \in UnitType, NEW st \in {"connecting", "live", "dead"}
    PROVE  /\ [u EXCEPT !.state = st] \in UnitType
           /\ [u EXCEPT !.state = st].tenant = u.tenant /\ [u EXCEPT !.state = st].job = u.job
           /\ [u EXCEPT !.state = st].listed = u.listed /\ [u EXCEPT !.state = st].state = st
  BY DEF UnitType

LEMMA OpenType ==
    ASSUME MainType, NEW j \in 1..Len(jobs), NEW ms \in SUBSET UnitType,
           NEW todo \in SUBSET Tenant, Open(j, ms, todo)
    PROVE  MainType'
  <1>1. CASE todo = {}
    <2>1. jobs' = [jobs EXCEPT ![j] = Job("done", {})] /\ units' = ms
      BY <1>1 DEF Open
    <2>2. Job("done", {}) \in JobType
      BY JobTyped DEF Ended
    <2> QED
      BY <2>1, <2>2, JobsExcept DEF MainType
  <1>2. CASE todo # {}
    <2>1. PICK t \in todo :
            /\ units' = {u \in ms : u.tenant # t}
                        \cup {Unlisted(u) : u \in {v \in ms : v.tenant = t}}
                        \cup {Unit(t, j, "connecting")}
            /\ jobs' = [jobs EXCEPT ![j] = Job("connecting", todo \ {t})]
      BY <1>2 DEF Open
    <2>2. Job("connecting", todo \ {t}) \in JobType
      BY JobTyped
    <2>3. \A u \in ms : Unlisted(u) \in UnitType
      BY UnlistedTyped
    <2>4. Unit(t, j, "connecting") \in UnitType
      BY UnitTyped
    <2> QED
      BY <2>1, <2>2, <2>3, <2>4, JobsExcept DEF MainType
  <1> QED
    BY <1>1, <1>2

LEMMA FailType ==
    ASSUME MainType, NEW j \in 1..Len(jobs), Fail(j), UNCHANGED units
    PROVE  MainType'
  <1>1. Job("failed", {}) \in JobType
    BY JobTyped DEF Ended
  <1> QED
    BY <1>1, JobsExcept DEF MainType, Fail

LEMMA ReloadType ==
    ASSUME MainType, NEW c \in Config, Reload(c)
    PROVE  MainType'
  <1>1. Wanted(c) \in SUBSET Tenant
    BY WantedType
  <1>2. CASE ReloadAtOnce(c)
    <2>1. Job("done", {}) \in JobType
      BY JobTyped DEF Ended
    <2>2. NextJob \in Nat
      BY DEF NextJob, MainType
    <2>3. \A t \in Wanted(c) : Unit(t, NextJob, "live") \in UnitType
      BY <1>1, <2>2, UnitTyped
    <2> QED
      BY <1>2, <2>1, <2>3, JobsAppend DEF MainType, ReloadAtOnce
  <1>3. CASE ReloadDbsync(c)
    <2>1. Job("done", Wanted(c)) \in JobType /\ Job("preparing", Wanted(c)) \in JobType
      BY <1>1, JobTyped DEF Ended
    <2>2. units' \subseteq units
      BY <1>3 DEF ReloadDbsync, Terminated
    <2> QED
      BY <1>3, <2>1, <2>2, JobsAppend DEF MainType, ReloadDbsync
  <1>4. CASE ReloadExecutor
    <2>1. Job("disconnecting", {}) \in JobType
      BY JobTyped
    <2> QED
      BY <1>4, <2>1, JobsAppend DEF MainType, ReloadExecutor
  <1> QED
    BY <1>2, <1>3, <1>4 DEF Reload

LEMMA PreparedType ==
    ASSUME MainType, NEW j \in 1..Len(jobs), NEW t \in jobs[j].todo, Prepared(j, t)
    PROVE  MainType'
  <1>1. jobs[j] \in JobType
    BY DEF MainType
  <1>2. t \in Tenant /\ jobs[j].todo \ {t} \in SUBSET Tenant
    BY <1>1 DEF JobType
  <1>3. /\ Job("done", jobs[j].todo \ {t}) \in JobType
        /\ Job("preparing", jobs[j].todo \ {t}) \in JobType
    BY <1>2, JobTyped DEF Ended
  <1>4. Unit(t, j, "live") \in UnitType
    BY <1>2, UnitTyped
  <1> QED
    BY <1>3, <1>4, JobsExcept DEF MainType, Prepared

LEMMA DisconnectType ==
    ASSUME MainType, NEW j \in 1..Len(jobs), NEW u \in units, Disconnect(j, u)
    PROVE  MainType'
  <1>1. CASE Fail(j) /\ UNCHANGED units
    BY <1>1, FailType
  <1>2. CASE /\ units' = (units \ {u}) \cup {[u EXCEPT !.state = "dead"]}
             /\ jobs' = [jobs EXCEPT ![j].visited = @ \cup {Identity(u)}]
    <2>1. jobs[j] \in JobType /\ u \in UnitType
      BY DEF MainType
    <2>2. Identity(u) \in Tenant \X Nat
      BY <2>1 DEF Identity, UnitType
    <2>3. [jobs[j] EXCEPT !.visited = @ \cup {Identity(u)}] \in JobType
      BY <2>1, <2>2 DEF JobType
    <2>4. jobs' = [jobs EXCEPT ![j] = [jobs[j] EXCEPT !.visited = @ \cup {Identity(u)}]]
      BY <1>2
    <2>5. [u EXCEPT !.state = "dead"] \in UnitType
      BY <2>1, StateTyped
    <2> QED
      BY <1>2, <2>3, <2>4, <2>5, JobsExcept DEF MainType
  <1> QED
    BY <1>1, <1>2 DEF Disconnect

LEMMA SetupServicesType ==
    ASSUME MainType, agentConfig \in Config, NEW j \in 1..Len(jobs), SetupServices(j)
    PROVE  MainType'
  <1> DEFINE ms == {Unlisted(u) : u \in {v \in units : v.state # "dead"}}
  <1>1. ms \in SUBSET UnitType
    BY UnlistedTyped DEF MainType
  <1>2. Wanted(agentConfig) \in SUBSET Tenant
    BY WantedType
  <1>3. Open(j, ms, Wanted(agentConfig))
    BY DEF SetupServices
  <1> HIDE DEF ms
  <1> QED
    BY <1>1, <1>2, <1>3, OpenType

LEMMA SubscribedType ==
    ASSUME MainType, NEW j \in 1..Len(jobs), Subscribed(j)
    PROVE  MainType'
  <1>1. ASSUME NEW u \in units,
               Open(j, (units \ {u}) \cup {[u EXCEPT !.state = "live"]}, jobs[j].todo)
        PROVE  MainType'
    <2>1. jobs[j] \in JobType /\ u \in UnitType
      BY DEF MainType
    <2>2. (units \ {u}) \cup {[u EXCEPT !.state = "live"]} \in SUBSET UnitType
      BY <2>1, StateTyped DEF MainType
    <2>3. jobs[j].todo \in SUBSET Tenant
      BY <2>1 DEF JobType
    <2> QED
      BY <1>1, <2>2, <2>3, OpenType
  <1>2. CASE Fail(j) /\ UNCHANGED units
    BY <1>2, FailType
  <1> QED
    BY <1>1, <1>2 DEF Subscribed

\* What is not the main program's.
ServiceType ==
    /\ kind \in Kind
    /\ stored \in Config /\ localInstance \in Config /\ agentConfig \in Config
    /\ boot \in {"reading", "defaulting", "subscribing", "connecting", "starting", "registered"}
    /\ notices \in Nat
    /\ replies \in Seq(Config)
    /\ missed \in BOOLEAN /\ overlapped \in BOOLEAN
    /\ lost \in Nat /\ starts \in Nat /\ failures \in Nat

LEMMA TypeParts ==
    (TypeOK <=> ServiceType /\ MainType) /\ (TypeOK' <=> ServiceType' /\ MainType')
  BY DEF TypeOK, ServiceType, MainType, JobType, UnitType

LEMMA NoConfigTyped == NoConfig \in Config
  BY DEF NoConfig, Config

LEMMA NothingTyped == <<>> \in Seq(Config) /\ <<>> \in Seq(JobType)
  OBVIOUS

\* What the key is set to is a configuration with the next number.
LEMMA StoredTyped ==
    ASSUME NEW s \in Settings, NEW n \in Nat
    PROVE  [n |-> n, started |-> s.started, tenants |-> s.tenants] \in Config
  BY SettingTenants DEF Config

LEMMA ShiftedReplies ==
    ASSUME replies \in Seq(Config), NEW i \in NextReply,
           replies' = [k \in 1..(Len(replies) - 1) |->
                          IF k < i THEN replies[k] ELSE replies[k + 1]]
    PROVE  /\ replies' \in Seq(Config) /\ Len(replies) > 0 /\ i = 1
           /\ Len(replies') = Len(replies) - 1
           /\ \A k \in 1..Len(replies') : replies'[k] = replies[k + 1]
  <1>1. i = 1 /\ replies # <<>>
    BY DEF NextReply
  <1>2. Len(replies) > 0 /\ Len(replies) - 1 \in Nat
    BY <1>1
  <1>3. \A k \in 1..(Len(replies) - 1) : k + 1 \in 1..Len(replies) /\ ~ (k < 1)
    BY <1>2
  <1>4. replies' = [k \in 1..(Len(replies) - 1) |-> replies[k + 1]]
    BY <1>1, <1>3
  <1> QED
    BY <1>1, <1>2, <1>3, <1>4

LEMMA WriteType ==
    ASSUME ServiceType, NEW s \in Settings, Write(s)
    PROVE  ServiceType'
  <1>1. stored.n + 1 \in Nat
    BY DEF ServiceType, Config
  <1>2. stored' \in Config
    BY <1>1, StoredTyped DEF Write
  <1>3. missed' \in BOOLEAN
    BY DEF Write
  <1>4. notices' \in Nat /\ lost' \in Nat
    BY DEF ServiceType, Write
  <1> QED
    BY <1>2, <1>3, <1>4 DEF ServiceType, Write, mainVars

LEMMA HandleReplyType ==
    ASSUME TypeOK, HandleReply
    PROVE  TypeOK'
  <1> USE TypeParts
  <1>1. PICK i \in NextReply :
            /\ localInstance' = replies[i]
            /\ replies' = [k \in 1..(Len(replies) - 1) |->
                              IF k < i THEN replies[k] ELSE replies[k + 1]]
            /\ \/ /\ Registered
                  /\ agentConfig' = replies[i]
                  /\ Reload(replies[i])
                  /\ overlapped' = IF kind = "executor" THEN overlapped \/ Busy ELSE Busy
                  /\ UNCHANGED missed
               \/ /\ ~ Registered
                  /\ missed' = (missed \/ replies[i] = stored)
                  /\ UNCHANGED <<mainVars, overlapped>>
            /\ UNCHANGED <<kind, stored, boot, notices, boundVars>>
    BY DEF HandleReply
  <1>2. replies' \in Seq(Config) /\ replies[i] \in Config
    <2>1. replies \in Seq(Config)
      BY DEF ServiceType
    <2>2. replies' \in Seq(Config) /\ Len(replies) > 0 /\ i = 1
      BY <1>1, <2>1, ShiftedReplies
    <2> QED
      BY <2>1, <2>2
  <1>3. CASE Registered /\ agentConfig' = replies[i] /\ Reload(replies[i])
             /\ overlapped' = (IF kind = "executor" THEN overlapped \/ Busy ELSE Busy)
             /\ UNCHANGED missed
    <2>1. MainType'
      BY <1>2, <1>3, ReloadType
    <2>2. Busy \in BOOLEAN
      BY DEF Busy
    <2>3. overlapped' \in BOOLEAN
      BY <1>3, <2>2 DEF ServiceType
    <2> QED
      BY <1>1, <1>2, <1>3, <2>1, <2>3 DEF ServiceType, boundVars
  <1>4. CASE /\ ~ Registered
             /\ missed' = (missed \/ replies[i] = stored)
             /\ UNCHANGED <<mainVars, overlapped>>
    <2>1. MainType'
      BY <1>4 DEF MainType, mainVars
    <2>2. missed' \in BOOLEAN
      BY <1>4
    <2> QED
      BY <1>1, <1>2, <1>4, <2>1, <2>2 DEF ServiceType, mainVars, boundVars
  <1> QED
    BY <1>1, <1>3, <1>4

LEMMA StartType ==
    ASSUME TypeOK, Start
    PROVE  TypeOK'
  <1> USE TypeParts
  <1>1. ServiceType'
    BY DEF ServiceType, Start, boundVars
  <1>2. agentConfig \in Config /\ Wanted(agentConfig) \in SUBSET Tenant
    BY WantedType DEF ServiceType
  <1>3. CASE ReloadAtOnce(agentConfig) /\ kind = "gatherer"
    BY <1>1, <1>2, <1>3, ReloadType DEF Reload
  <1>4. CASE jobs' = Append(jobs, Job("done", {})) /\ UNCHANGED units
    <2>1. Job("done", {}) \in JobType
      BY JobTyped DEF Ended
    <2> QED
      BY <1>1, <1>4, <2>1, JobsAppend DEF MainType
  <1>5. ASSUME NEW t \in Wanted(agentConfig),
               jobs' = Append(jobs, Job("connecting", Wanted(agentConfig) \ {t})),
               units' = {Unit(t, 1, "connecting")}
        PROVE  TypeOK'
    <2>1. Job("connecting", Wanted(agentConfig) \ {t}) \in JobType
      BY <1>2, JobTyped
    <2>2. Unit(t, 1, "connecting") \in UnitType
      BY <1>2, UnitTyped
    <2> QED
      BY <1>1, <1>5, <2>1, <2>2, JobsAppend DEF MainType
  <1> QED
    BY <1>3, <1>4, <1>5 DEF Start

\* The steps that leave the service, or the main program, as it is.
LEMMA ReloadStepService ==
    ASSUME ServiceType, ReloadStep
    PROVE  ServiceType'
  <1>1. PICK j \in 1..Len(jobs) :
            \/ \E t \in jobs[j].todo : Prepared(j, t)
            \/ \E u \in units : Disconnect(j, u)
            \/ SetupServices(j)
            \/ Subscribed(j)
            \/ RejectSchema(j)
    BY DEF ReloadStep
  <1>2. CASE Subscribed(j)
    <2>1. boot' \in {"reading", "defaulting", "subscribing", "connecting", "starting", "registered"}
      BY <1>2 DEF Subscribed, EndOfStart, ServiceType
    <2> QED
      BY <1>2, <2>1 DEF Subscribed, ServiceType, boundVars
  <1>3. CASE RejectSchema(j)
    <2>1. failures' \in Nat
      BY <1>3 DEF RejectSchema, ServiceType
    <2> QED
      BY <1>3, <2>1 DEF RejectSchema, ServiceType, serviceVars
  <1>4. CASE (\E t \in jobs[j].todo : Prepared(j, t)) \/ (\E u \in units : Disconnect(j, u))
             \/ SetupServices(j)
    <2>1. UNCHANGED <<kind, stored, serviceVars, agentConfig, missed, overlapped, boundVars>>
      BY <1>4 DEF Prepared, Disconnect, SetupServices
    <2> QED
      BY <2>1 DEF ServiceType, serviceVars, boundVars
  <1> QED
    BY <1>1, <1>2, <1>3, <1>4

LEMMA ReloadStepMain ==
    ASSUME TypeOK, ReloadStep
    PROVE  MainType'
  <1> USE TypeParts
  <1>1. PICK j \in 1..Len(jobs) :
            \/ \E t \in jobs[j].todo : Prepared(j, t)
            \/ \E u \in units : Disconnect(j, u)
            \/ SetupServices(j)
            \/ Subscribed(j)
            \/ RejectSchema(j)
    BY DEF ReloadStep
  <1>2. agentConfig \in Config
    BY DEF ServiceType
  <1>3. CASE RejectSchema(j)
    BY <1>3, FailType DEF RejectSchema
  <1> QED
    BY <1>1, <1>2, <1>3, PreparedType, DisconnectType, SetupServicesType, SubscribedType

LEMMA TypeInit == Init => TypeOK
  <1> SUFFICES ASSUME Init
               PROVE  TypeOK
    OBVIOUS
  <1>1. \/ stored = NoConfig
        \/ \E s \in Settings : stored = [n |-> 1, started |-> s.started, tenants |-> s.tenants]
    BY DEF Init
  <1>2. stored \in Config
    BY <1>1, StoredTyped, NoConfigTyped
  <1>3. replies \in Seq(Config) /\ MainType
    BY NothingTyped DEF Init, MainType
  <1>4. missed \in BOOLEAN /\ overlapped \in BOOLEAN
    BY DEF Init
  <1>5. ServiceType
    BY <1>2, <1>3, <1>4, NoConfigTyped DEF Init, ServiceType
  <1> QED
    BY <1>3, <1>5, TypeParts

LEMMA TypeStep == TypeOK /\ [Next]_vars => TypeOK'
  <1> SUFFICES ASSUME TypeOK, [Next]_vars
               PROVE  TypeOK'
    OBVIOUS
  <1> USE TypeParts
  <1>1. ASSUME NEW s \in Settings, Write(s)
        PROVE  TypeOK'
    BY <1>1, WriteType DEF Write, MainType, mainVars
  <1>2. CASE Read \/ FindNone
    BY <1>2 DEF Read, FindNone, ServiceType, MainType, mainVars, boundVars
  <1>10. CASE SetDefault
    <2>1. stored.n + 1 \in Nat
      BY DEF ServiceType, Config
    <2>2. stored' \in Config
      BY <1>10, <2>1 DEF SetDefault, Config
    <2> QED
      BY <1>10, <2>2 DEF SetDefault, ServiceType, MainType, mainVars, boundVars
  <1>3. CASE Subscribe
    <2>1. ServiceType'
      BY <1>3 DEF Subscribe, ServiceType, boundVars
    <2>2. CASE kind = "dbsync" /\ ReloadDbsync(localInstance)
      BY <2>1, <2>2, ReloadType DEF Reload, ServiceType
    <2>3. CASE UNCHANGED <<jobs, units>>
      BY <2>1, <2>3 DEF MainType
    <2> QED
      BY <1>3, <2>2, <2>3 DEF Subscribe
  <1>4. CASE Start
    BY <1>4, StartType
  <1>5. CASE HandleNotice
    <2>1. Answer \in Config
      BY DEF Answer, ServiceType
    <2> QED
      BY <1>5, <2>1 DEF HandleNotice, ServiceType, MainType, mainVars, boundVars
  <1>6. CASE HandleReply
    BY <1>6, HandleReplyType
  <1>7. CASE ReloadStep
    BY <1>7, ReloadStepService, ReloadStepMain
  <1>8. CASE Restart
    <2>1. replies' \in Seq(Config) /\ MainType'
      BY <1>8, NothingTyped DEF Restart, MainType
    <2>2. missed' \in BOOLEAN /\ overlapped' \in BOOLEAN
      BY <1>8 DEF Restart
    <2>3. starts' \in Nat
      BY <1>8 DEF Restart, ServiceType
    <2>4. ServiceType'
      BY <1>8, <2>1, <2>2, <2>3, NoConfigTyped DEF Restart, ServiceType
    <2> QED
      BY <2>1, <2>4
  <1>9. CASE UNCHANGED vars
    BY <1>9 DEF vars, serviceVars, mainVars, boundVars, ServiceType, MainType
  <1> QED
    BY <1>1, <1>2, <1>3, <1>4, <1>5, <1>6, <1>7, <1>8, <1>9, <1>10 DEF Next, ServiceStep

\* The state of the service, of the main program and of every reload keeps its type.
THEOREM TypeCorrect == Spec => []TypeOK
  <1> QED
    BY TypeInit, TypeStep, PTL DEF Spec

-----------------------------------------------------------------------------
(* ConfigurationService's copy mirrors the key *)

\* The copy, the answers under way and the key are in the order of the writes.
InOrder ==
    /\ localInstance.n <= stored.n
    /\ \A i \in 1..Len(replies) :
          localInstance.n <= replies[i].n /\ replies[i].n <= stored.n
    /\ \A i, k \in 1..Len(replies) : i <= k => replies[i].n <= replies[k].n
\* Nothing is under way, and no copy taken, before the first read.
QuietStart ==
    boot \in {"reading", "defaulting"} => notices = 0 /\ replies = <<>> /\ localInstance.n = 0

LEMMA InOrderInit == Init => InOrder /\ QuietStart
  BY DEF Init, InOrder, NoConfig, QuietStart

LEMMA QuietStartStep == QuietStart /\ [Next]_vars => QuietStart'
  <1> DEFINE Early == boot \in {"reading", "defaulting"}
             Same == UNCHANGED <<notices, replies, localInstance>>
  <1> SUFFICES ASSUME QuietStart, [Next]_vars, Early'
               PROVE  notices' = 0 /\ replies' = <<>> /\ localInstance'.n = 0
    BY DEF QuietStart
  <1>1. CASE Restart
    BY <1>1 DEF Restart, NoConfig
  <1>2. ASSUME NEW s \in Settings, Write(s)
        PROVE  Early /\ Same
    BY <1>2 DEF Write, Subscriber
  <1>3. ASSUME ServiceStep
        PROVE  Early /\ Same
    <2>1. ~ Read /\ ~ SetDefault /\ ~ Subscribe /\ ~ Start
      BY DEF Read, SetDefault, Subscribe, Start
    <2>2. HandleNotice => Early /\ notices > 0
      BY DEF HandleNotice
    <2>3. HandleReply => Early /\ replies # <<>>
      BY DEF HandleReply, NextReply
    <2>4. FindNone => Early /\ Same
      BY DEF FindNone
    <2>5. ~ (0 > 0)
      OBVIOUS
    <2> HIDE DEF Same
    <2> QED
      BY <1>3, <2>1, <2>2, <2>3, <2>4, <2>5 DEF ServiceStep, QuietStart
  <1>4. ASSUME ReloadStep
        PROVE  Early /\ Same
    <2>1. PICK j \in 1..Len(jobs) :
              \/ \E t \in jobs[j].todo : Prepared(j, t)
              \/ \E u \in units : Disconnect(j, u)
              \/ SetupServices(j)
              \/ Subscribed(j)
              \/ RejectSchema(j)
      BY <1>4 DEF ReloadStep
    <2> QED
      BY <2>1 DEF Prepared, Disconnect, SetupServices, Subscribed, RejectSchema, EndOfStart,
                  serviceVars
  <1>5. CASE UNCHANGED vars
    BY <1>5 DEF vars, serviceVars, QuietStart
  <1>6. Early /\ Same => notices' = 0 /\ replies' = <<>> /\ localInstance'.n = 0
    BY DEF QuietStart
  <1> HIDE DEF Early, Same
  <1> QED
    BY <1>1, <1>2, <1>3, <1>4, <1>5, <1>6 DEF Next

\* Only the answer to a read, and the first read, changes the copy.
LEMMA CopyUnchanged ==
    ASSUME ReloadStep \/ FindNone \/ Subscribe \/ Start
    PROVE  UNCHANGED <<stored, localInstance, replies>>
  BY DEF ReloadStep, Prepared, Disconnect, SetupServices, Subscribed, RejectSchema, FindNone,
         Subscribe, Start, serviceVars

LEMMA InOrderStep ==
    ASSUME TypeOK, InOrder, QuietStart, [Next]_vars
    PROVE  /\ InOrder'
           /\ [Mirror!Change \/ Mirror!Refresh \/ Mirror!Supply \/ Mirror!Forget]_<<stored.n, localInstance.n>>
  <1> USE TypeParts
  <1>1. /\ stored.n \in Nat /\ localInstance.n \in Nat
        /\ \A i \in 1..Len(replies) : replies[i] \in Config /\ replies[i].n \in Nat
        /\ replies \in Seq(Config)
    <2>1. \A c \in Config : c.n \in Nat
      BY DEF Config
    <2>2. stored \in Config /\ localInstance \in Config /\ replies \in Seq(Config)
      BY DEF ServiceType
    <2> QED
      BY <2>1, <2>2
  <1>2. ASSUME NEW s \in Settings, Write(s)
        PROVE  InOrder' /\ Mirror!Change
    <2>1. stored'.n = stored.n + 1 /\ UNCHANGED <<localInstance, replies>>
      BY <1>2 DEF Write
    <2>2. localInstance'.n <= stored'.n
      BY <1>1, <2>1 DEF InOrder
    <2>3. \A i \in 1..Len(replies) : localInstance.n <= replies[i].n /\ replies[i].n <= stored'.n
      BY <1>1, <2>1 DEF InOrder
    <2>4. InOrder'
      BY <2>1, <2>2, <2>3 DEF InOrder
    <2> QED
      BY <2>1, <2>4 DEF Mirror!Change
  <1>3. CASE UNCHANGED <<stored, localInstance, replies>>
    BY <1>3 DEF InOrder
  <1>4. ASSUME Read
        PROVE  InOrder' /\ (Mirror!Refresh \/ UNCHANGED <<stored.n, localInstance.n>>)
    <2>1. localInstance' = stored /\ UNCHANGED <<stored, replies>> /\ replies = <<>>
      BY <1>4 DEF Read, QuietStart
    <2>2. localInstance'.n = stored.n /\ Len(replies') = 0
      BY <2>1
    <2>3. InOrder'
      BY <1>1, <2>1, <2>2 DEF InOrder
    <2>4. stored.n = localInstance.n \/ stored.n \in (localInstance.n + 1)..stored.n
      BY <1>1 DEF InOrder
    <2> QED
      BY <2>1, <2>2, <2>3, <2>4 DEF Mirror!Refresh
  <1>5. ASSUME HandleNotice
        PROVE  InOrder' /\ UNCHANGED <<stored, localInstance>>
    <2>1. replies' = Append(replies, stored) /\ UNCHANGED <<stored, localInstance>>
      BY <1>5 DEF HandleNotice, Answer
    <2>2. /\ Len(replies') = Len(replies) + 1 /\ replies'[Len(replies) + 1] = stored
          /\ \A i \in 1..Len(replies) : replies'[i] = replies[i]
      BY <1>1, <2>1
    <2> QED
      BY <1>1, <2>1, <2>2 DEF InOrder
  <1>6. ASSUME HandleReply
        PROVE  InOrder' /\ (Mirror!Refresh \/ UNCHANGED <<stored.n, localInstance.n>>)
    <2>1. PICK i \in NextReply :
            /\ localInstance' = replies[i]
            /\ replies' = [k \in 1..(Len(replies) - 1) |->
                              IF k < i THEN replies[k] ELSE replies[k + 1]]
            /\ UNCHANGED stored
      BY <1>6 DEF HandleReply
    <2>2. /\ Len(replies) > 0 /\ i = 1
          /\ Len(replies') = Len(replies) - 1
          /\ \A k \in 1..Len(replies') : replies'[k] = replies[k + 1]
      BY <1>1, <2>1, ShiftedReplies
    <2>3. 1 \in 1..Len(replies)
      BY <1>1, <2>2
    <2>4. \A k \in 1..Len(replies') : k \in 1..Len(replies) /\ k + 1 \in 1..Len(replies)
      BY <1>1, <2>2
    <2>5. localInstance'.n = replies[1].n
      BY <2>1, <2>2
    <2>6. InOrder'
      <3>1. localInstance'.n <= stored'.n
        BY <2>1, <2>3, <2>5 DEF InOrder
      <3>2. \A k \in 1..Len(replies') :
               localInstance'.n <= replies'[k].n /\ replies'[k].n <= stored'.n
        BY <2>1, <2>2, <2>3, <2>4, <2>5 DEF InOrder
      <3>3. \A k, m \in 1..Len(replies') : k <= m => replies'[k].n <= replies'[m].n
        BY <2>2, <2>4 DEF InOrder
      <3> QED
        BY <3>1, <3>2, <3>3 DEF InOrder
    <2>7. localInstance.n <= localInstance'.n /\ localInstance'.n <= stored.n
      BY <2>3, <2>5 DEF InOrder
    <2>8. localInstance'.n \in Nat
      BY <1>1, <2>3, <2>5
    <2> QED
      BY <1>1, <2>1, <2>6, <2>7, <2>8 DEF Mirror!Refresh
  <1>7. ASSUME Restart
        PROVE  InOrder' /\ Mirror!Forget
    <2>1. localInstance' = NoConfig /\ replies' = <<>> /\ UNCHANGED stored
      BY <1>7 DEF Restart
    <2> QED
      BY <1>1, <2>1 DEF InOrder, NoConfig, Mirror!Forget
  <1>8. CASE ReloadStep \/ FindNone \/ Subscribe \/ Start \/ UNCHANGED vars
    <2>1. UNCHANGED <<stored, localInstance, replies>>
      BY <1>8, CopyUnchanged DEF vars, serviceVars
    <2> QED
      BY <1>3, <2>1
  <1>9. ASSUME SetDefault
        PROVE  InOrder' /\ Mirror!Supply
    <2>1. replies = <<>> /\ localInstance.n = 0 /\ UNCHANGED replies
      BY <1>9 DEF SetDefault, QuietStart
    <2>2. stored'.n = stored.n + 1 /\ localInstance'.n = stored'.n
      BY <1>9 DEF SetDefault
    <2>3. Len(replies') = 0
      BY <2>1
    <2>4. InOrder'
      BY <1>1, <2>2, <2>3 DEF InOrder
    <2> QED
      BY <2>1, <2>2, <2>4 DEF Mirror!Supply
  <1> QED
    BY <1>2, <1>4, <1>5, <1>6, <1>7, <1>8, <1>9 DEF Next, ServiceStep

\* ConfigurationService hands out a copy of the key that is never invented and never
\* goes back to an older one, however writes, notifications, answers and restarts
\* interleave and whatever the reloads do meanwhile.
THEOREM CopyMirrorsKey == Spec => IsMirror
  <1>1. Init => Mirror!Init
    BY DEF Init, Mirror!Init, NoConfig
  <1> QED
    BY <1>1, TypeInit, TypeStep, InOrderInit, InOrderStep, QuietStartStep, PTL DEF Spec, IsMirror, Mirror!Spec

-----------------------------------------------------------------------------
(* What runs is what the configuration of the last callback asks for *)

\* The reloads an agent of its kind goes through.
KindsOfJobs ==
    \A i \in 1..Len(jobs) :
        /\ kind = "gatherer" => jobs[i].pc = "done"
        /\ kind = "dbsync" => jobs[i].pc \in {"preparing"} \cup Ended
        /\ kind = "executor" => jobs[i].pc # "preparing"

AllListed == kind # "executor" => \A u \in units : u.listed

\* Nothing is set up before the first reload; there was one when there is a callback.
SetUpByReloads ==
    /\ boot \in {"reading", "defaulting", "subscribing", "connecting"} => jobs = <<>>
    /\ jobs = <<>> => units = {} /\ boot \notin {"starting", "registered"}

OnePerTenant(us) == \A u, v \in us : u.tenant = v.tenant => u = v

\* The tenants of the configuration but for those left to do have a unit each, and
\* nobody else has.
Serves(us, c, todo) ==
    /\ todo \subseteq Wanted(c)
    /\ OnePerTenant(us)
    /\ \A u \in us : u.listed /\ u.tenant \in Wanted(c) \ todo
    /\ \A t \in Wanted(c) \ todo : \E u \in us : u.tenant = t

\* Where a reload stands, given what it left to do, and what is set up.
Stands(job, j, us, c) ==
    /\ job.pc = "done" => Serves(us, c, {}) /\ \A u \in us : u.state = "live"
    /\ job.pc = "preparing" => Serves(us, c, job.todo) /\ \A u \in us : u.state = "live"
    /\ job.pc = "connecting" =>
          /\ Serves(us, c, job.todo)
          /\ \E w \in us : /\ w.state = "connecting" /\ w.job = j
                           /\ \A u \in us \ {w} : u.state = "live"
    /\ job.pc = "disconnecting" =>
          /\ OnePerTenant(us)
          /\ \A u \in us : /\ u.listed
                           /\ u.state = IF Identity(u) \in job.visited THEN "dead" ELSE "live"

\* Without overlap the last reload is the only one that goes on, the executor's is
\* never rejected, and everything that is set up is its own or one it will stop.
Alone ==
    jobs # <<>> /\ ~ overlapped =>
        /\ \A i \in 1..(Len(jobs) - 1) : jobs[i].pc \in Ended
        /\ kind = "executor" => jobs[Len(jobs)].pc # "failed"
        /\ Stands(jobs[Len(jobs)], Len(jobs), units, agentConfig)

Serving == KindsOfJobs /\ AllListed /\ SetUpByReloads /\ Alone

LEMMA ServingInit == Init => Serving
  <1> SUFFICES ASSUME Init
               PROVE  Serving
    OBVIOUS
  <1>1. jobs = <<>> /\ units = {} /\ boot = "reading" /\ Len(jobs) = 0
    BY DEF Init
  <1> QED
    BY <1>1 DEF Serving, KindsOfJobs, AllListed, SetUpByReloads, Alone

LEMMA SettledFromServing ==
    ASSUME TypeOK, Serving
    PROVE  SettledRunsItsConfiguration /\ NothingEscapes
  <1>1. units \subseteq UnitType /\ jobs \in Seq(JobType) /\ kind \in Kind
    BY TypeParts DEF MainType, ServiceType
  <1>2. SettledRunsItsConfiguration
    <2> SUFFICES ASSUME jobs # <<>>, ~ overlapped, jobs[Len(jobs)].pc = "done"
                 PROVE  RunsExactly(agentConfig)
      BY DEF SettledRunsItsConfiguration
    <2>1. Serves(units, agentConfig, {}) /\ \A u \in units : u.state = "live"
      BY DEF Serving, Alone, Stands
    <2>2. \A u \in units : u.tenant \in Wanted(agentConfig)
      BY <2>1 DEF Serves
    <2>3. ASSUME NEW t \in Wanted(agentConfig)
          PROVE  Cardinality({u \in units : u.tenant = t}) = 1
      <3>1. PICK w \in units : w.tenant = t
        BY <2>1 DEF Serves
      <3>2. {u \in units : u.tenant = t} = {w}
        BY <2>1, <3>1 DEF Serves, OnePerTenant
      <3> QED
        BY <3>2, FS_Singleton
    <2> QED
      BY <2>1, <2>2, <2>3 DEF RunsExactly
  <1>3. NothingEscapes
    <2>1. CASE kind # "executor"
      BY <2>1 DEF Serving, AllListed, NothingEscapes
    <2>2. CASE kind = "executor" /\ jobs = <<>>
      BY <2>2 DEF Serving, SetUpByReloads, NothingEscapes
    <2>3. ASSUME kind = "executor", jobs # <<>>, ~ overlapped
          PROVE  \A u \in units : u.listed
      <3>1. Len(jobs) \in 1..Len(jobs)
        BY <1>1, <2>3
      <3>2. jobs[Len(jobs)] \in JobType
        BY <1>1, <3>1
      <3>3. jobs[Len(jobs)].pc \in {"done", "connecting", "disconnecting"}
        BY <2>3, <3>1, <3>2 DEF Serving, KindsOfJobs, Alone, JobType, Ended
      <3>4. Stands(jobs[Len(jobs)], Len(jobs), units, agentConfig)
        BY <2>3 DEF Serving, Alone
      <3> QED
        BY <3>3, <3>4 DEF Stands, Serves
    <2> QED
      BY <2>1, <2>2, <2>3 DEF NothingEscapes
  <1> QED
    BY <1>2, <1>3

-----------------------------------------------------------------------------
(* Each step keeps it *)

\* What a reload adds is the last job.
LEMMA NewJob ==
    ASSUME TypeOK, KindsOfJobs, NEW job \in JobType, jobs' = Append(jobs, job), UNCHANGED kind,
           kind = "gatherer" => job.pc = "done",
           kind = "dbsync" => job.pc \in {"preparing"} \cup Ended,
           kind = "executor" => job.pc # "preparing"
    PROVE  /\ KindsOfJobs'
           /\ jobs' # <<>> /\ Len(jobs') = Len(jobs) + 1 /\ jobs'[Len(jobs')] = job
           /\ \A i \in 1..(Len(jobs') - 1) : i \in 1..Len(jobs) /\ jobs'[i] = jobs[i]
  <1>1. jobs \in Seq(JobType)
    BY TypeParts DEF MainType
  <1>2. /\ Len(jobs') = Len(jobs) + 1 /\ jobs'[Len(jobs) + 1] = job
        /\ \A i \in 1..Len(jobs) : jobs'[i] = jobs[i]
        /\ Len(jobs) \in Nat /\ jobs' # <<>>
    BY <1>1
  <1>3. \A i \in 1..Len(jobs') : i \in 1..Len(jobs) \/ i = Len(jobs) + 1
    BY <1>2
  <1>4. \A i \in 1..(Len(jobs') - 1) : i \in 1..Len(jobs)
    BY <1>2
  <1> QED
    BY <1>2, <1>3, <1>4 DEF KindsOfJobs

\* One job becomes another.
LEMMA SameJobs ==
    ASSUME TypeOK, KindsOfJobs, NEW j \in 1..Len(jobs), NEW job \in JobType,
           jobs' = [jobs EXCEPT ![j] = job], UNCHANGED kind,
           kind = "gatherer" => job.pc = "done",
           kind = "dbsync" => job.pc \in {"preparing"} \cup Ended,
           kind = "executor" => job.pc # "preparing"
    PROVE  /\ KindsOfJobs'
           /\ jobs # <<>> /\ jobs' # <<>> /\ Len(jobs') = Len(jobs) /\ jobs'[j] = job
           /\ \A i \in 1..(Len(jobs') - 1) : i # j => jobs'[i] = jobs[i]
  <1>1. jobs \in Seq(JobType)
    BY TypeParts DEF MainType
  <1>2. /\ Len(jobs') = Len(jobs) /\ jobs'[j] = job /\ Len(jobs) \in Nat
        /\ \A i \in 1..Len(jobs) : i # j => jobs'[i] = jobs[i]
        /\ jobs # <<>> /\ jobs' # <<>>
    BY <1>1
  <1> QED
    BY <1>2 DEF KindsOfJobs

\* Only the last reload goes on.
LEMMA LastGoesOn ==
    ASSUME TypeOK, Alone, ~ overlapped, NEW j \in 1..Len(jobs), jobs[j].pc \notin Ended
    PROVE  /\ j = Len(jobs) /\ jobs # <<>>
           /\ Stands(jobs[j], j, units, agentConfig)
  <1>1. jobs \in Seq(JobType)
    BY TypeParts DEF MainType
  <1>2. jobs # <<>> /\ Len(jobs) \in Nat /\ (j \in 1..(Len(jobs) - 1) \/ j = Len(jobs))
    BY <1>1
  <1> QED
    BY <1>2 DEF Alone

LEMMA ReloadServing ==
    ASSUME TypeOK, KindsOfJobs, AllListed, Alone, NEW c \in Config, Reload(c), agentConfig' = c,
           UNCHANGED kind,
           ~ overlapped' => ~ Busy /\ (kind = "executor" => ~ overlapped /\ jobs # <<>>)
    PROVE  KindsOfJobs' /\ AllListed' /\ Alone' /\ jobs' # <<>>
  <1>1. jobs \in Seq(JobType) /\ units \subseteq UnitType /\ Wanted(c) \in SUBSET Tenant
    BY TypeParts, WantedType DEF MainType
  <1>2. ~ overlapped' => \A i \in 1..Len(jobs) : jobs[i].pc \in Ended
    BY DEF Busy
  <1>3. ASSUME kind = "gatherer", ReloadAtOnce(c)
        PROVE  KindsOfJobs' /\ AllListed' /\ Alone' /\ jobs' # <<>>
    <2> DEFINE job == Job("done", {})
    <2>1. job \in JobType /\ job.pc = "done"
      BY JobTyped DEF Ended, Job
    <2>2. jobs' = Append(jobs, job)
      BY <1>3 DEF ReloadAtOnce
    <2> HIDE DEF job
    <2>3. /\ KindsOfJobs'
          /\ jobs' # <<>> /\ Len(jobs') = Len(jobs) + 1 /\ jobs'[Len(jobs')] = job
          /\ \A i \in 1..(Len(jobs') - 1) : i \in 1..Len(jobs) /\ jobs'[i] = jobs[i]
      BY <1>3, <2>1, <2>2, NewJob
    <2>4. units' = {Unit(t, NextJob, "live") : t \in Wanted(c)}
      BY <1>3 DEF ReloadAtOnce, AllListed
    <2>5. \A u \in units' : u.listed /\ u.state = "live" /\ u.tenant \in Wanted(c)
      BY <2>4 DEF Unit
    <2>6. Serves(units', c, {})
      <3>1. OnePerTenant(units')
        <4>1. \A u \in units' : u = Unit(u.tenant, NextJob, "live")
          BY <2>4 DEF Unit
        <4> QED
          BY <4>1 DEF OnePerTenant
      <3>2. \A t \in Wanted(c) : Unit(t, NextJob, "live") \in units'
                                /\ Unit(t, NextJob, "live").tenant = t
        BY <2>4 DEF Unit
      <3> QED
        BY <2>5, <3>1, <3>2 DEF Serves
    <2>7. Stands(job, Len(jobs'), units', c)
      BY <2>1, <2>5, <2>6 DEF Stands
    <2> QED
      BY <1>2, <1>3, <2>3, <2>5, <2>7 DEF AllListed, Alone
  <1>4. ASSUME kind = "dbsync", ReloadDbsync(c)
        PROVE  KindsOfJobs' /\ AllListed' /\ Alone' /\ jobs' # <<>>
    <2> DEFINE job == Job(IF Wanted(c) = {} THEN "done" ELSE "preparing", Wanted(c))
    <2>1. /\ job \in JobType /\ job.pc \in {"done", "preparing"} /\ job.todo = Wanted(c)
          /\ job.pc = "done" => Wanted(c) = {}
      BY <1>1, JobTyped DEF Ended, Job
    <2>2. jobs' = Append(jobs, job)
      BY <1>4 DEF ReloadDbsync
    <2> HIDE DEF job
    <2>3. /\ KindsOfJobs'
          /\ jobs' # <<>> /\ Len(jobs') = Len(jobs) + 1 /\ jobs'[Len(jobs')] = job
          /\ \A i \in 1..(Len(jobs') - 1) : i \in 1..Len(jobs) /\ jobs'[i] = jobs[i]
      BY <1>4, <2>1, <2>2, NewJob DEF Ended
    <2>4. units' = {}
      BY <1>4 DEF ReloadDbsync, Terminated, AllListed
    <2>5. Stands(job, Len(jobs'), units', c)
      BY <2>1, <2>4 DEF Stands, Serves, OnePerTenant
    <2> QED
      BY <1>2, <1>4, <2>3, <2>4, <2>5 DEF AllListed, Alone
  <1>5. ASSUME kind = "executor", ReloadExecutor
        PROVE  KindsOfJobs' /\ AllListed' /\ Alone' /\ jobs' # <<>>
    <2> DEFINE job == Job("disconnecting", {})
    <2>1. job \in JobType /\ job.pc = "disconnecting" /\ job.visited = {}
      BY JobTyped DEF Job
    <2>2. jobs' = Append(jobs, job) /\ UNCHANGED units
      BY <1>5 DEF ReloadExecutor
    <2> HIDE DEF job
    <2>3. /\ KindsOfJobs'
          /\ jobs' # <<>> /\ Len(jobs') = Len(jobs) + 1 /\ jobs'[Len(jobs')] = job
          /\ \A i \in 1..(Len(jobs') - 1) : i \in 1..Len(jobs) /\ jobs'[i] = jobs[i]
      BY <1>5, <2>1, <2>2, NewJob
    <2>4. ASSUME ~ overlapped'
          PROVE  Stands(job, Len(jobs'), units', c)
      <3>1. ~ overlapped /\ jobs # <<>> /\ Len(jobs) \in 1..Len(jobs)
        BY <1>1, <1>5, <2>4
      <3>2. jobs[Len(jobs)].pc = "done"
        BY <1>2, <1>5, <2>4, <3>1 DEF Alone, Ended
      <3>3. Serves(units, agentConfig, {}) /\ \A u \in units : u.state = "live"
        BY <3>1, <3>2 DEF Alone, Stands
      <3> QED
        BY <2>1, <2>2, <3>3 DEF Stands, Serves
    <2> QED
      BY <1>2, <1>5, <2>1, <2>3, <2>4 DEF AllListed, Alone
  <1> QED
    BY <1>3, <1>4, <1>5 DEF Reload

LEMMA PreparedServing ==
    ASSUME TypeOK, Serving, NEW j \in 1..Len(jobs), NEW t \in jobs[j].todo, Prepared(j, t)
    PROVE  Serving'
  <1> DEFINE job == Job(IF jobs[j].todo = {t} THEN "done" ELSE "preparing", jobs[j].todo \ {t})
  <1>1. jobs \in Seq(JobType) /\ jobs[j] \in JobType /\ kind \in Kind
    BY TypeParts DEF MainType, ServiceType
  <1>2. kind = "dbsync" /\ jobs[j].pc = "preparing"
    BY <1>1 DEF Prepared, Serving, KindsOfJobs, Kind
  <1>3. /\ job \in JobType /\ job.pc \in {"done", "preparing"} /\ job.todo = jobs[j].todo \ {t}
        /\ job.pc = "done" => job.todo = {}
    <2>1. jobs[j].todo \ {t} \in SUBSET Tenant
      BY <1>1 DEF JobType
    <2> QED
      BY <2>1, JobTyped DEF Ended, Job
  <1>4. /\ jobs' = [jobs EXCEPT ![j] = job] /\ units' = units \cup {Unit(t, j, "live")}
        /\ UNCHANGED <<kind, boot, agentConfig, overlapped>>
    BY DEF Prepared, serviceVars
  <1> HIDE DEF job
  <1>5. /\ KindsOfJobs'
        /\ jobs # <<>> /\ jobs' # <<>> /\ Len(jobs') = Len(jobs) /\ jobs'[j] = job
        /\ \A i \in 1..(Len(jobs') - 1) : i # j => jobs'[i] = jobs[i]
    BY <1>2, <1>3, <1>4, SameJobs DEF Serving, Ended
  <1>6. AllListed'
    BY <1>4 DEF Serving, AllListed, Unit
  <1>7. SetUpByReloads'
    BY <1>4, <1>5 DEF Serving, SetUpByReloads
  <1>8. ASSUME ~ overlapped
        PROVE  j = Len(jobs) /\ Stands(job, j, units', agentConfig)
    <2>1. j = Len(jobs) /\ Stands(jobs[j], j, units, agentConfig)
      BY <1>2, <1>8, LastGoesOn DEF Serving, Ended
    <2>2. Serves(units, agentConfig, jobs[j].todo) /\ \A u \in units : u.state = "live"
      BY <1>2, <2>1 DEF Stands
    <2>3. Serves(units', agentConfig, job.todo) /\ \A u \in units' : u.state = "live"
      <3>1. Unit(t, j, "live").tenant = t /\ Unit(t, j, "live").listed
            /\ Unit(t, j, "live").state = "live"
        BY DEF Unit
      <3>2. \A u \in units : u.tenant # t
        BY <2>2 DEF Serves
      <3>3. OnePerTenant(units')
        BY <1>4, <2>2, <3>1, <3>2 DEF Serves, OnePerTenant
      <3> QED
        BY <1>3, <1>4, <2>2, <3>1, <3>3 DEF Serves
    <2> QED
      BY <1>3, <2>1, <2>3 DEF Stands
  <1>9. Alone'
    BY <1>2, <1>4, <1>5, <1>8 DEF Serving, Alone
  <1> QED
    BY <1>5, <1>6, <1>7, <1>9 DEF Serving

LEMMA RejectSchemaServing ==
    ASSUME TypeOK, Serving, NEW j \in 1..Len(jobs), RejectSchema(j)
    PROVE  Serving'
  <1> DEFINE job == Job("failed", {})
  <1>1. job \in JobType /\ job.pc = "failed"
    BY JobTyped DEF Ended, Job
  <1>2. kind = "dbsync" /\ jobs[j].pc = "preparing"
    BY TypeParts DEF RejectSchema, Serving, KindsOfJobs, Kind, ServiceType
  <1>3. /\ jobs' = [jobs EXCEPT ![j] = job]
        /\ UNCHANGED <<kind, boot, agentConfig, units, overlapped>>
    BY DEF RejectSchema, Fail, serviceVars
  <1> HIDE DEF job
  <1>4. /\ KindsOfJobs'
        /\ jobs # <<>> /\ jobs' # <<>> /\ Len(jobs') = Len(jobs) /\ jobs'[j] = job
        /\ \A i \in 1..(Len(jobs') - 1) : i # j => jobs'[i] = jobs[i]
    BY <1>1, <1>2, <1>3, SameJobs DEF Serving, Ended
  <1>5. ASSUME ~ overlapped
        PROVE  j = Len(jobs)
    BY <1>2, <1>5, LastGoesOn DEF Serving, Ended
  <1>6. Stands(job, Len(jobs), units, agentConfig)
    BY <1>1 DEF Stands
  <1>7. Alone'
    BY <1>2, <1>3, <1>4, <1>5, <1>6 DEF Serving, Alone
  <1> QED
    BY <1>3, <1>4, <1>7 DEF Serving, AllListed, SetUpByReloads

LEMMA DisconnectServing ==
    ASSUME TypeOK, Serving, NEW j \in 1..Len(jobs), NEW u \in units, Disconnect(j, u)
    PROVE  Serving'
  <1>1. /\ jobs \in Seq(JobType) /\ jobs[j] \in JobType /\ kind \in Kind
        /\ units \subseteq UnitType /\ u \in UnitType
    BY TypeParts DEF MainType, ServiceType
  <1>2. kind = "executor" /\ jobs[j].pc = "disconnecting"
    BY <1>1 DEF Disconnect, Serving, KindsOfJobs, Kind, Ended
  <1>3. UNCHANGED <<kind, boot, agentConfig, overlapped>>
    BY DEF Disconnect, serviceVars
  <1>4. ASSUME ~ overlapped
        PROVE  /\ j = Len(jobs) /\ jobs # <<>>
               /\ OnePerTenant(units)
               /\ \A v \in units : /\ v.listed
                                   /\ v.state = IF Identity(v) \in jobs[j].visited
                                                THEN "dead" ELSE "live"
    BY <1>2, <1>4, LastGoesOn DEF Serving, Stands, Ended
  <1>5. CASE (u.state = "dead" \/ u.state = "connecting") /\ Fail(j) /\ UNCHANGED units
    <2> DEFINE job == Job("failed", {})
    <2>1. job \in JobType /\ job.pc = "failed" /\ jobs' = [jobs EXCEPT ![j] = job]
      BY <1>5, JobTyped DEF Ended, Job, Fail
    <2> HIDE DEF job
    <2>2. /\ KindsOfJobs'
          /\ jobs # <<>> /\ jobs' # <<>>
      BY <1>2, <1>3, <2>1, SameJobs DEF Serving, Ended
    <2>3. overlapped
      <3> SUFFICES ASSUME ~ overlapped
                   PROVE  FALSE
        OBVIOUS
      <3>1. u.state = "live"
        BY <1>4 DEF Disconnect
      <3> QED
        BY <1>5, <3>1
    <2> QED
      BY <1>2, <1>3, <1>5, <2>2, <2>3 DEF Serving, Alone, AllListed, SetUpByReloads
  <1>6. CASE /\ units' = (units \ {u}) \cup {[u EXCEPT !.state = "dead"]}
             /\ jobs' = [jobs EXCEPT ![j].visited = @ \cup {Identity(u)}]
    <2> DEFINE job == [jobs[j] EXCEPT !.visited = @ \cup {Identity(u)}]
               d == [u EXCEPT !.state = "dead"]
    <2>1. /\ job \in JobType /\ job.pc = "disconnecting"
          /\ job.visited = jobs[j].visited \cup {Identity(u)}
      <3>1. Identity(u) \in Tenant \X Nat
        BY <1>1 DEF Identity, UnitType
      <3> QED
        BY <1>1, <1>2, <3>1 DEF JobType
    <2>2. jobs' = [jobs EXCEPT ![j] = job]
      BY <1>6
    <2>3. d.tenant = u.tenant /\ d.job = u.job /\ d.state = "dead" /\ d.listed = u.listed
      BY <1>1, StateTyped
    <2>4. units' = (units \ {u}) \cup {d}
      BY <1>6
    <2> HIDE DEF job, d
    <2>5. /\ KindsOfJobs'
          /\ jobs # <<>> /\ jobs' # <<>> /\ Len(jobs') = Len(jobs) /\ jobs'[j] = job
          /\ \A i \in 1..(Len(jobs') - 1) : i # j => jobs'[i] = jobs[i]
      BY <1>2, <1>3, <2>1, <2>2, SameJobs DEF Serving
    <2>6. ASSUME ~ overlapped
          PROVE  Stands(job, j, units', agentConfig)
      <3>1. OnePerTenant(units')
        BY <1>4, <2>3, <2>4, <2>6 DEF OnePerTenant
      <3>2. Identity(d) = Identity(u)
        BY <2>3 DEF Identity
      <3>3. \A v \in units \ {u} : Identity(v) # Identity(u)
        BY <1>4, <2>6 DEF Identity, OnePerTenant
      <3>4. \A v \in units' : /\ v.listed
                              /\ v.state = IF Identity(v) \in job.visited
                                           THEN "dead" ELSE "live"
        BY <1>4, <2>1, <2>3, <2>4, <2>6, <3>2, <3>3
      <3> QED
        BY <2>1, <3>1, <3>4 DEF Stands
    <2>7. Alone'
      BY <1>2, <1>3, <1>4, <2>1, <2>5, <2>6 DEF Serving, Alone
    <2> QED
      BY <1>2, <1>3, <2>5, <2>7 DEF Serving, AllListed, SetUpByReloads
  <1> QED
    BY <1>5, <1>6 DEF Disconnect

\* The next service is opened when those opened before are live.
LEMMA OpenServing ==
    ASSUME TypeOK, KindsOfJobs, kind = "executor", NEW j \in 1..Len(jobs),
           NEW ms \in SUBSET UnitType, NEW todo \in SUBSET Tenant, Open(j, ms, todo),
           UNCHANGED <<kind, agentConfig>>
    PROVE  /\ KindsOfJobs' /\ jobs # <<>> /\ jobs' # <<>> /\ Len(jobs') = Len(jobs)
           /\ jobs'[j].pc # "failed"
           /\ \A i \in 1..(Len(jobs') - 1) : i # j => jobs'[i] = jobs[i]
           /\ Serves(ms, agentConfig, todo) /\ (\A u \in ms : u.state = "live") =>
                 Stands(jobs'[j], j, units', agentConfig)
  <1>1. CASE todo = {}
    <2> DEFINE job == Job("done", {})
    <2>1. jobs' = [jobs EXCEPT ![j] = job] /\ units' = ms
      BY <1>1 DEF Open
    <2>2. job \in JobType /\ job.pc = "done"
      BY JobTyped DEF Ended, Job
    <2> HIDE DEF job
    <2>3. /\ KindsOfJobs'
          /\ jobs # <<>> /\ jobs' # <<>> /\ Len(jobs') = Len(jobs) /\ jobs'[j] = job
          /\ \A i \in 1..(Len(jobs') - 1) : i # j => jobs'[i] = jobs[i]
      BY <2>1, <2>2, SameJobs
    <2> QED
      BY <1>1, <2>1, <2>2, <2>3 DEF Stands
  <1>2. CASE todo # {}
    <2>1. PICK t \in todo :
            /\ units' = {u \in ms : u.tenant # t}
                        \cup {Unlisted(u) : u \in {v \in ms : v.tenant = t}}
                        \cup {Unit(t, j, "connecting")}
            /\ jobs' = [jobs EXCEPT ![j] = Job("connecting", todo \ {t})]
      BY <1>2 DEF Open
    <2> DEFINE job == Job("connecting", todo \ {t})
               w == Unit(t, j, "connecting")
    <2>2. job \in JobType /\ job.pc = "connecting" /\ job.todo = todo \ {t}
      <3>1. todo \ {t} \in SUBSET Tenant
        OBVIOUS
      <3> QED
        BY <3>1, JobTyped DEF Job
    <2>3. w.tenant = t /\ w.job = j /\ w.state = "connecting" /\ w.listed
      BY DEF Unit
    <2>4. jobs' = [jobs EXCEPT ![j] = job]
      BY <2>1
    <2> HIDE DEF job, w
    <2>5. /\ KindsOfJobs'
          /\ jobs # <<>> /\ jobs' # <<>> /\ Len(jobs') = Len(jobs) /\ jobs'[j] = job
          /\ \A i \in 1..(Len(jobs') - 1) : i # j => jobs'[i] = jobs[i]
      BY <2>2, <2>4, SameJobs
    <2>6. ASSUME Serves(ms, agentConfig, todo), \A u \in ms : u.state = "live"
          PROVE  Stands(job, j, units', agentConfig)
      <3>1. \A u \in ms : u.tenant # t
        BY <2>6 DEF Serves
      <3>2. units' = ms \cup {w}
        BY <2>1, <3>1 DEF w
      <3>3. OnePerTenant(units')
        BY <2>3, <2>6, <3>1, <3>2 DEF Serves, OnePerTenant
      <3>4. Serves(units', agentConfig, job.todo)
        BY <2>2, <2>3, <2>6, <3>2, <3>3 DEF Serves
      <3>5. w \in units' /\ \A u \in units' \ {w} : u.state = "live"
        BY <2>6, <3>2
      <3> QED
        BY <2>2, <2>3, <3>4, <3>5 DEF Stands
    <2> QED
      BY <2>2, <2>5, <2>6
  <1> QED
    BY <1>1, <1>2

LEMMA SetupServicesServing ==
    ASSUME TypeOK, Serving, NEW j \in 1..Len(jobs), SetupServices(j)
    PROVE  Serving'
  <1> DEFINE ms == {Unlisted(u) : u \in {v \in units : v.state # "dead"}}
  <1>1. /\ kind \in Kind /\ units \subseteq UnitType
        /\ Wanted(agentConfig) \in SUBSET Tenant
    BY TypeParts, WantedType DEF MainType, ServiceType
  <1>2. kind = "executor" /\ jobs[j].pc = "disconnecting"
    BY <1>1 DEF SetupServices, Serving, KindsOfJobs, Kind, Ended
  <1>3. Open(j, ms, Wanted(agentConfig)) /\ UNCHANGED <<kind, boot, agentConfig, overlapped>>
    BY DEF SetupServices, serviceVars
  <1>4. ms \in SUBSET UnitType
    BY <1>1, UnlistedTyped
  <1>5. ASSUME ~ overlapped
        PROVE  j = Len(jobs) /\ ms = {}
    <2>1. j = Len(jobs) /\ Stands(jobs[j], j, units, agentConfig)
      BY <1>2, <1>5, LastGoesOn DEF Serving, Ended
    <2>2. \A u \in units : u.state = "dead"
      BY <1>2, <2>1 DEF Stands, SetupServices, AllVisited
    <2> QED
      BY <2>1, <2>2
  <1> HIDE DEF ms
  <1>6. /\ KindsOfJobs' /\ jobs # <<>> /\ jobs' # <<>> /\ Len(jobs') = Len(jobs)
        /\ jobs'[j].pc # "failed"
        /\ \A i \in 1..(Len(jobs') - 1) : i # j => jobs'[i] = jobs[i]
        /\ Serves(ms, agentConfig, Wanted(agentConfig)) /\ (\A u \in ms : u.state = "live") =>
              Stands(jobs'[j], j, units', agentConfig)
    BY <1>1, <1>2, <1>3, <1>4, OpenServing DEF Serving
  <1>7. ms = {} => Serves(ms, agentConfig, Wanted(agentConfig))
    BY DEF Serves, OnePerTenant
  <1>8. Alone'
    BY <1>2, <1>3, <1>5, <1>6, <1>7 DEF Serving, Alone
  <1> QED
    BY <1>2, <1>3, <1>6, <1>8 DEF Serving, AllListed, SetUpByReloads

LEMMA SubscribedServing ==
    ASSUME TypeOK, Serving, NEW j \in 1..Len(jobs), Subscribed(j)
    PROVE  Serving'
  <1>1. /\ jobs \in Seq(JobType) /\ jobs[j] \in JobType /\ kind \in Kind
        /\ units \subseteq UnitType
    BY TypeParts DEF MainType, ServiceType
  <1>2. kind = "executor" /\ jobs[j].pc = "connecting"
    BY <1>1 DEF Subscribed, Serving, KindsOfJobs, Kind, Ended
  <1>3. /\ UNCHANGED <<kind, agentConfig, overlapped>> /\ jobs # <<>>
        /\ boot' \in {boot, "registered"}
    BY <1>1 DEF Subscribed, EndOfStart
  <1>4. ASSUME ~ overlapped
        PROVE  j = Len(jobs) /\ Stands(jobs[j], j, units, agentConfig)
    BY <1>2, <1>4, LastGoesOn DEF Serving, Ended
  <1>5. ASSUME jobs' # <<>>
        PROVE  SetUpByReloads'
    <2>1. boot = "starting" \/ boot = "registered" \/ boot' = "registered"
      BY <1>3, TypeParts DEF Serving, SetUpByReloads, ServiceType
    <2> QED
      BY <1>3, <1>5, <2>1 DEF SetUpByReloads
  <1>6. ASSUME NEW w \in units, w.job = j, w.state = "connecting",
               Open(j, (units \ {w}) \cup {[w EXCEPT !.state = "live"]}, jobs[j].todo)
        PROVE  Serving'
    <2> DEFINE l == [w EXCEPT !.state = "live"]
               ms == (units \ {w}) \cup {l}
    <2>1. /\ l \in UnitType /\ l.tenant = w.tenant /\ l.state = "live"
          /\ l.listed = w.listed
      BY <1>1, StateTyped
    <2>2. Open(j, ms, jobs[j].todo)
      BY <1>6
    <2> HIDE DEF l
    <2>3. ms \in SUBSET UnitType /\ jobs[j].todo \in SUBSET Tenant
      BY <1>1, <2>1 DEF JobType
    <2>4. ASSUME ~ overlapped
          PROVE  Serves(ms, agentConfig, jobs[j].todo) /\ \A u \in ms : u.state = "live"
      <3>1. Serves(units, agentConfig, jobs[j].todo)
        BY <1>2, <1>4, <2>4 DEF Stands
      <3>2. \A u \in units \ {w} : u.state = "live"
        BY <1>2, <1>4, <1>6, <2>4 DEF Stands
      <3>3. OnePerTenant(ms)
        BY <2>1, <3>1 DEF Serves, OnePerTenant
      <3>4. \A u \in ms : u.listed /\ u.tenant \in Wanted(agentConfig) \ jobs[j].todo
        BY <2>1, <3>1 DEF Serves
      <3>5. \A t \in Wanted(agentConfig) \ jobs[j].todo : \E u \in ms : u.tenant = t
        BY <2>1, <3>1 DEF Serves
      <3> QED
        BY <2>1, <3>1, <3>2, <3>3, <3>4, <3>5 DEF Serves
    <2> HIDE DEF ms
    <2>5. /\ KindsOfJobs' /\ jobs # <<>> /\ jobs' # <<>> /\ Len(jobs') = Len(jobs)
          /\ jobs'[j].pc # "failed"
          /\ \A i \in 1..(Len(jobs') - 1) : i # j => jobs'[i] = jobs[i]
          /\ Serves(ms, agentConfig, jobs[j].todo) /\ (\A u \in ms : u.state = "live") =>
                Stands(jobs'[j], j, units', agentConfig)
      BY <1>2, <1>3, <2>2, <2>3, OpenServing DEF Serving
    <2>6. Alone'
      BY <1>2, <1>3, <1>4, <2>4, <2>5 DEF Serving, Alone
    <2> QED
      BY <1>2, <1>3, <1>5, <2>5, <2>6 DEF Serving, AllListed
  <1>7. CASE /\ \A u \in units : u.job = j => u.state # "connecting"
             /\ Fail(j)
             /\ UNCHANGED units
    <2> DEFINE job == Job("failed", {})
    <2>1. job \in JobType /\ job.pc = "failed" /\ jobs' = [jobs EXCEPT ![j] = job]
      BY <1>7, JobTyped DEF Ended, Job, Fail
    <2> HIDE DEF job
    <2>2. KindsOfJobs' /\ jobs' # <<>>
      BY <1>2, <1>3, <2>1, SameJobs DEF Serving, Ended
    <2>3. overlapped
      BY <1>2, <1>4, <1>7 DEF Stands
    <2> QED
      BY <1>2, <1>3, <1>5, <2>2, <2>3 DEF Serving, Alone, AllListed
  <1> QED
    BY <1>6, <1>7 DEF Subscribed

LEMMA StartServing ==
    ASSUME TypeOK, Serving, Start
    PROVE  Serving'
  <1>1. /\ boot = "connecting" /\ jobs = <<>> /\ units = {} /\ Len(jobs) = 0
        /\ UNCHANGED <<kind, agentConfig, overlapped>>
        /\ agentConfig \in Config /\ Wanted(agentConfig) \in SUBSET Tenant
    BY TypeParts, WantedType DEF Start, Serving, SetUpByReloads, ServiceType
  <1>2. ~ Busy
    BY <1>1 DEF Busy
  <1>3. CASE kind = "gatherer" /\ boot' = "registered" /\ ReloadAtOnce(agentConfig)
    BY <1>1, <1>2, <1>3, ReloadServing DEF Serving, Reload, SetUpByReloads
  <1>4. CASE /\ kind = "executor" /\ Wanted(agentConfig) = {}
             /\ boot' = "registered"
             /\ jobs' = Append(jobs, Job("done", {}))
             /\ UNCHANGED units
    <2> DEFINE job == Job("done", {})
    <2>1. job \in JobType /\ job.pc = "done"
      BY JobTyped DEF Ended, Job
    <2>2. jobs' = Append(jobs, job)
      BY <1>4
    <2> HIDE DEF job
    <2>3. /\ KindsOfJobs'
          /\ jobs' # <<>> /\ Len(jobs') = 1 /\ jobs'[Len(jobs')] = job
      BY <1>1, <1>4, <2>1, <2>2, NewJob DEF Serving
    <2>4. Stands(job, Len(jobs'), units', agentConfig)
      BY <1>1, <1>4, <2>1 DEF Stands, Serves, OnePerTenant
    <2> QED
      BY <1>1, <1>4, <2>1, <2>3, <2>4 DEF Serving, AllListed, Alone, SetUpByReloads
  <1>5. ASSUME kind = "executor", boot' = "starting",
               NEW t \in Wanted(agentConfig),
               jobs' = Append(jobs, Job("connecting", Wanted(agentConfig) \ {t})),
               units' = {Unit(t, 1, "connecting")}
        PROVE  Serving'
    <2> DEFINE job == Job("connecting", Wanted(agentConfig) \ {t})
               w == Unit(t, 1, "connecting")
    <2>1. /\ job \in JobType /\ job.pc = "connecting"
          /\ job.todo = Wanted(agentConfig) \ {t}
      <3>1. Wanted(agentConfig) \ {t} \in SUBSET Tenant
        BY <1>1
      <3> QED
        BY <3>1, JobTyped DEF Job
    <2>2. jobs' = Append(jobs, job) /\ units' = {w} /\ kind = "executor"
      BY <1>5
    <2>3. w.tenant = t /\ w.job = 1 /\ w.state = "connecting" /\ w.listed
      BY DEF Unit
    <2> HIDE DEF job, w
    <2>4. /\ KindsOfJobs'
          /\ jobs' # <<>> /\ Len(jobs') = 1 /\ jobs'[Len(jobs')] = job
      <3>1. KindsOfJobs /\ UNCHANGED kind
        BY <1>1 DEF Serving
      <3>2. /\ KindsOfJobs'
            /\ jobs' # <<>> /\ Len(jobs') = Len(jobs) + 1 /\ jobs'[Len(jobs')] = job
        BY <2>1, <2>2, <3>1, NewJob
      <3> QED
        BY <1>1, <3>2
    <2>5. Serves(units', agentConfig, job.todo)
      BY <2>1, <2>2, <2>3 DEF Serves, OnePerTenant
    <2>6. Stands(job, Len(jobs'), units', agentConfig)
      BY <2>1, <2>2, <2>3, <2>4, <2>5 DEF Stands
    <2> QED
      BY <1>1, <1>5, <2>1, <2>4, <2>6 DEF Serving, AllListed, Alone, SetUpByReloads
  <1> QED
    BY <1>3, <1>4, <1>5 DEF Start

LEMMA SubscribeServing ==
    ASSUME TypeOK, Serving, Subscribe
    PROVE  Serving'
  <1>1. /\ boot = "subscribing" /\ jobs = <<>> /\ units = {}
        /\ UNCHANGED <<kind, overlapped>>
        /\ agentConfig' = localInstance /\ localInstance \in Config
    BY TypeParts DEF Subscribe, Serving, SetUpByReloads, ServiceType
  <1>2. ~ Busy
    BY <1>1 DEF Busy
  <1>3. CASE kind = "dbsync" /\ boot' = "registered" /\ ReloadDbsync(localInstance)
    BY <1>1, <1>2, <1>3, ReloadServing DEF Serving, Reload, SetUpByReloads
  <1>4. CASE boot' = "connecting" /\ UNCHANGED <<jobs, units>>
    BY <1>1, <1>4 DEF Serving, KindsOfJobs, AllListed, SetUpByReloads, Alone
  <1> QED
    BY <1>3, <1>4 DEF Subscribe

LEMMA HandleReplyServing ==
    ASSUME TypeOK, Serving, HandleReply
    PROVE  Serving'
  <1>1. PICK i \in NextReply :
            /\ \/ /\ Registered
                  /\ agentConfig' = replies[i]
                  /\ Reload(replies[i])
                  /\ overlapped' = IF kind = "executor" THEN overlapped \/ Busy ELSE Busy
               \/ UNCHANGED <<mainVars, overlapped>>
            /\ UNCHANGED <<kind, boot>>
    BY DEF HandleReply
  <1>2. CASE UNCHANGED <<mainVars, overlapped>>
    BY <1>1, <1>2
    DEF Serving, KindsOfJobs, AllListed, SetUpByReloads, Alone, mainVars
  <1>3. CASE /\ Registered
             /\ agentConfig' = replies[i]
             /\ Reload(replies[i])
             /\ overlapped' = IF kind = "executor" THEN overlapped \/ Busy ELSE Busy
    <2>1. replies[i] \in Config
      <3>1. replies \in Seq(Config) /\ i = 1 /\ replies # <<>>
        BY TypeParts DEF ServiceType, NextReply
      <3> QED
        BY <3>1
    <2>2. jobs # <<>>
      BY <1>3 DEF Serving, SetUpByReloads, Registered
    <2>3. ~ overlapped' => ~ Busy /\ (kind = "executor" => ~ overlapped)
      BY <1>3
    <2>4. KindsOfJobs' /\ AllListed' /\ Alone' /\ jobs' # <<>>
      BY <1>1, <1>3, <2>1, <2>2, <2>3, ReloadServing DEF Serving
    <2> QED
      BY <1>1, <1>3, <2>4 DEF Serving, SetUpByReloads, Registered
  <1> QED
    BY <1>1, <1>2, <1>3

LEMMA ServingStep == TypeOK /\ Serving /\ [Next]_vars => Serving'
  <1> SUFFICES ASSUME TypeOK, Serving, [Next]_vars
               PROVE  Serving'
    OBVIOUS
  <1> USE DEF Serving, KindsOfJobs, AllListed, SetUpByReloads, Alone
  <1>1. ASSUME NEW s \in Settings, Write(s)
        PROVE  Serving'
    BY <1>1 DEF Write, mainVars
  <1>2. CASE Read \/ FindNone \/ SetDefault
    BY <1>2 DEF Read, FindNone, SetDefault, mainVars
  <1>3. CASE HandleNotice
    BY <1>3 DEF HandleNotice, mainVars
  <1>4. CASE Restart
    <2>1. jobs' = <<>> /\ units' = {} /\ boot' = "reading" /\ Len(jobs') = 0
      BY <1>4 DEF Restart
    <2> QED
      BY <2>1
  <1>5. CASE ReloadStep
    BY <1>5, PreparedServing, DisconnectServing, SetupServicesServing, SubscribedServing,
       RejectSchemaServing DEF ReloadStep
  <1>6. CASE UNCHANGED vars
    BY <1>6 DEF vars, mainVars, serviceVars
  <1> QED
    BY <1>1, <1>2, <1>3, <1>4, <1>5, <1>6, SubscribeServing, StartServing, HandleReplyServing
    DEF Next, ServiceStep

\* When reloads that did not overlap have ended, every tenant of the configuration has
\* one running worker or service and nobody else has any.
THEOREM SettledIsRight == Spec => []SettledRunsItsConfiguration
  <1> QED
    BY TypeInit, TypeStep, ServingInit, ServingStep, SettledFromServing, PTL DEF Spec

\* Whatever was set up stays where the next reload finds it, but for overlapping
\* reloads of the executor.
THEOREM NothingIsLost == Spec => []NothingEscapes
  <1> QED
    BY TypeInit, TypeStep, ServingInit, ServingStep, SettledFromServing, PTL DEF Spec
===============================================================================
