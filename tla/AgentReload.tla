----------------------------- MODULE AgentReload -----------------------------
(***************************************************************************)
(* How an agent gets its configuration and follows its changes at run      *)
(* time: ConfigurationService, which reads the key, subscribes to its      *)
(* notifications and reads it again after each, and the main program of    *)
(* the agent, whose callback stops what runs and sets up anew.             *)
(*                                                                         *)
(* There are three kinds of main program.  The gatherer and magicbox stop  *)
(* and start their workers within the callback.  Dbsync stops its workers  *)
(* within it and starts them one by one, after awaiting the database.  The *)
(* executor awaits each disconnection and each new subscription.  Nothing  *)
(* keeps a second callback from running between the awaits of the first.   *)
(*                                                                         *)
(* What is set up for a tenant (a worker, or a trading service with its    *)
(* subscription) is a unit.  It is listed while the program's list of      *)
(* workers, or map of services, holds it.                                  *)
(***************************************************************************)
EXTENDS Naturals, Sequences, FiniteSets

CONSTANTS
    Settings,   \* configurations that may be stored: [started, tenants]
    MaxWrites,  \* bound: changes of the key
    MaxLost,    \* bound: notifications that do not arrive
    MaxStarts,  \* bound: restarts of the process
    MaxFailures \* bound: awaits that are rejected

ASSUME SettingsAssumption == \A s \in Settings : s.started \in BOOLEAN

VARIABLES
    kind,         \* the agent
    stored,       \* the key, NoConfig as long as it does not exist
    boot,         \* where the start of the process stands
    localInstance,\* ConfigurationService: the configuration it hands out
    notices,      \* notifications under way
    replies,      \* answers to GET under way
    agentConfig,  \* main program: the configuration of the last callback
    jobs,         \* main program: the reloads so far
    units,        \* what was set up
    missed,       \* history: the stored configuration will not be noticed
    overlapped,   \* history: a reload began before another had ended
    lost, starts, failures

serviceVars == <<boot, localInstance, notices, replies>>
mainVars    == <<agentConfig, jobs, units>>
boundVars   == <<lost, starts, failures>>
vars == <<kind, stored, serviceVars, mainVars, missed, overlapped, boundVars>>

Kind == {"gatherer", "dbsync", "executor"}
NoConfig == [n |-> 0, started |-> FALSE, tenants |-> {}]

Wanted(c) == IF c.started THEN c.tenants ELSE {}

Ended == {"done", "failed"}
Busy == \E j \in 1..Len(jobs) : jobs[j].pc \notin Ended
Subscriber == boot \notin {"reading", "defaulting", "subscribing"}
Registered == boot = "registered"

-----------------------------------------------------------------------------
(* Redis *)

\* The key is set; the subscriber is told, unless its connection is down or it has
\* not subscribed yet.  A change the first read will see, or the default overwrite, is
\* none that goes unnoticed.
Write(s) ==
    /\ stored.n <= MaxWrites
    /\ stored' = [n |-> stored.n + 1, started |-> s.started, tenants |-> s.tenants]
    /\ \/ /\ ~ Subscriber
          /\ missed' = (boot = "subscribing")
          /\ UNCHANGED <<notices, lost>>
       \/ /\ Subscriber
          /\ notices' = notices + 1
          /\ missed' = FALSE
          /\ UNCHANGED lost
       \/ /\ Subscriber
          /\ lost < MaxLost
          /\ lost' = lost + 1
          /\ missed' = TRUE
          /\ UNCHANGED notices
    /\ UNCHANGED <<kind, boot, localInstance, replies, mainVars, overlapped, starts, failures>>

-----------------------------------------------------------------------------
(* Reloads.  Each defines jobs', units' and whether the start is over. *)

Unit(t, j, state) == [tenant |-> t, job |-> j, state |-> state, listed |-> TRUE]
Unlisted(u) == [u EXCEPT !.listed = FALSE]

Job(pc, todo) == [pc |-> pc, todo |-> todo, visited |-> {}]

NextJob == Len(jobs) + 1

\* The start ends when the first set-up did: only then is the callback registered.
EndOfStart == boot' = IF boot = "starting" /\ jobs'[1].pc = "done" THEN "registered" ELSE boot

\* Gatherer, magicbox: terminate the workers and start those of the new one.
ReloadAtOnce(c) ==
    /\ units' = {u \in units : ~ u.listed} \cup {Unit(t, NextJob, "live") : t \in Wanted(c)}
    /\ jobs' = Append(jobs, Job("done", {}))

\* Variant: the workers that run are not terminated.
TerminatedNone == units
\* Dbsync: the workers of the list are terminated.
Terminated == {u \in units : ~ u.listed}

\* Dbsync: then the database is awaited.
ReloadDbsync(c) ==
    /\ units' = Terminated
    /\ jobs' = Append(jobs, Job(IF Wanted(c) = {} THEN "done" ELSE "preparing", Wanted(c)))

\* The schema of a tenant is there: its worker goes into the list of the program,
\* whichever reload made the list.
Prepared(j, t) ==
    /\ jobs[j].pc = "preparing" /\ t \in jobs[j].todo
    /\ units' = units \cup {Unit(t, j, "live")}
    /\ jobs' = [jobs EXCEPT ![j] = Job(IF jobs[j].todo = {t} THEN "done" ELSE "preparing",
                                       jobs[j].todo \ {t})]
    /\ UNCHANGED <<kind, stored, serviceVars, agentConfig, missed, overlapped, boundVars>>

\* Executor: a new service takes the place of its tenant in the map, in ms of units,
\* and begins to connect.
Open(j, ms, todo) ==
    IF todo = {}
    THEN /\ units' = ms
         /\ jobs' = [jobs EXCEPT ![j] = Job("done", {})]
    ELSE \E t \in todo :
         /\ units' = {u \in ms : u.tenant # t} \cup {Unlisted(u) : u \in {v \in ms : v.tenant = t}}
                     \cup {Unit(t, j, "connecting")}
         /\ jobs' = [jobs EXCEPT ![j] = Job("connecting", todo \ {t})]

\* Executor: the callback goes through the map.
ReloadExecutor ==
    /\ jobs' = Append(jobs, Job("disconnecting", {}))
    /\ UNCHANGED units

Fail(j) == jobs' = [jobs EXCEPT ![j] = Job("failed", {})]

\* Variant: a service is known by its tenant.
IdentityByTenant(u) == u.tenant
\* A service is an object of its own.
Identity(u) == <<u.tenant, u.job>>

\* The next service of the map is disconnected.  One that has no connection may
\* reject that, which ends the reload.
Disconnect(j, u) ==
    /\ jobs[j].pc = "disconnecting"
    /\ u \in units /\ u.listed /\ Identity(u) \notin jobs[j].visited
    /\ \/ /\ u.state = "dead" \/ u.state = "connecting"
          /\ Fail(j)
          /\ UNCHANGED units
       \/ /\ units' = (units \ {u}) \cup {[u EXCEPT !.state = "dead"]}
          /\ jobs' = [jobs EXCEPT ![j].visited = @ \cup {Identity(u)}]
    /\ UNCHANGED <<kind, stored, serviceVars, agentConfig, missed, overlapped, boundVars>>

\* Variant: the map is cleared of services that are still connected.
AllVisitedSkipped(j) == TRUE
AllVisited(j) == \A u \in units : u.listed => Identity(u) \in jobs[j].visited

\* Then the map is cleared and the services of the configuration of the latest
\* callback are set up, one after the other.
SetupServices(j) ==
    /\ jobs[j].pc = "disconnecting" /\ AllVisited(j)
    /\ Open(j, {Unlisted(u) : u \in {v \in units : v.state # "dead"}},
            Wanted(agentConfig))
    /\ UNCHANGED <<kind, stored, serviceVars, agentConfig, missed, overlapped, boundVars>>

\* The service is subscribed to the commands of its tenant; if it was disconnected
\* meanwhile, the subscription is rejected.
Subscribed(j) ==
    /\ jobs[j].pc = "connecting"
    /\ \/ \E u \in units :
            /\ u.job = j /\ u.state = "connecting"
            /\ Open(j, (units \ {u}) \cup {[u EXCEPT !.state = "live"]}, jobs[j].todo)
       \/ /\ \A u \in units : u.job = j => u.state # "connecting"
          /\ Fail(j)
          /\ UNCHANGED units
    /\ EndOfStart
    /\ UNCHANGED <<kind, stored, localInstance, notices, replies, agentConfig, missed, overlapped,
                   boundVars>>

\* The database rejects the schema.
RejectSchema(j) ==
    /\ jobs[j].pc = "preparing"
    /\ failures < MaxFailures
    /\ failures' = failures + 1
    /\ Fail(j)
    /\ UNCHANGED <<kind, stored, serviceVars, agentConfig, units, missed, overlapped, lost, starts>>

Reload(c) ==
    \/ kind = "gatherer" /\ ReloadAtOnce(c)
    \/ kind = "dbsync" /\ ReloadDbsync(c)
    \/ kind = "executor" /\ ReloadExecutor

-----------------------------------------------------------------------------
(* ConfigurationService and the start of the main program *)

\* getInstance: the key is read ...
Read ==
    /\ boot = "reading" /\ stored.n # 0
    /\ boot' = "subscribing"
    /\ localInstance' = stored
    /\ UNCHANGED <<kind, stored, notices, replies, mainVars, missed, overlapped, boundVars>>

\* ... or, when EXISTS says that it is not there, set to a default, which takes the
\* place of what someone else may have stored meanwhile.
FindNone ==
    /\ boot = "reading" /\ stored.n = 0
    /\ boot' = "defaulting"
    /\ UNCHANGED <<kind, stored, localInstance, notices, replies, mainVars, missed, overlapped,
                   boundVars>>

SetDefault ==
    /\ boot = "defaulting"
    /\ boot' = "subscribing"
    /\ stored' = [n |-> stored.n + 1, started |-> FALSE, tenants |-> {}]
    /\ localInstance' = stored'
    /\ UNCHANGED <<kind, notices, replies, mainVars, missed, overlapped, boundVars>>

\* Then it is subscribed to.  The main program takes the configuration and, but for
\* dbsync, awaits its own connection before it goes on.
Subscribe ==
    /\ boot = "subscribing"
    /\ agentConfig' = localInstance
    /\ \/ kind = "dbsync" /\ boot' = "registered" /\ ReloadDbsync(localInstance)
       \/ kind # "dbsync" /\ boot' = "connecting" /\ UNCHANGED <<jobs, units>>
    /\ UNCHANGED <<kind, stored, localInstance, notices, replies, missed, overlapped, boundVars>>

\* It sets up what it took, and registers its callback.
Start ==
    /\ boot = "connecting"
    /\ \/ kind = "gatherer" /\ boot' = "registered" /\ ReloadAtOnce(agentConfig)
       \/ /\ kind = "executor"
          /\ IF Wanted(agentConfig) = {}
             THEN /\ boot' = "registered"
                  /\ jobs' = Append(jobs, Job("done", {}))
                  /\ UNCHANGED units
             ELSE /\ boot' = "starting"
                  /\ \E t \in Wanted(agentConfig) :
                        /\ jobs' = Append(jobs, Job("connecting", Wanted(agentConfig) \ {t}))
                        /\ units' = {Unit(t, 1, "connecting")}
    /\ UNCHANGED <<kind, stored, localInstance, notices, replies, agentConfig, missed, overlapped,
                   boundVars>>

\* Variant: the callbacks do not wait for the answer.
AnswerNotAwaited == localInstance
\* The answer to GET.
Answer == stored

\* A notification arrives and the key is read again.
HandleNotice ==
    /\ notices > 0
    /\ notices' = notices - 1
    /\ replies' = Append(replies, Answer)
    /\ UNCHANGED <<kind, stored, boot, localInstance, mainVars, missed, overlapped, boundVars>>

\* Variant: the answers may overtake each other.
NextReplyAny == {i \in 1..Len(replies) : TRUE}
\* One connection answers in order.
NextReply == {i \in {1} : replies # <<>>}

\* Its answer: the configuration is exchanged and the callback invoked, if there is
\* one yet.
HandleReply ==
    \E i \in NextReply :
        /\ localInstance' = replies[i]
        /\ replies' = [k \in 1..(Len(replies) - 1) |-> IF k < i THEN replies[k] ELSE replies[k + 1]]
        /\ \/ /\ Registered
              /\ agentConfig' = replies[i]
              /\ Reload(replies[i])
              /\ overlapped' = IF kind = "executor" THEN overlapped \/ Busy ELSE Busy
              /\ UNCHANGED missed
           \/ /\ ~ Registered
              /\ missed' = (missed \/ replies[i] = stored)
              /\ UNCHANGED <<mainVars, overlapped>>
        /\ UNCHANGED <<kind, stored, boot, notices, boundVars>>

\* The process ends and is started again; so are its workers and connections.
Restart ==
    /\ starts < MaxStarts
    /\ starts' = starts + 1
    /\ boot' = "reading"
    /\ localInstance' = NoConfig
    /\ notices' = 0
    /\ replies' = <<>>
    /\ agentConfig' = NoConfig
    /\ jobs' = <<>>
    /\ units' = {}
    /\ missed' = FALSE
    /\ overlapped' = FALSE
    /\ UNCHANGED <<kind, stored, lost, failures>>

-----------------------------------------------------------------------------
Init ==
    /\ kind \in Kind
    /\ \/ stored = NoConfig
       \/ \E s \in Settings : stored = [n |-> 1, started |-> s.started, tenants |-> s.tenants]
    /\ boot = "reading"
    /\ localInstance = NoConfig
    /\ notices = 0
    /\ replies = <<>>
    /\ agentConfig = NoConfig
    /\ jobs = <<>>
    /\ units = {}
    /\ missed = FALSE
    /\ overlapped = FALSE
    /\ lost = 0 /\ starts = 0 /\ failures = 0

ReloadStep ==
    \E j \in 1..Len(jobs) :
        \/ \E t \in jobs[j].todo : Prepared(j, t)
        \/ \E u \in units : Disconnect(j, u)
        \/ SetupServices(j)
        \/ Subscribed(j)
        \/ RejectSchema(j)

ServiceStep == Read \/ FindNone \/ SetDefault \/ Subscribe \/ Start \/ HandleNotice \/ HandleReply

Next ==
    \/ \E s \in Settings : Write(s)
    \/ ServiceStep
    \/ ReloadStep
    \/ Restart

Spec == Init /\ [][Next]_vars

\* What is awaited comes, and the event loop goes on with whatever awaited it.
FairSpec == Spec /\ WF_vars(ServiceStep) /\ WF_vars(ReloadStep)

-----------------------------------------------------------------------------
(* Properties *)

Tenant == UNION {s.tenants : s \in Settings}
Config == [n : Nat, started : BOOLEAN, tenants : SUBSET Tenant]

TypeOK ==
    /\ kind \in Kind
    /\ stored \in Config /\ localInstance \in Config /\ agentConfig \in Config
    /\ boot \in {"reading", "defaulting", "subscribing", "connecting", "starting", "registered"}
    /\ notices \in Nat
    /\ replies \in Seq(Config)
    /\ jobs \in Seq([pc : {"preparing", "disconnecting", "connecting"} \cup Ended,
                     todo : SUBSET Tenant, visited : SUBSET (Tenant \X Nat)])
    /\ units \subseteq [tenant : Tenant, job : Nat, state : {"connecting", "live", "dead"},
                        listed : BOOLEAN]
    /\ missed \in BOOLEAN /\ overlapped \in BOOLEAN
    /\ lost \in Nat /\ starts \in Nat /\ failures \in Nat

\* One running unit per tenant of the configuration, and no other.
RunsExactly(c) ==
    /\ \A u \in units : u.state = "live" /\ u.tenant \in Wanted(c)
    /\ \A t \in Wanted(c) : Cardinality({u \in units : u.tenant = t}) = 1

\* When the reloads have ended, the agent runs the configuration of its last callback,
\* once: no tenant is left out, none is served twice, nothing goes on that should have
\* stopped.  Not so when the last reload of dbsync, or any of the executor's,
\* overlapped with another, or when one was rejected.
SettledRunsItsConfiguration ==
    jobs # <<>> /\ ~ Busy /\ ~ overlapped /\ jobs[Len(jobs)].pc = "done" => RunsExactly(agentConfig)

\* Everything that runs can be stopped by the next reload.  Dbsync keeps to that even
\* when its reloads overlap; the executor when they do not.
NothingEscapes ==
    kind # "executor" \/ ~ overlapped => \A u \in units : u.listed

\* README.md:32, an agent adjusts itself at run time: a change it hears of, however it
\* falls into the start or between reads, ends up as what it runs.
EventuallyAdjusted ==
    <>[](~ missed /\ ~ overlapped /\ failures = 0 =>
            agentConfig.n = stored.n /\ RunsExactly(stored))

\* ConfigurationService hands out a copy that never goes back.
Mirror == INSTANCE ConfigMirror WITH source <- stored.n, copy <- localInstance.n
IsMirror == Mirror!Spec
=============================================================================
