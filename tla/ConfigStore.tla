----------------------------- MODULE ConfigStore -----------------------------
(***************************************************************************)
(* The configuration documents in Redis and those who write them: the      *)
(* requests of the API server, which read a document, change it and write  *)
(* it back, and the pages of the web UI, which write from the copies they  *)
(* loaded earlier.  Each command of Redis is a step; nothing locks a key.  *)
(*                                                                         *)
(* A change of the gatherer's document is followed by one of a second      *)
(* document: the executor has a copy of the exchanges, dbsync a list of    *)
(* the streams the workplans give rise to.  The keys of magicbox and the   *)
(* API server are written like that of the executor when its status is     *)
(* set.  A change a document refuses (an exchange that is there already,   *)
(* or is not, a status it has already) ends a request after its first GET  *)
(* and is left out.                                                        *)
(***************************************************************************)
EXTENDS Naturals, FiniteSets, Sequences

CONSTANTS
    Exchange, Credential,   \* a tenant's exchange and what it is accessed with
    Plan,                   \* tenants and exchanges a workplan of the gatherer may be for
    Workplan,               \* what a workplan may ask for: sets of data points, {} for no workplan
    Pairs,                  \* number of asset pairs of a workplan
    Request,                \* requests of the API server, each made once
    Page,                   \* open pages of the web UI
    None,
    MaxChanges,             \* bound: changes asked for
    MaxFetches,             \* bound: loads of pages
    MaxDeaths               \* bound: writers that end between two commands

\* The data points.  watchOrders stands for all the other data points too: the
\* API server lists none of them for dbsync.
DataPoint == {"watchOrderBook", "watchBalance", "watchOrders"}

ASSUME NoneAssumption == None \notin Credential
ASSUME WorkplanAssumption == {} \in Workplan /\ Workplan \subseteq SUBSET DataPoint
ASSUME PairsAssumption == Pairs \in Nat \ {0}
ASSUME WriterAssumption == Request \cap Page = {}

VARIABLES
    config,     \* the documents, by key
    version,    \* how often each key was set
    request,    \* the requests: the await they stand at and their documents
    page,       \* the pages: the copies shown, a load and a save in progress
    alone,      \* history: the writers since whose first SET nobody else set a key
    lastSet,    \* history: the last SET
    fetches, changes, deaths

boundVars == <<fetches, changes, deaths>>
vars == <<config, version, request, page, alone, lastSet, boundVars>>

Key == {"gatherer", "executor", "dbsync"}
Status == {"started", "stopped"}

\* A stream: of a workplan, of a kind, for one of its pairs.  A balance has none, and is
\* kept as that of the first.
Stream == Plan \X (DataPoint \cup {"snapshot"}) \X (1..Pairs)

Doc == [agent : [id : Key, status : Status],
        exchanges : [Exchange -> Credential \cup {None}],
        workplans : [Plan -> Workplan],
        assets : [Stream -> Nat]]

\* What a request or a user asks for: the status of an agent, or an exchange or
\* workplan that is to be added, edited, or deleted (None, or no data points).
Change ==
    [key : Key, field : {"agent"}, item : {"status"}, to : Status]
    \cup [key : {"gatherer"}, field : {"exchanges"}, item : Exchange, to : Credential \cup {None}]
    \cup [key : {"gatherer"}, field : {"workplans"}, item : Plan, to : Workplan]

Changes(doc, c) == doc[c.field][c.item] # c.to
Changed(doc, c) == [doc EXCEPT ![c.field][c.item] = c.to]

\* The document that has to follow a change of this field.
Follower(field) == IF field = "exchanges" THEN "executor" ELSE "dbsync"

\* How often the API server lists a stream for dbsync: order books and their snapshots
\* for every pair, the balance once more with every pair, and nothing else ...
apiAssets(doc) ==
    [s \in Stream |->
        LET points == doc.workplans[s[1]]
        IN  CASE s[2] \in {"watchOrderBook", "snapshot"} /\ "watchOrderBook" \in points -> 1
              [] s[2] = "watchBalance" /\ s[3] = 1 /\ s[2] \in points -> Pairs
              [] OTHER -> 0]

\* ... and a page: every data point, for the first pair, without snapshots.
webAssets(doc) ==
    [s \in Stream |-> IF s[2] \in doc.workplans[s[1]] /\ s[3] = 1 THEN 1 ELSE 0]

Writer == Request \cup Page
Idle == [pc |-> "idle", change |-> None, docs |-> None, seen |-> None]

-----------------------------------------------------------------------------
(* SET *)

\* Writer w sets a key to a document made from version seen of it.
Set(w, k, doc, seen, c) ==
    /\ config' = [config EXCEPT ![k] = doc]
    /\ version' = [version EXCEPT ![k] = @ + 1]
    /\ lastSet' = [key |-> k, change |-> c, outdated |-> seen # version[k]]
    /\ alone' = IF k = c.key THEN {w} ELSE alone \cap {w}

-----------------------------------------------------------------------------
(* The API server *)

\* The GET of the document to change.
Load(r, c) ==
    /\ request[r] = Idle
    /\ changes < MaxChanges
    /\ changes' = changes + 1
    /\ Changes(config[c.key], c)
    /\ request' = [request EXCEPT ![r] =
            [pc |-> "save", change |-> c, docs |-> Changed(config[c.key], c),
             seen |-> version[c.key]]]
    /\ UNCHANGED <<config, version, page, alone, lastSet, fetches, deaths>>

\* The SET; a change of status ends here.
Save(r) ==
    LET q == request[r]
    IN  /\ q.pc = "save"
        /\ Set(r, q.change.key, q.docs, q.seen, q.change)
        /\ request' = [request EXCEPT ![r].pc = IF q.change.field = "agent" THEN "done" ELSE "follow"]
        /\ UNCHANGED <<page, boundVars>>

\* Variant: dbsync gets a new document.
FollowerDocFresh(q) ==
    IF q.change.field = "exchanges" THEN q.docs
    ELSE [config["dbsync"] EXCEPT !.agent.status = "stopped", !.assets = apiAssets(q.docs)]

\* The second document, as it will be set: dbsync's own with the streams listed
\* anew; for the executor the gatherer's, in place of its own with the exchanges
\* put in.
FollowerDoc(q) ==
    IF q.change.field = "exchanges" THEN q.docs
    ELSE [config["dbsync"] EXCEPT !.assets = apiAssets(q.docs)]

\* The GET of the second document ...
LoadFollower(r) ==
    LET q == request[r]
    IN  /\ q.pc = "follow"
        /\ request' = [request EXCEPT ![r] =
                [q EXCEPT !.pc = "saveFollower", !.docs = FollowerDoc(q),
                          !.seen = version[Follower(q.change.field)]]]
        /\ UNCHANGED <<config, version, page, alone, lastSet, boundVars>>

\* ... and its SET.
SaveFollower(r) ==
    LET q == request[r]
    IN  /\ q.pc = "saveFollower"
        /\ Set(r, Follower(q.change.field), q.docs, q.seen, q.change)
        /\ request' = [request EXCEPT ![r].pc = "done"]
        /\ UNCHANGED <<page, boundVars>>

\* The API server stops, or Redis rejects the command.
Die(r) ==
    /\ deaths < MaxDeaths
    /\ deaths' = deaths + 1
    /\ request[r].pc \in {"save", "follow", "saveFollower"}
    /\ request' = [request EXCEPT ![r].pc = "failed"]
    /\ UNCHANGED <<config, version, page, alone, lastSet, fetches, changes>>

-----------------------------------------------------------------------------
(* The web UI *)

\* getServices reads one key after the other ...
FetchOrder == <<"gatherer", "executor", "dbsync">>

NoCopy == [docs |-> [k \in {} |-> None], seen |-> [k \in {} |-> None]]

With(f, k, x) == [j \in DOMAIN f \cup {k} |-> IF j = k THEN x ELSE f[j]]

\* Variant: before the last reply.
CompleteEarly(n) == n = 2
Complete(n) == n = Len(FetchOrder)

\* ... and then shows what it got, all at once.
Fetch(g) ==
    LET p == page[g]
        n == Cardinality(DOMAIN p.fetch.docs) + 1
        k == FetchOrder[n]
        f == [docs |-> With(p.fetch.docs, k, config[k]), seen |-> With(p.fetch.seen, k, version[k])]
    IN  /\ n = 1 => fetches < MaxFetches
        /\ fetches' = IF n = 1 THEN fetches + 1 ELSE fetches
        /\ page' = [page EXCEPT ![g] = IF Complete(n) THEN [p EXCEPT !.copy = f, !.fetch = NoCopy]
                                       ELSE [p EXCEPT !.fetch = f]]
        /\ UNCHANGED <<config, version, request, alone, lastSet, changes, deaths>>

\* The documents updateService will set: a change of the gatherer's brings the two
\* others in line.
Updated(docs, c) ==
    LET doc == Changed(docs[c.key], c)
    IN  IF c.key # "gatherer" THEN [docs EXCEPT ![c.key] = doc]
        ELSE [gatherer |-> doc,
              executor |-> [docs["executor"] EXCEPT !.exchanges = doc.exchanges],
              dbsync   |-> [docs["dbsync"] EXCEPT !.assets = webAssets(doc)]]

\* A user changes what the page shows and saves it: the copy is changed in place.
Click(g, c) ==
    LET docs == Updated(page[g].copy.docs, c)
    IN  /\ page[g].save.pc \in {"idle", "done"} /\ page[g].copy # NoCopy
        /\ changes < MaxChanges
        /\ changes' = changes + 1
        /\ Changes(page[g].copy.docs[c.key], c)
        /\ page' = [page EXCEPT ![g].copy.docs = docs,
                                ![g].save = [pc |-> c.key, change |-> c, docs |-> docs,
                                             seen |-> page[g].copy.seen]]
        /\ UNCHANGED <<config, version, request, alone, lastSet, fetches, deaths>>

\* Variant: dbsync is left alone.
AfterSetNoDbsync(k, c) ==
    IF c.key = "gatherer" /\ k = "gatherer" THEN "executor" ELSE "done"

\* The key updateService sets next.
AfterSet(k, c) ==
    IF c.key # "gatherer" \/ k = "dbsync" THEN "done"
    ELSE IF k = "gatherer" THEN "executor" ELSE "dbsync"

updateService(g) ==
    LET s == page[g].save
    IN  /\ s.pc \in Key
        /\ Set(g, s.pc, s.docs[s.pc], s.seen[s.pc], s.change)
        /\ page' = [page EXCEPT ![g].save.pc = AfterSet(s.pc, s.change)]
        /\ UNCHANGED <<request, boundVars>>

Blank == [copy |-> NoCopy, fetch |-> NoCopy, save |-> Idle]

\* The page is closed; another is opened.
Close(g) ==
    /\ deaths < MaxDeaths
    /\ deaths' = deaths + 1
    /\ page[g] # Blank
    /\ page' = [page EXCEPT ![g] = Blank]
    /\ UNCHANGED <<config, version, request, alone, lastSet, fetches, changes>>

-----------------------------------------------------------------------------
\* The documents after setting up: agents that are started, nothing else yet.
Init ==
    /\ config = [k \in Key |-> [agent |-> [id |-> k, status |-> "started"],
                                exchanges |-> [x \in Exchange |-> None],
                                workplans |-> [p \in Plan |-> {}],
                                assets |-> [s \in Stream |-> 0]]]
    /\ version = [k \in Key |-> 0]
    /\ request = [r \in Request |-> Idle]
    /\ page = [g \in Page |-> Blank]
    /\ alone = {}
    /\ lastSet = [key |-> None, change |-> None, outdated |-> FALSE]
    /\ fetches = 0 /\ changes = 0 /\ deaths = 0

Next ==
    \/ \E r \in Request :
          Save(r) \/ LoadFollower(r) \/ SaveFollower(r) \/ Die(r) \/ \E c \in Change : Load(r, c)
    \/ \E g \in Page :
          Fetch(g) \/ updateService(g) \/ Close(g) \/ \E c \in Change : Click(g, c)

Spec == Init /\ [][Next]_vars

-----------------------------------------------------------------------------
(* Properties *)

Copies(K) == [docs : [K -> Doc], seen : [K -> Nat]]

RequestState ==
    {Idle}
    \cup [pc : {"save", "follow", "saveFollower", "done", "failed"}, change : Change, docs : Doc, seen : Nat]

SaveState ==
    {Idle} \cup [pc : Key \cup {"done"}, change : Change, docs : [Key -> Doc], seen : [Key -> Nat]]

\* A copy is complete or absent, and a load reads the keys in their order.
TypeOK ==
    /\ config \in [Key -> Doc]
    /\ version \in [Key -> Nat]
    /\ request \in [Request -> RequestState]
    /\ \A g \in Page :
        /\ page[g].copy \in {NoCopy} \cup Copies(Key)
        /\ page[g].fetch \in {NoCopy} \cup Copies({"gatherer"}) \cup Copies({"gatherer", "executor"})
        /\ page[g].save \in SaveState
    /\ alone \subseteq Writer
    /\ lastSet.key \in Key \cup {None} /\ lastSet.outdated \in BOOLEAN
    /\ fetches \in Nat /\ changes \in Nat /\ deaths \in Nat

\* Who has saved everything, undisturbed since his first SET.
Undisturbed(w, s) == w \in alone /\ s.pc = "done" /\ s.change.key = "gatherer"

ExchangesAgree == config["executor"].exchanges = config["gatherer"].exchanges

\* The streams the gatherer writes for the workplans of its document.
Written(doc) ==
    {s \in Stream :
        CASE s[2] = "snapshot"     -> "watchOrderBook" \in doc.workplans[s[1]]
          [] s[2] = "watchBalance" -> s[2] \in doc.workplans[s[1]] /\ s[3] = 1
          [] OTHER                 -> s[2] \in doc.workplans[s[1]]}

\* Those each kind of writer knows how to list.
ApiKnown == {s \in Stream : s[2] # "watchOrders"}
PageKnown == {s \in Stream : s[2] # "snapshot" /\ s[3] = 1}

StreamsAgree(known) ==
    {s \in Stream : config["dbsync"].assets[s] > 0} = Written(config["gatherer"]) \cap known

\* The executor trades on the exchanges the gatherer listens to, and dbsync reads, of the
\* streams the saving side knows how to list, exactly those the gatherer writes, after every
\* save that nobody disturbed: whatever overlapping writers, outdated pages and half-done
\* saves left behind before.  The other streams dbsync does not read then, although the
\* gatherer writes them: neither side lists all.
LoneSaveAgrees ==
    /\ \A r \in Request : Undisturbed(r, request[r]) =>
          CASE request[r].change.field = "exchanges" -> ExchangesAgree
            [] request[r].change.field = "workplans" -> StreamsAgree(ApiKnown)
            [] OTHER -> TRUE
    /\ \A g \in Page : Undisturbed(g, page[g].save) => ExchangesAgree /\ StreamsAgree(PageKnown)

\* An agent is started or stopped because someone asked for it, or by a writer whose
\* copy was outdated; and the executor also by a request that changes exchanges,
\* which gives it the gatherer's status.
StatusFollowsRequests ==
    [][\A k \in Key :
         config'[k].agent.status # config[k].agent.status =>
            \/ lastSet'.change.field = "agent" /\ lastSet'.change.key = k
            \/ lastSet'.outdated
            \/ k = "executor" /\ lastSet'.change.field = "exchanges"]_vars
=============================================================================
