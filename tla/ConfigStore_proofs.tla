-------------------------- MODULE ConfigStore_proofs --------------------------
(***************************************************************************)
(* Proofs about ConfigStore for any exchanges, workplans, requests and     *)
(* pages, and any number of changes, loads and deaths.                     *)
(***************************************************************************)
EXTENDS ConfigStore, FiniteSetTheorems, TLAPS

-----------------------------------------------------------------------------
(* Type correctness *)

PageState ==
    [copy : {NoCopy} \cup Copies(Key),
     fetch : {NoCopy} \cup Copies({"gatherer"}) \cup Copies({"gatherer", "executor"}),
     save : SaveState]

StoreType == config \in [Key -> Doc] /\ version \in [Key -> Nat]
RequestType == request \in [Request -> RequestState]
PageType == page \in [Page -> PageState]
RestType ==
    /\ alone \subseteq Writer
    /\ lastSet.key \in Key \cup {None} /\ lastSet.outdated \in BOOLEAN
    /\ fetches \in Nat /\ changes \in Nat /\ deaths \in Nat

TypeInv == StoreType /\ RequestType /\ PageType /\ RestType

LEMMA TypeImplied == TypeInv => TypeOK
  BY DEF TypeInv, StoreType, RequestType, PageType, RestType, PageState, TypeOK

LEMMA ChangeType ==
    ASSUME NEW c \in Change
    PROVE  /\ c.key \in Key /\ c.field \in {"agent", "exchanges", "workplans"}
           /\ c.field # "agent" => c.key = "gatherer"
  BY DEF Change, Key

\* A change keeps the other fields of a document, the status among them.
LEMMA ChangedType ==
    ASSUME NEW doc \in Doc, NEW c \in Change
    PROVE  /\ Changed(doc, c) \in Doc
           /\ c.field # "agent" => Changed(doc, c).agent.status = doc.agent.status
  <1>1. CASE c.field = "agent"
    <2>1. c.item = "status" /\ c.to \in Status
      BY <1>1 DEF Change
    <2>2. Changed(doc, c) = [doc EXCEPT !.agent.status = c.to]
      BY <1>1, <2>1 DEF Changed
    <2> QED
      BY <1>1, <2>1, <2>2 DEF Doc
  <1>2. CASE c.field = "exchanges"
    <2>1. c.item \in Exchange /\ c.to \in Credential \cup {None}
      BY <1>2 DEF Change
    <2>2. Changed(doc, c) = [doc EXCEPT !.exchanges = [@ EXCEPT ![c.item] = c.to]]
      BY <1>2 DEF Changed
    <2> QED
      BY <1>2, <2>1, <2>2 DEF Doc
  <1>3. CASE c.field = "workplans"
    <2>1. c.item \in Plan /\ c.to \in Workplan
      BY <1>3 DEF Change
    <2>2. Changed(doc, c) = [doc EXCEPT !.workplans = [@ EXCEPT ![c.item] = c.to]]
      BY <1>3 DEF Changed
    <2> QED
      BY <1>3, <2>1, <2>2 DEF Doc
  <1> QED
    BY <1>1, <1>2, <1>3, ChangeType

LEMMA AssetsType ==
    ASSUME NEW doc \in Doc
    PROVE  apiAssets(doc) \in [Stream -> Nat] /\ webAssets(doc) \in [Stream -> Nat]
  BY PairsAssumption DEF apiAssets, webAssets

\* Redis keeps a document it is given.
LEMMA SetType ==
    ASSUME StoreType, RestType, NEW w \in Writer, NEW k \in Key, NEW doc \in Doc,
           NEW seen, NEW c, Set(w, k, doc, seen, c), UNCHANGED boundVars
    PROVE  StoreType' /\ RestType'
  <1>1. StoreType'
    BY DEF StoreType, Set
  <1>2. lastSet' = [key |-> k, change |-> c, outdated |-> seen # version[k]]
    BY DEF Set
  <1>3. lastSet'.key \in Key \cup {None} /\ lastSet'.outdated \in BOOLEAN
    BY <1>2
  <1>4. alone' \subseteq Writer
    BY DEF Set, RestType
  <1> QED
    BY <1>1, <1>3, <1>4 DEF RestType, boundVars

-----------------------------------------------------------------------------
LEMMA InitType == Init => TypeInv
  <1> SUFFICES ASSUME Init PROVE TypeInv
    OBVIOUS
  <1>1. \A k \in Key : config[k] \in Doc
    BY WorkplanAssumption DEF Init, Doc, Status, Key
  <1>2. StoreType
    BY <1>1 DEF Init, StoreType
  <1>3. RequestType
    BY DEF Init, RequestType, RequestState
  <1>4. Blank \in PageState
    BY DEF Blank, PageState, SaveState
  <1>5. PageType
    BY <1>4 DEF Init, PageType
  <1>6. RestType
    BY DEF Init, RestType
  <1> QED
    BY <1>2, <1>3, <1>5, <1>6 DEF TypeInv

\* The states of a request that has read a document.
LEMMA RequestRecord ==
    ASSUME RequestType, NEW r \in Request, request[r].pc # "idle"
    PROVE  request[r] \in [pc : {"save", "follow", "saveFollower", "done", "failed"},
                           change : Change, docs : Doc, seen : Nat]
  BY DEF RequestType, RequestState, Idle

LEMMA RequestMoves ==
    ASSUME RequestType, NEW r \in Request, request[r].pc # "idle",
           NEW p \in {"save", "follow", "saveFollower", "done", "failed"},
           request' = [request EXCEPT ![r].pc = p]
    PROVE  RequestType'
  <1>1. [request[r] EXCEPT !.pc = p] \in RequestState
    BY RequestRecord DEF RequestState
  <1> QED
    BY <1>1 DEF RequestType

LEMMA LoadType ==
    ASSUME TypeInv, NEW r \in Request, NEW c \in Change, Load(r, c)
    PROVE  TypeInv'
  <1>1. StoreType' /\ PageType' /\ RestType'
    BY DEF Load, TypeInv, StoreType, PageType, RestType
  <1>2. c.key \in Key /\ config[c.key] \in Doc /\ version[c.key] \in Nat
    BY ChangeType DEF TypeInv, StoreType
  <1>3. Changed(config[c.key], c) \in Doc
    BY <1>2, ChangedType
  <1>4. [pc |-> "save", change |-> c, docs |-> Changed(config[c.key], c),
         seen |-> version[c.key]] \in RequestState
    BY <1>2, <1>3 DEF RequestState
  <1>5. RequestType'
    BY <1>4 DEF Load, TypeInv, RequestType
  <1> QED
    BY <1>1, <1>5 DEF TypeInv

LEMMA SaveType ==
    ASSUME TypeInv, NEW r \in Request, Save(r)
    PROVE  TypeInv'
  <1>1. /\ request[r].pc # "idle" /\ request[r].docs \in Doc
        /\ request[r].change.key \in Key
    BY RequestRecord, ChangeType DEF Save, TypeInv
  <1>2. RequestType'
    BY <1>1, RequestMoves DEF Save, TypeInv
  <1>3. StoreType' /\ RestType'
    BY <1>1, SetType DEF Save, TypeInv, Writer
  <1> QED
    BY <1>2, <1>3 DEF TypeInv, PageType, Save

LEMMA FollowerDocType ==
    ASSUME TypeInv, NEW r \in Request, request[r].pc # "idle"
    PROVE  FollowerDoc(request[r]) \in Doc
  <1>1. request[r].docs \in Doc /\ config["dbsync"] \in Doc
    BY RequestRecord DEF TypeInv, StoreType, Key
  <1>2. apiAssets(request[r].docs) \in [Stream -> Nat]
    BY <1>1, AssetsType
  <1>3. [config["dbsync"] EXCEPT !.assets = apiAssets(request[r].docs)] \in Doc
    BY <1>1, <1>2 DEF Doc
  <1> QED
    BY <1>1, <1>3 DEF FollowerDoc

LEMMA LoadFollowerType ==
    ASSUME TypeInv, NEW r \in Request, LoadFollower(r)
    PROVE  TypeInv'
  <1>1. StoreType' /\ PageType' /\ RestType'
    BY DEF LoadFollower, TypeInv, StoreType, PageType, RestType, boundVars
  <1> DEFINE k == Follower(request[r].change.field)
  <1>2. request[r].pc # "idle" /\ k \in Key
    BY DEF LoadFollower, Follower, Key
  <1>3. version[k] \in Nat
    BY <1>2 DEF TypeInv, StoreType
  <1>4. FollowerDoc(request[r]) \in Doc
    BY <1>2, FollowerDocType
  <1>5. [request[r] EXCEPT !.pc = "saveFollower", !.docs = FollowerDoc(request[r]),
                           !.seen = version[k]] \in RequestState
    <2> HIDE DEF k
    <2> QED BY <1>2, <1>3, <1>4, RequestRecord DEF RequestState, TypeInv
  <1>6. RequestType'
    BY <1>5 DEF LoadFollower, TypeInv, RequestType
  <1> QED
    BY <1>1, <1>6 DEF TypeInv

LEMMA SaveFollowerType ==
    ASSUME TypeInv, NEW r \in Request, SaveFollower(r)
    PROVE  TypeInv'
  <1>1. request[r].pc # "idle" /\ request[r].docs \in Doc
    BY RequestRecord DEF SaveFollower, TypeInv
  <1>2. Follower(request[r].change.field) \in Key
    BY DEF Follower, Key
  <1>3. RequestType'
    BY <1>1, RequestMoves DEF SaveFollower, TypeInv
  <1>4. StoreType' /\ RestType'
    BY <1>1, <1>2, SetType DEF SaveFollower, TypeInv, Writer
  <1> QED
    BY <1>3, <1>4 DEF TypeInv, PageType, SaveFollower

LEMMA DieType ==
    ASSUME TypeInv, NEW r \in Request, Die(r)
    PROVE  TypeInv'
  <1>1. request[r].pc # "idle"
    BY DEF Die
  <1>2. RequestType'
    BY <1>1, RequestMoves DEF Die, TypeInv
  <1>3. StoreType' /\ PageType' /\ RestType'
    BY DEF Die, TypeInv, StoreType, PageType, RestType
  <1> QED
    BY <1>2, <1>3 DEF TypeInv

-----------------------------------------------------------------------------
LEMMA PageRecord ==
    ASSUME PageType, NEW g \in Page
    PROVE  /\ page[g] \in PageState
           /\ page[g].copy \in {NoCopy} \cup Copies(Key)
           /\ page[g].fetch \in {NoCopy} \cup Copies({"gatherer"}) \cup Copies({"gatherer", "executor"})
           /\ page[g].save \in SaveState
  BY DEF PageType, PageState

LEMMA CopyParts ==
    ASSUME NEW K, NEW x \in Copies(K)
    PROVE  x.docs \in [K -> Doc] /\ x.seen \in [K -> Nat]
  BY DEF Copies

LEMMA WithType ==
    ASSUME NEW S, NEW K, NEW k, NEW f \in [K -> S], NEW x \in S
    PROVE  With(f, k, x) \in [K \cup {k} -> S]
  BY DEF With

LEMMA NoCopyParts ==
    NoCopy.docs = [k \in {} |-> None] /\ NoCopy.seen = [k \in {} |-> None]
  BY DEF NoCopy

\* A load holds the documents of a beginning of FetchOrder, and reads the next.
LEMMA FetchStep ==
    ASSUME NEW f \in {NoCopy} \cup Copies({"gatherer"}) \cup Copies({"gatherer", "executor"})
    PROVE  \E n \in 1..3, K \in SUBSET Key :
              /\ Cardinality(DOMAIN f.docs) + 1 = n
              /\ f.docs \in [K -> Doc] /\ f.seen \in [K -> Nat]
              /\ FetchOrder[n] \in Key
              /\ K \cup {FetchOrder[n]} = CASE n = 1 -> {"gatherer"}
                                            [] n = 2 -> {"gatherer", "executor"}
                                            [] n = 3 -> Key
  <1>1. FetchOrder[1] = "gatherer" /\ FetchOrder[2] = "executor" /\ FetchOrder[3] = "dbsync"
    BY DEF FetchOrder
  <1>2. /\ Cardinality({}) = 0
        /\ Cardinality({"gatherer"}) = 1
        /\ Cardinality({"gatherer", "executor"}) = 2
    <2>1. Cardinality({}) = 0 /\ Cardinality({"gatherer"}) = 1
      BY FS_EmptySet, FS_Singleton
    <2>2. {"gatherer", "executor"} = {"gatherer"} \cup {"executor"}
      OBVIOUS
    <2>3. Cardinality({"gatherer"} \cup {"executor"}) = Cardinality({"gatherer"}) + 1
      BY FS_Singleton, FS_AddElement
    <2> QED
      BY <2>1, <2>2, <2>3
  <1>3. CASE f = NoCopy
    <2>1. f.docs = [k \in {} |-> None] /\ f.seen = [k \in {} |-> None]
      BY <1>3, NoCopyParts
    <2>2. f.docs \in [{} -> Doc] /\ f.seen \in [{} -> Nat] /\ DOMAIN f.docs = {}
      BY <2>1
    <2>3. Cardinality(DOMAIN f.docs) + 1 = 1
      BY <2>2, <1>2
    <2>4. FetchOrder[1] \in Key /\ {} \cup {FetchOrder[1]} = {"gatherer"}
      BY <1>1 DEF Key
    <2>5. 1 \in 1..3 /\ {} \in SUBSET Key
      OBVIOUS
    <2> WITNESS 1 \in 1..3, {} \in SUBSET Key
    <2> QED
      BY <2>2, <2>3, <2>4
  <1>4. CASE f \in Copies({"gatherer"})
    <2>1. f.docs \in [{"gatherer"} -> Doc] /\ f.seen \in [{"gatherer"} -> Nat]
      BY <1>4, CopyParts
    <2>2. DOMAIN f.docs = {"gatherer"}
      BY <2>1
    <2> QED
      BY <2>1, <2>2, <1>1, <1>2 DEF Key
  <1>5. CASE f \in Copies({"gatherer", "executor"})
    <2>1. f.docs \in [{"gatherer", "executor"} -> Doc] /\ f.seen \in [{"gatherer", "executor"} -> Nat]
      BY <1>5, CopyParts
    <2>2. DOMAIN f.docs = {"gatherer", "executor"}
      BY <2>1
    <2> QED
      BY <2>1, <2>2, <1>1, <1>2 DEF Key
  <1> QED
    BY <1>3, <1>4, <1>5

\* A load of page g that has also read key k.
Loaded(g, k) == [docs |-> With(page[g].fetch.docs, k, config[k]),
                 seen |-> With(page[g].fetch.seen, k, version[k])]

\* What Fetch does to a page: what it loaded is shown, or the load goes on.
Shows(g, K, k) ==
    /\ K \cup {k} = Key
    /\ page' = [page EXCEPT ![g] = [@ EXCEPT !.copy = Loaded(g, k), !.fetch = NoCopy]]

GoesOn(g, K, k) ==
    /\ K \cup {k} \in {{"gatherer"}, {"gatherer", "executor"}}
    /\ page' = [page EXCEPT ![g] = [@ EXCEPT !.fetch = Loaded(g, k)]]

LEMMA FetchResult ==
    ASSUME StoreType, PageType, NEW g \in Page, Fetch(g)
    PROVE  \E K \in SUBSET Key : \E k \in Key :
             /\ page[g].fetch.docs \in [K -> Doc] /\ page[g].fetch.seen \in [K -> Nat]
             /\ Loaded(g, k) \in Copies(K \cup {k})
             /\ Shows(g, K, k) \/ GoesOn(g, K, k)
  <1> DEFINE q == page[g].fetch
             n == Cardinality(DOMAIN q.docs) + 1
             k == FetchOrder[n]
  <1>1. PICK K \in SUBSET Key :
              /\ n \in 1..3
              /\ q.docs \in [K -> Doc] /\ q.seen \in [K -> Nat]
              /\ k \in Key
              /\ K \cup {k} = CASE n = 1 -> {"gatherer"}
                                [] n = 2 -> {"gatherer", "executor"}
                                [] n = 3 -> Key
    BY PageRecord, FetchStep
  <1>2. config[k] \in Doc /\ version[k] \in Nat
    BY <1>1 DEF StoreType
  <1>3. Loaded(g, k) \in Copies(K \cup {k})
    <2>1. With(q.docs, k, config[k]) \in [K \cup {k} -> Doc]
      BY <1>1, <1>2, WithType
    <2>2. With(q.seen, k, version[k]) \in [K \cup {k} -> Nat]
      BY <1>1, <1>2, WithType
    <2> QED
      BY <2>1, <2>2 DEF Copies, Loaded
  <1>4. Complete(n) <=> n = 3
    BY DEF Complete, FetchOrder
  <1>5. page' = [page EXCEPT ![g] = IF Complete(n)
                    THEN [page[g] EXCEPT !.copy = Loaded(g, k), !.fetch = NoCopy]
                    ELSE [page[g] EXCEPT !.fetch = Loaded(g, k)]]
    BY DEF Fetch, Loaded
  <1> HIDE DEF k, n
  <1>6. CASE n = 3
    <2>1. K \cup {k} = Key
      BY <1>1, <1>6
    <2>2. page' = [page EXCEPT ![g] = [@ EXCEPT !.copy = Loaded(g, k), !.fetch = NoCopy]]
      BY <1>4, <1>5, <1>6
    <2> QED
      BY <2>1, <2>2, <1>1, <1>3 DEF Shows
  <1>7. CASE n \in {1, 2}
    <2>1. K \cup {k} \in {{"gatherer"}, {"gatherer", "executor"}}
      BY <1>1, <1>7
    <2>2. ~ Complete(n)
      BY <1>4, <1>7
    <2>3. page' = [page EXCEPT ![g] = [@ EXCEPT !.fetch = Loaded(g, k)]]
      BY <1>5, <2>2
    <2> QED
      BY <2>1, <2>3, <1>1, <1>3 DEF GoesOn
  <1>8. n = 3 \/ n \in {1, 2}
    BY <1>1
  <1> QED
    BY <1>6, <1>7, <1>8

LEMMA FetchType ==
    ASSUME TypeInv, NEW g \in Page, Fetch(g)
    PROVE  TypeInv'
  <1>1. StoreType' /\ RequestType'
    BY DEF Fetch, TypeInv, StoreType, RequestType
  <1>2. RestType'
    BY DEF Fetch, TypeInv, RestType
  <1>3. PICK K \in SUBSET Key, k \in Key :
             /\ Loaded(g, k) \in Copies(K \cup {k})
             /\ Shows(g, K, k) \/ GoesOn(g, K, k)
    BY FetchResult DEF TypeInv
  <1>4. page[g] \in PageState
    BY PageRecord DEF TypeInv
  <1>5. ASSUME Shows(g, K, k) PROVE PageType'
    <2>1. [page[g] EXCEPT !.copy = Loaded(g, k), !.fetch = NoCopy] \in PageState
      BY <1>3, <1>4, <1>5 DEF Shows, PageState
    <2> QED
      BY <2>1, <1>5 DEF Shows, TypeInv, PageType
  <1>6. ASSUME GoesOn(g, K, k) PROVE PageType'
    <2>1. Loaded(g, k) \in Copies({"gatherer"}) \cup Copies({"gatherer", "executor"})
      BY <1>3, <1>6 DEF GoesOn
    <2>2. [page[g] EXCEPT !.fetch = Loaded(g, k)] \in PageState
      BY <2>1, <1>4 DEF PageState
    <2> QED
      BY <2>2, <1>6 DEF GoesOn, TypeInv, PageType
  <1>7. PageType'
    BY <1>3, <1>5, <1>6
  <1> QED
    BY <1>1, <1>2, <1>7 DEF TypeInv

-----------------------------------------------------------------------------
\* The documents of a save have their types, and the status they had in the copy
\* but for the one that is changed.
LEMMA UpdatedType ==
    ASSUME NEW docs \in [Key -> Doc], NEW c \in Change
    PROVE  /\ Updated(docs, c) \in [Key -> Doc]
           /\ \A k \in Key : ~ (c.field = "agent" /\ c.key = k) =>
                Updated(docs, c)[k].agent.status = docs[k].agent.status
  <1>1. /\ c.key \in Key
        /\ Changed(docs[c.key], c) \in Doc
        /\ c.field # "agent" => Changed(docs[c.key], c).agent.status = docs[c.key].agent.status
    BY ChangeType, ChangedType
  <1> DEFINE doc == Changed(docs[c.key], c)
  <1>2. doc \in Doc /\ (c.field # "agent" => doc.agent.status = docs[c.key].agent.status)
    BY <1>1
  <1>3. webAssets(doc) \in [Stream -> Nat]
    BY <1>2, AssetsType
  <1>4. docs["executor"] \in Doc /\ docs["dbsync"] \in Doc /\ docs["gatherer"] \in Doc
    BY DEF Key
  <1>5. CASE c.key # "gatherer"
    <2>1. Updated(docs, c) = [docs EXCEPT ![c.key] = doc]
      BY <1>5 DEF Updated
    <2> HIDE DEF doc
    <2> QED
      BY <1>1, <1>2, <1>5, <2>1, ChangeType
  <1>6. CASE c.key = "gatherer"
    <2> DEFINE e == [docs["executor"] EXCEPT !.exchanges = doc.exchanges]
               d == [docs["dbsync"] EXCEPT !.assets = webAssets(doc)]
    <2>1. Updated(docs, c) = [gatherer |-> doc, executor |-> e, dbsync |-> d]
      BY <1>6 DEF Updated
    <2>2. e \in Doc /\ e.agent = docs["executor"].agent
      <3> HIDE DEF doc
      <3> QED BY <1>2, <1>4 DEF Doc
    <2>3. d \in Doc /\ d.agent = docs["dbsync"].agent
      <3> HIDE DEF doc
      <3> QED BY <1>3, <1>4 DEF Doc
    <2> HIDE DEF doc, e, d
    <2>4. Updated(docs, c) \in [Key -> Doc]
      BY <1>2, <2>1, <2>2, <2>3 DEF Key
    <2>5. /\ Updated(docs, c)["gatherer"] = doc
          /\ Updated(docs, c)["executor"] = e
          /\ Updated(docs, c)["dbsync"] = d
      BY <2>1
    <2> QED
      BY <1>2, <1>6, <2>2, <2>3, <2>4, <2>5 DEF Key
  <1> QED
    BY <1>5, <1>6

\* What Click does to a page.
LEMMA ClickResult ==
    ASSUME TypeInv, NEW g \in Page, NEW c \in Change, Click(g, c)
    PROVE  LET p == page[g]
               docs == Updated(p.copy.docs, c)
           IN  /\ p \in PageState /\ p.copy \in Copies(Key)
               /\ p.copy.docs \in [Key -> Doc] /\ p.copy.seen \in [Key -> Nat]
               /\ docs \in [Key -> Doc]
               /\ p.save.pc \notin Key
               /\ page' = [page EXCEPT ![g] =
                     [p EXCEPT !.copy = [docs |-> docs, seen |-> p.copy.seen],
                               !.save = [pc |-> c.key, change |-> c, docs |-> docs,
                                         seen |-> p.copy.seen]]]
  <1> DEFINE p == page[g]
             docs == Updated(p.copy.docs, c)
  <1>1. p \in PageState /\ p.copy \in Copies(Key)
    BY PageRecord DEF Click, TypeInv
  <1>2. p.copy.docs \in [Key -> Doc] /\ p.copy.seen \in [Key -> Nat]
    BY <1>1, CopyParts
  <1>3. docs \in [Key -> Doc]
    BY <1>2, UpdatedType
  <1>4. p.save.pc \notin Key
    BY DEF Click, Key
  <1>5. [p.copy EXCEPT !.docs = docs] = [docs |-> docs, seen |-> p.copy.seen]
    <2> HIDE DEF docs
    <2> QED BY <1>1 DEF Copies
  <1>6. page' = [page EXCEPT ![g].copy.docs = docs,
                             ![g].save = [pc |-> c.key, change |-> c, docs |-> docs,
                                          seen |-> p.copy.seen]]
    BY DEF Click
  <1>7. page' = [page EXCEPT ![g] =
                     [p EXCEPT !.copy = [p.copy EXCEPT !.docs = docs],
                               !.save = [pc |-> c.key, change |-> c, docs |-> docs,
                                         seen |-> p.copy.seen]]]
    <2> HIDE DEF docs
    <2> QED BY <1>6, <1>1 DEF TypeInv, PageType, PageState
  <1>8. page' = [page EXCEPT ![g] =
                     [p EXCEPT !.copy = [docs |-> docs, seen |-> p.copy.seen],
                               !.save = [pc |-> c.key, change |-> c, docs |-> docs,
                                         seen |-> p.copy.seen]]]
    BY <1>7, <1>5
  <1> QED
    BY <1>1, <1>2, <1>3, <1>4, <1>8

LEMMA ClickType ==
    ASSUME TypeInv, NEW g \in Page, NEW c \in Change, Click(g, c)
    PROVE  TypeInv'
  <1>1. StoreType' /\ RequestType' /\ RestType'
    BY DEF Click, TypeInv, StoreType, RequestType, RestType
  <1> DEFINE p == page[g]
             docs == Updated(p.copy.docs, c)
             copy == [docs |-> docs, seen |-> p.copy.seen]
             save == [pc |-> c.key, change |-> c, docs |-> docs, seen |-> p.copy.seen]
  <1>2. /\ p \in PageState /\ p.copy.seen \in [Key -> Nat] /\ docs \in [Key -> Doc]
        /\ page' = [page EXCEPT ![g] = [p EXCEPT !.copy = copy, !.save = save]]
    BY ClickResult
  <1>3. copy \in Copies(Key)
    BY <1>2 DEF Copies
  <1>4. save \in SaveState
    BY <1>2, ChangeType DEF SaveState
  <1>5. [p EXCEPT !.copy = copy, !.save = save] \in PageState
    <2> HIDE DEF copy, save
    <2> QED BY <1>2, <1>3, <1>4 DEF PageState
  <1>6. PageType'
    <2> HIDE DEF copy, save
    <2> QED BY <1>2, <1>5 DEF TypeInv, PageType
  <1> QED
    BY <1>1, <1>6 DEF TypeInv

\* A save that goes on, and what is set next.
LEMMA SaveRecord ==
    ASSUME PageType, NEW g \in Page, page[g].save.pc \in Key
    PROVE  /\ page[g].save \in [pc : Key \cup {"done"}, change : Change, docs : [Key -> Doc],
                                seen : [Key -> Nat]]
           /\ AfterSet(page[g].save.pc, page[g].save.change) \in Key \cup {"done"}
           /\ page[g].save.docs[page[g].save.pc] \in Doc
           /\ page[g].save.change.key \in Key
  <1>1. page[g].save # Idle
    BY DEF Idle, Key
  <1>2. page[g].save \in [pc : Key \cup {"done"}, change : Change, docs : [Key -> Doc],
                          seen : [Key -> Nat]]
    BY <1>1, PageRecord DEF SaveState
  <1>3. AfterSet(page[g].save.pc, page[g].save.change) \in Key \cup {"done"}
    BY DEF AfterSet, Key
  <1> QED
    BY <1>2, <1>3, ChangeType

LEMMA UpdateResult ==
    ASSUME PageType, NEW g \in Page, updateService(g)
    PROVE  page' = [page EXCEPT ![g] = [@ EXCEPT !.save = [page[g].save EXCEPT
                        !.pc = AfterSet(page[g].save.pc, page[g].save.change)]]]
  <1>1. page' = [page EXCEPT ![g].save.pc = AfterSet(page[g].save.pc, page[g].save.change)]
    BY DEF updateService
  <1> QED
    BY <1>1

LEMMA UpdateType ==
    ASSUME TypeInv, NEW g \in Page, updateService(g)
    PROVE  TypeInv'
  <1> DEFINE s == page[g].save
  <1>1. s.pc \in Key
    BY DEF updateService
  <1>2. /\ s \in [pc : Key \cup {"done"}, change : Change, docs : [Key -> Doc], seen : [Key -> Nat]]
        /\ AfterSet(s.pc, s.change) \in Key \cup {"done"}
        /\ s.docs[s.pc] \in Doc
    BY <1>1, SaveRecord DEF TypeInv
  <1>3. StoreType' /\ RestType'
    BY <1>1, <1>2, SetType DEF updateService, TypeInv, Writer
  <1>4. [s EXCEPT !.pc = AfterSet(s.pc, s.change)] \in SaveState
    BY <1>2 DEF SaveState
  <1>5. [page[g] EXCEPT !.save = [s EXCEPT !.pc = AfterSet(s.pc, s.change)]] \in PageState
    BY <1>4, PageRecord DEF PageState, TypeInv
  <1>6. PageType'
    BY <1>5, UpdateResult DEF TypeInv, PageType
  <1> QED
    BY <1>3, <1>6 DEF TypeInv, RequestType, updateService

LEMMA CloseType ==
    ASSUME TypeInv, NEW g \in Page, Close(g)
    PROVE  TypeInv'
  <1>1. Blank \in PageState
    BY DEF Blank, PageState, SaveState
  <1>2. PageType'
    BY <1>1 DEF Close, TypeInv, PageType
  <1> QED
    BY <1>2 DEF Close, TypeInv, StoreType, RequestType, RestType

LEMMA StutterType ==
    ASSUME TypeInv, UNCHANGED vars
    PROVE  TypeInv'
  BY DEF vars, boundVars, TypeInv, StoreType, RequestType, PageType, RestType

LEMMA StepType == TypeInv /\ [Next]_vars => TypeInv'
  <1> SUFFICES ASSUME TypeInv, [Next]_vars PROVE TypeInv'
    OBVIOUS
  <1>1. CASE \E r \in Request :
               Save(r) \/ LoadFollower(r) \/ SaveFollower(r) \/ Die(r) \/ \E c \in Change : Load(r, c)
    BY <1>1, LoadType, SaveType, LoadFollowerType, SaveFollowerType, DieType
  <1>2. CASE \E g \in Page :
               Fetch(g) \/ updateService(g) \/ Close(g) \/ \E c \in Change : Click(g, c)
    BY <1>2, FetchType, UpdateType, CloseType, ClickType
  <1>3. CASE UNCHANGED vars
    BY <1>3, StutterType
  <1> QED
    BY <1>1, <1>2, <1>3 DEF Next

LEMMA TypesKept == Spec => []TypeInv
  BY InitType, StepType, PTL DEF Spec

(* Types: for any exchanges, workplans, requests and pages, the documents in Redis and
   every copy of them are documents, and a load reads the keys in their order. *)
THEOREM TypeCorrect == Spec => []TypeOK
  BY TypesKept, TypeImplied, PTL

-----------------------------------------------------------------------------
(* The status of an agent *)

\* A document made from version seen of key k has the status that is stored, as long
\* as nobody set the key since.
Agrees(k, doc, seen) ==
    /\ seen <= version[k]
    /\ seen = version[k] => doc.agent.status = config[k].agent.status

ByRequest(c, k) == c.field = "agent" /\ c.key = k

\* What a request is about to set, unless it was asked for the status, or gives the
\* executor the document of the gatherer.
RequestAgrees(q) ==
    /\ q.pc = "save" /\ q.change.field # "agent" => Agrees(q.change.key, q.docs, q.seen)
    /\ q.pc = "saveFollower" /\ q.change.field # "exchanges" => Agrees("dbsync", q.docs, q.seen)

LoadAgrees(f) == \A k \in DOMAIN f.docs : Agrees(k, f.docs[k], f.seen[k])

\* What is shown, but for a status that was changed in it and not yet saved.
ShownAgrees(p) ==
    \A k \in DOMAIN p.copy.docs :
        /\ p.copy.seen[k] <= version[k]
        /\ (p.save.pc = k /\ ByRequest(p.save.change, k)) \/ Agrees(k, p.copy.docs[k], p.copy.seen[k])

SaveAgrees(s) ==
    s.pc \in Key => \A k \in Key : ByRequest(s.change, k) \/ Agrees(k, s.docs[k], s.seen[k])

PageAgrees(p) == LoadAgrees(p.fetch) /\ ShownAgrees(p) /\ SaveAgrees(p.save)

CopiesAgree ==
    /\ \A r \in Request : RequestAgrees(request[r])
    /\ \A g \in Page : PageAgrees(page[g])

\* What a step may do to the status of an agent.
StatusStep ==
    \A k \in Key :
         config'[k].agent.status # config[k].agent.status =>
            \/ lastSet'.change.field = "agent" /\ lastSet'.change.key = k
            \/ lastSet'.outdated
            \/ k = "executor" /\ lastSet'.change.field = "exchanges"

LEMMA InitAgrees == Init => CopiesAgree
  <1> SUFFICES ASSUME Init PROVE CopiesAgree
    OBVIOUS
  <1>1. \A r \in Request : RequestAgrees(request[r])
    BY DEF Init, RequestAgrees, Idle
  <1>2. DOMAIN NoCopy.docs = {}
    BY NoCopyParts
  <1>3. PageAgrees(Blank)
    BY <1>2 DEF PageAgrees, Blank, LoadAgrees, ShownAgrees, SaveAgrees, Idle, Key
  <1> QED
    BY <1>1, <1>3 DEF Init, CopiesAgree

\* A SET outdates what was made from earlier versions of its key, and leaves alone
\* what was made from other keys.
LEMMA SetKeeps ==
    ASSUME StoreType, NEW w, NEW k \in Key, NEW doc \in Doc, NEW seen, NEW c,
           Set(w, k, doc, seen, c)
    PROVE  \A j \in Key : \A s \in Nat : \A d :
              /\ s <= version[j] => s <= version'[j]
              /\ Agrees(j, d, s) => Agrees(j, d, s)'
              /\ j = k /\ s <= version[j] => Agrees(j, d, s)'
  <1> SUFFICES ASSUME NEW j \in Key, NEW s \in Nat, NEW d
               PROVE  /\ s <= version[j] => s <= version'[j]
                      /\ Agrees(j, d, s) => Agrees(j, d, s)'
                      /\ j = k /\ s <= version[j] => Agrees(j, d, s)'
    OBVIOUS
  <1>1. version[j] \in Nat
    BY DEF StoreType
  <1>2. CASE j = k
    <2>1. version'[j] = version[j] + 1
      BY <1>2 DEF Set, StoreType
    <2> QED
      BY <1>1, <1>2, <2>1 DEF Agrees
  <1>3. CASE j # k
    <2>1. version'[j] = version[j] /\ config'[j] = config[j]
      BY <1>3 DEF Set, StoreType
    <2> QED
      BY <1>1, <1>3, <2>1 DEF Agrees
  <1> QED
    BY <1>2, <1>3

\* The status changes only when it was asked for, or the document is outdated.
LEMMA SetStatus ==
    ASSUME StoreType, NEW w, NEW k \in Key, NEW doc \in Doc, NEW seen, NEW c,
           Set(w, k, doc, seen, c),
           \/ ByRequest(c, k)
           \/ k = "executor" /\ c.field = "exchanges"
           \/ Agrees(k, doc, seen)
    PROVE  StatusStep
  <1>1. lastSet' = [key |-> k, change |-> c, outdated |-> seen # version[k]]
    BY DEF Set
  <1>2. lastSet'.change = c /\ lastSet'.outdated = (seen # version[k])
    BY <1>1
  <1>3. ASSUME NEW j \in Key, j # k PROVE config'[j] = config[j]
    BY <1>3 DEF Set, StoreType
  <1>4. config'[k] = doc
    BY DEF Set, StoreType
  <1> QED
    BY <1>2, <1>3, <1>4 DEF StatusStep, ByRequest, Agrees

\* What requests and pages hold agrees after a SET, but for the request or the page
\* that moved on.
LEMMA RequestKept ==
    ASSUME TypeInv, NEW w, NEW k \in Key, NEW doc \in Doc, NEW seen, NEW c,
           Set(w, k, doc, seen, c), NEW r \in Request, RequestAgrees(request[r]),
           request'[r] = request[r]
    PROVE  RequestAgrees(request[r])'
  <1>1. CASE request[r].pc = "idle"
    BY <1>1 DEF RequestAgrees
  <1>2. CASE request[r].pc # "idle"
    <2>1. /\ request[r].change.key \in Key /\ request[r].seen \in Nat /\ "dbsync" \in Key
      BY <1>2, RequestRecord, ChangeType DEF TypeInv, Key
    <2> QED
      BY <2>1, SetKeeps DEF RequestAgrees, TypeInv
  <1> QED
    BY <1>1, <1>2

LEMMA PageKeys ==
    ASSUME PageType, NEW g \in Page
    PROVE  /\ \A k \in DOMAIN page[g].copy.docs : k \in Key /\ page[g].copy.seen[k] \in Nat
           /\ \A k \in DOMAIN page[g].fetch.docs : k \in Key /\ page[g].fetch.seen[k] \in Nat
           /\ page[g].save.pc \in Key => \A k \in Key : page[g].save.seen[k] \in Nat
  <1>1. DOMAIN NoCopy.docs = {}
    BY NoCopyParts
  <1>2. \A K : \A x \in Copies(K) : DOMAIN x.docs = K /\ \A k \in K : x.seen[k] \in Nat
    BY CopyParts
  <1>3. Key \subseteq Key /\ {"gatherer"} \subseteq Key /\ {"gatherer", "executor"} \subseteq Key
    BY DEF Key
  <1>4. \A k \in DOMAIN page[g].copy.docs : k \in Key /\ page[g].copy.seen[k] \in Nat
    BY <1>1, <1>2, <1>3, PageRecord
  <1>5. \A k \in DOMAIN page[g].fetch.docs : k \in Key /\ page[g].fetch.seen[k] \in Nat
    BY <1>1, <1>2, <1>3, PageRecord
  <1>6. page[g].save.pc \in Key => \A k \in Key : page[g].save.seen[k] \in Nat
    BY SaveRecord
  <1> QED
    BY <1>4, <1>5, <1>6

LEMMA PageKept ==
    ASSUME TypeInv, NEW w, NEW k \in Key, NEW doc \in Doc, NEW seen, NEW c,
           Set(w, k, doc, seen, c), NEW g \in Page, PageAgrees(page[g]),
           page'[g] = page[g]
    PROVE  PageAgrees(page[g])'
  <1>1. LoadAgrees(page[g].fetch)'
    BY PageKeys, SetKeeps DEF PageAgrees, LoadAgrees, TypeInv
  <1>2. ShownAgrees(page[g])'
    BY PageKeys, SetKeeps DEF PageAgrees, ShownAgrees, TypeInv
  <1>3. SaveAgrees(page[g].save)'
    BY PageKeys, SetKeeps DEF PageAgrees, SaveAgrees, TypeInv
  <1> QED
    BY <1>1, <1>2, <1>3 DEF PageAgrees

\* Where no key is set, what was held and is still held agrees.
LEMMA QuietStatus ==
    ASSUME UNCHANGED <<config, version>>
    PROVE  StatusStep
  BY DEF StatusStep

LEMMA QuietRequest ==
    ASSUME UNCHANGED <<config, version>>, NEW r \in Request, RequestAgrees(request[r]),
           request'[r] = request[r]
    PROVE  RequestAgrees(request[r])'
  BY DEF RequestAgrees, Agrees

LEMMA QuietPage ==
    ASSUME UNCHANGED <<config, version>>, NEW g \in Page, PageAgrees(page[g]),
           page'[g] = page[g]
    PROVE  PageAgrees(page[g])'
  BY DEF PageAgrees, LoadAgrees, ShownAgrees, SaveAgrees, Agrees

-----------------------------------------------------------------------------
LEMMA LoadSteps ==
    ASSUME TypeInv, CopiesAgree, NEW r \in Request, NEW c \in Change, Load(r, c)
    PROVE  CopiesAgree' /\ StatusStep
  <1>1. UNCHANGED <<config, version, page>>
    BY DEF Load
  <1>2. c.key \in Key /\ config[c.key] \in Doc /\ version[c.key] \in Nat
    BY ChangeType DEF TypeInv, StoreType
  <1>3. c.field # "agent" => Changed(config[c.key], c).agent.status = config[c.key].agent.status
    BY <1>2, ChangedType
  <1>4. request'[r] = [pc |-> "save", change |-> c, docs |-> Changed(config[c.key], c),
                       seen |-> version[c.key]]
    BY DEF Load, TypeInv, RequestType
  <1>5. RequestAgrees(request[r])'
    <2>1. /\ request'[r].pc = "save" /\ request'[r].change = c
          /\ request'[r].docs = Changed(config[c.key], c) /\ request'[r].seen = version[c.key]
      BY <1>4
    <2> QED
      BY <2>1, <1>1, <1>2, <1>3 DEF RequestAgrees, Agrees
  <1>6. ASSUME NEW q \in Request PROVE RequestAgrees(request[q])'
    <2>1. CASE q # r
      <3>1. request'[q] = request[q]
        BY <2>1 DEF Load, TypeInv, RequestType
      <3> QED
        BY <3>1, <1>1, QuietRequest DEF CopiesAgree
    <2> QED
      BY <2>1, <1>5
  <1>7. ASSUME NEW g \in Page PROVE PageAgrees(page[g])'
    BY <1>1, QuietPage DEF CopiesAgree
  <1> QED
    BY <1>1, <1>6, <1>7, QuietStatus DEF CopiesAgree

LEMMA SaveSteps ==
    ASSUME TypeInv, CopiesAgree, NEW r \in Request, Save(r)
    PROVE  CopiesAgree' /\ StatusStep
  <1> DEFINE q == request[r]
  <1>1. /\ q.pc # "idle" /\ q.docs \in Doc /\ q.change \in Change /\ q.change.key \in Key
    BY RequestRecord, ChangeType DEF Save, TypeInv
  <1>2. Set(r, q.change.key, q.docs, q.seen, q.change)
    BY DEF Save
  <1>3. ByRequest(q.change, q.change.key) \/ Agrees(q.change.key, q.docs, q.seen)
    BY DEF Save, CopiesAgree, RequestAgrees, ByRequest
  <1>4. StatusStep
    BY <1>1, <1>2, <1>3, SetStatus DEF TypeInv
  <1>5. request' = [request EXCEPT ![r].pc = IF q.change.field = "agent" THEN "done" ELSE "follow"]
    BY DEF Save
  <1>6. request'[r].pc \in {"done", "follow"}
    BY <1>1, <1>5, RequestRecord DEF TypeInv, RequestType
  <1>7. ASSUME NEW o \in Request PROVE RequestAgrees(request[o])'
    <2>1. CASE o # r
      <3>1. request'[o] = request[o]
        BY <2>1, <1>5 DEF TypeInv, RequestType
      <3> QED
        BY <3>1, <1>1, <1>2, RequestKept DEF CopiesAgree
    <2>2. CASE o = r
      BY <2>2, <1>6 DEF RequestAgrees
    <2> QED
      BY <2>1, <2>2
  <1>8. ASSUME NEW g \in Page PROVE PageAgrees(page[g])'
    BY <1>1, <1>2, PageKept DEF CopiesAgree, Save
  <1> QED
    BY <1>4, <1>7, <1>8 DEF CopiesAgree

LEMMA LoadFollowerSteps ==
    ASSUME TypeInv, CopiesAgree, NEW r \in Request, LoadFollower(r)
    PROVE  CopiesAgree' /\ StatusStep
  <1> DEFINE q == request[r]
             k == Follower(q.change.field)
  <1>1. UNCHANGED <<config, version, page>>
    BY DEF LoadFollower
  <1>2. q.pc # "idle" /\ q.docs \in Doc /\ config["dbsync"] \in Doc /\ version["dbsync"] \in Nat
    BY RequestRecord DEF LoadFollower, TypeInv, StoreType, Key
  <1>3. request'[r] = [q EXCEPT !.pc = "saveFollower", !.docs = FollowerDoc(q), !.seen = version[k]]
    BY DEF LoadFollower, TypeInv, RequestType
  <1>4. /\ request'[r].pc = "saveFollower" /\ request'[r].change = q.change
        /\ request'[r].docs = FollowerDoc(q) /\ request'[r].seen = version[k]
    <2> HIDE DEF k
    <2> QED BY <1>2, <1>3, RequestRecord DEF TypeInv
  <1>5. ASSUME q.change.field # "exchanges"
        PROVE  k = "dbsync" /\ FollowerDoc(q).agent = config["dbsync"].agent
    BY <1>5, <1>2 DEF Follower, FollowerDoc, Doc
  <1>6. RequestAgrees(request[r])'
    <2> HIDE DEF k
    <2> QED BY <1>1, <1>2, <1>4, <1>5 DEF RequestAgrees, Agrees
  <1>7. ASSUME NEW o \in Request PROVE RequestAgrees(request[o])'
    <2>1. CASE o # r
      <3>1. request'[o] = request[o]
        BY <2>1 DEF LoadFollower, TypeInv, RequestType
      <3> QED
        BY <3>1, <1>1, QuietRequest DEF CopiesAgree
    <2> QED
      BY <2>1, <1>6
  <1>8. ASSUME NEW g \in Page PROVE PageAgrees(page[g])'
    BY <1>1, QuietPage DEF CopiesAgree
  <1> QED
    BY <1>1, <1>7, <1>8, QuietStatus DEF CopiesAgree

LEMMA SaveFollowerSteps ==
    ASSUME TypeInv, CopiesAgree, NEW r \in Request, SaveFollower(r)
    PROVE  CopiesAgree' /\ StatusStep
  <1> DEFINE q == request[r]
             k == Follower(q.change.field)
  <1>1. q.pc # "idle" /\ q.docs \in Doc /\ k \in Key
    BY RequestRecord DEF SaveFollower, TypeInv, Follower, Key
  <1>2. Set(r, k, q.docs, q.seen, q.change)
    BY DEF SaveFollower
  <1>3. \/ k = "executor" /\ q.change.field = "exchanges"
        \/ Agrees(k, q.docs, q.seen)
    BY DEF SaveFollower, CopiesAgree, RequestAgrees, Follower
  <1>4. StatusStep
    <2> HIDE DEF k
    <2> QED BY <1>1, <1>2, <1>3, SetStatus DEF TypeInv
  <1>5. request' = [request EXCEPT ![r].pc = "done"]
    BY DEF SaveFollower
  <1>6. request'[r].pc = "done"
    BY <1>1, <1>5, RequestRecord DEF TypeInv, RequestType
  <1>7. ASSUME NEW o \in Request PROVE RequestAgrees(request[o])'
    <2>1. CASE o # r
      <3>1. request'[o] = request[o]
        BY <2>1, <1>5 DEF TypeInv, RequestType
      <3> HIDE DEF k
      <3> QED
        BY <3>1, <1>1, <1>2, RequestKept DEF CopiesAgree
    <2>2. CASE o = r
      BY <2>2, <1>6 DEF RequestAgrees
    <2> QED
      BY <2>1, <2>2
  <1>8. ASSUME NEW g \in Page PROVE PageAgrees(page[g])'
    <2> HIDE DEF k
    <2> QED BY <1>1, <1>2, PageKept DEF CopiesAgree, SaveFollower
  <1> QED
    BY <1>4, <1>7, <1>8 DEF CopiesAgree

LEMMA DieSteps ==
    ASSUME TypeInv, CopiesAgree, NEW r \in Request, Die(r)
    PROVE  CopiesAgree' /\ StatusStep
  <1>1. UNCHANGED <<config, version, page>> /\ request[r].pc # "idle"
    BY DEF Die
  <1>2. request' = [request EXCEPT ![r].pc = "failed"]
    BY DEF Die
  <1>3. request'[r].pc = "failed"
    BY <1>1, <1>2, RequestRecord DEF TypeInv, RequestType
  <1>4. ASSUME NEW o \in Request PROVE RequestAgrees(request[o])'
    <2>1. CASE o # r
      <3>1. request'[o] = request[o]
        BY <2>1, <1>2 DEF TypeInv, RequestType
      <3> QED
        BY <3>1, <1>1, QuietRequest DEF CopiesAgree
    <2>2. CASE o = r
      BY <2>2, <1>3 DEF RequestAgrees
    <2> QED
      BY <2>1, <2>2
  <1>5. ASSUME NEW g \in Page PROVE PageAgrees(page[g])'
    BY <1>1, QuietPage DEF CopiesAgree
  <1> QED
    BY <1>1, <1>4, <1>5, QuietStatus DEF CopiesAgree

-----------------------------------------------------------------------------
LEMMA FetchSteps ==
    ASSUME TypeInv, CopiesAgree, NEW g \in Page, Fetch(g)
    PROVE  CopiesAgree' /\ StatusStep
  <1>1. UNCHANGED <<config, version, request>>
    BY DEF Fetch
  <1>2. PICK K \in SUBSET Key, k \in Key :
             /\ page[g].fetch.docs \in [K -> Doc] /\ page[g].fetch.seen \in [K -> Nat]
             /\ Loaded(g, k) \in Copies(K \cup {k})
             /\ Shows(g, K, k) \/ GoesOn(g, K, k)
    BY FetchResult DEF TypeInv
  <1>3. page[g] \in PageState /\ PageAgrees(page[g]) /\ version[k] \in Nat
    BY PageRecord DEF TypeInv, CopiesAgree, StoreType
  <1>4. DOMAIN Loaded(g, k).docs = K \cup {k}
    BY <1>2, CopyParts
  <1>5. ASSUME NEW j \in K \cup {k}
        PROVE  Agrees(j, Loaded(g, k).docs[j], Loaded(g, k).seen[j])
    <2>1. CASE j = k
      <3>1. Loaded(g, k).docs[j] = config[k] /\ Loaded(g, k).seen[j] = version[k]
        BY <1>2, <2>1 DEF Loaded, With
      <3> QED
        BY <3>1, <2>1, <1>3 DEF Agrees
    <2>2. CASE j # k
      <3>1. /\ Loaded(g, k).docs[j] = page[g].fetch.docs[j]
            /\ Loaded(g, k).seen[j] = page[g].fetch.seen[j]
        BY <1>2, <2>2 DEF Loaded, With
      <3>2. j \in DOMAIN page[g].fetch.docs
        BY <1>2, <2>2
      <3> QED
        BY <3>1, <3>2, <1>3 DEF PageAgrees, LoadAgrees
    <2> QED
      BY <2>1, <2>2
  <1>6. ASSUME Shows(g, K, k) PROVE PageAgrees(page[g])'
    <2>1. page'[g] = [page[g] EXCEPT !.copy = Loaded(g, k), !.fetch = NoCopy]
      BY <1>6 DEF Shows, TypeInv, PageType
    <2>2. page'[g].copy = Loaded(g, k) /\ page'[g].fetch = NoCopy /\ page'[g].save = page[g].save
      BY <2>1, <1>3 DEF PageState
    <2>3. LoadAgrees(page[g].fetch)'
      BY <2>2, NoCopyParts DEF LoadAgrees
    <2>4. ShownAgrees(page[g])'
      BY <1>1, <1>4, <1>5, <2>2 DEF ShownAgrees, Agrees
    <2>5. SaveAgrees(page[g].save)'
      BY <1>1, <1>3, <2>2 DEF PageAgrees, SaveAgrees, Agrees
    <2> QED
      BY <2>3, <2>4, <2>5 DEF PageAgrees
  <1>7. ASSUME GoesOn(g, K, k) PROVE PageAgrees(page[g])'
    <2>1. page'[g] = [page[g] EXCEPT !.fetch = Loaded(g, k)]
      BY <1>7 DEF GoesOn, TypeInv, PageType
    <2>2. page'[g].fetch = Loaded(g, k) /\ page'[g].copy = page[g].copy /\ page'[g].save = page[g].save
      BY <2>1, <1>3 DEF PageState
    <2>3. LoadAgrees(page[g].fetch)'
      BY <1>1, <1>4, <1>5, <2>2 DEF LoadAgrees, Agrees
    <2>4. ShownAgrees(page[g])'
      BY <1>1, <1>3, <2>2 DEF PageAgrees, ShownAgrees, Agrees
    <2>5. SaveAgrees(page[g].save)'
      BY <1>1, <1>3, <2>2 DEF PageAgrees, SaveAgrees, Agrees
    <2> QED
      BY <2>3, <2>4, <2>5 DEF PageAgrees
  <1>8. ASSUME NEW h \in Page PROVE PageAgrees(page[h])'
    <2>1. CASE h # g
      <3>1. page'[h] = page[h]
        BY <2>1, <1>2 DEF Shows, GoesOn, TypeInv, PageType
      <3> QED
        BY <3>1, <1>1, QuietPage DEF CopiesAgree
    <2> QED
      BY <2>1, <1>2, <1>6, <1>7
  <1>9. ASSUME NEW r \in Request PROVE RequestAgrees(request[r])'
    BY <1>1, QuietRequest DEF CopiesAgree
  <1> QED
    BY <1>1, <1>8, <1>9, QuietStatus DEF CopiesAgree

LEMMA ClickSteps ==
    ASSUME TypeInv, CopiesAgree, NEW g \in Page, NEW c \in Change, Click(g, c)
    PROVE  CopiesAgree' /\ StatusStep
  <1> DEFINE p == page[g]
             docs == Updated(p.copy.docs, c)
             copy == [docs |-> docs, seen |-> p.copy.seen]
             save == [pc |-> c.key, change |-> c, docs |-> docs, seen |-> p.copy.seen]
  <1>1. UNCHANGED <<config, version, request>>
    BY DEF Click
  <1>2. /\ p \in PageState /\ p.copy \in Copies(Key)
        /\ p.copy.docs \in [Key -> Doc] /\ p.copy.seen \in [Key -> Nat] /\ docs \in [Key -> Doc]
        /\ p.save.pc \notin Key
        /\ page' = [page EXCEPT ![g] = [p EXCEPT !.copy = copy, !.save = save]]
    BY ClickResult
  <1>3. PageAgrees(p) /\ c.key \in Key
    BY ChangeType DEF CopiesAgree
  <1>4. \A k \in Key : ~ ByRequest(c, k) => docs[k].agent.status = p.copy.docs[k].agent.status
    BY <1>2, UpdatedType DEF ByRequest
  <1>5. \A k \in Key : Agrees(k, p.copy.docs[k], p.copy.seen[k])
    BY <1>2, <1>3 DEF PageAgrees, ShownAgrees
  <1>6. page'[g].copy = copy /\ page'[g].fetch = p.fetch /\ page'[g].save = save
    <2>1. page'[g] = [p EXCEPT !.copy = copy, !.save = save]
      BY <1>2 DEF TypeInv, PageType
    <2> HIDE DEF copy, save
    <2> QED
      BY <2>1, <1>2 DEF PageState
  <1>7. ASSUME NEW k \in Key
        PROVE  /\ p.copy.seen[k] <= version[k]
               /\ ByRequest(c, k) \/ Agrees(k, docs[k], p.copy.seen[k])
    <2> HIDE DEF docs
    <2> QED BY <1>4, <1>5 DEF Agrees
  <1>8. PageAgrees(page[g])'
    <2>1. LoadAgrees(page[g].fetch)'
      BY <1>1, <1>3, <1>6 DEF PageAgrees, LoadAgrees, Agrees
    <2>2. ShownAgrees(page[g])'
      <3>1. /\ page'[g].copy.docs = docs /\ page'[g].copy.seen = p.copy.seen
            /\ page'[g].save.pc = c.key /\ page'[g].save.change = c
        BY <1>6
      <3> HIDE DEF docs
      <3>2. DOMAIN docs = Key
        BY <1>2
      <3> QED
        BY <1>1, <1>7, <3>1, <3>2 DEF ShownAgrees, Agrees, ByRequest
    <2>3. SaveAgrees(page[g].save)'
      <3>1. /\ page'[g].save.docs = docs /\ page'[g].save.seen = p.copy.seen
            /\ page'[g].save.change = c
        BY <1>6
      <3> HIDE DEF docs
      <3> QED
        BY <1>1, <1>7, <3>1 DEF SaveAgrees, Agrees
    <2> QED
      BY <2>1, <2>2, <2>3 DEF PageAgrees
  <1>9. ASSUME NEW h \in Page PROVE PageAgrees(page[h])'
    <2>1. CASE h # g
      <3>1. page'[h] = page[h]
        BY <2>1, <1>2 DEF TypeInv, PageType
      <3> QED
        BY <3>1, <1>1, QuietPage DEF CopiesAgree
    <2> QED
      BY <2>1, <1>8
  <1>10. ASSUME NEW r \in Request PROVE RequestAgrees(request[r])'
    BY <1>1, QuietRequest DEF CopiesAgree
  <1> QED
    BY <1>1, <1>9, <1>10, QuietStatus DEF CopiesAgree

LEMMA UpdateSteps ==
    ASSUME TypeInv, CopiesAgree, NEW g \in Page, updateService(g)
    PROVE  CopiesAgree' /\ StatusStep
  <1> DEFINE s == page[g].save
             k == s.pc
  <1>1. /\ k \in Key /\ s.docs[k] \in Doc /\ UNCHANGED request
        /\ Set(g, k, s.docs[k], s.seen[k], s.change)
    BY SaveRecord DEF updateService, TypeInv
  <1>2. PageAgrees(page[g]) /\ page[g] \in PageState
    BY PageRecord DEF CopiesAgree, TypeInv
  <1>3. ByRequest(s.change, k) \/ Agrees(k, s.docs[k], s.seen[k])
    BY <1>1, <1>2 DEF PageAgrees, SaveAgrees
  <1>4. StatusStep
    BY <1>1, <1>3, SetStatus DEF TypeInv
  <1>5. /\ page'[g].copy = page[g].copy /\ page'[g].fetch = page[g].fetch
        /\ page'[g].save.docs = s.docs /\ page'[g].save.seen = s.seen
        /\ page'[g].save.change = s.change
    <2>1. page'[g] = [page[g] EXCEPT !.save = [s EXCEPT !.pc = AfterSet(s.pc, s.change)]]
      BY UpdateResult DEF TypeInv, PageType
    <2>2. s \in [pc : Key \cup {"done"}, change : Change, docs : [Key -> Doc], seen : [Key -> Nat]]
      BY <1>1, SaveRecord DEF TypeInv
    <2> QED
      BY <2>1, <2>2, <1>2 DEF PageState
  <1>6. PageAgrees(page[g])'
    <2>1. LoadAgrees(page[g].fetch)'
      BY <1>1, <1>2, <1>5, PageKeys, SetKeeps DEF PageAgrees, LoadAgrees, TypeInv
    <2>2. ShownAgrees(page[g])'
      <3> SUFFICES ASSUME NEW j \in DOMAIN page[g].copy.docs
                   PROVE  /\ page[g].copy.seen[j] <= version'[j]
                          /\ Agrees(j, page[g].copy.docs[j], page[g].copy.seen[j])'
        BY <1>5 DEF ShownAgrees
      <3>1. j \in Key /\ page[g].copy.seen[j] \in Nat
        BY PageKeys DEF TypeInv
      <3>2. /\ page[g].copy.seen[j] <= version[j]
            /\ k = j \/ Agrees(j, page[g].copy.docs[j], page[g].copy.seen[j])
        BY <1>2 DEF PageAgrees, ShownAgrees
      <3>3. page[g].copy.seen[j] <= version'[j]
        BY <1>1, <3>1, <3>2, SetKeeps DEF TypeInv
      <3>4. page'[g].copy = page[g].copy
        BY <1>5
      <3> QED
        BY <1>1, <3>1, <3>2, <3>3, <3>4, SetKeeps DEF TypeInv
    <2>3. SaveAgrees(page[g].save)'
      BY <1>1, <1>2, <1>5, PageKeys, SetKeeps DEF PageAgrees, SaveAgrees, TypeInv
    <2> QED
      BY <2>1, <2>2, <2>3 DEF PageAgrees
  <1>7. ASSUME NEW h \in Page PROVE PageAgrees(page[h])'
    <2>1. CASE h # g
      <3>1. page'[h] = page[h]
        BY <2>1 DEF updateService, TypeInv, PageType
      <3> QED
        BY <3>1, <1>1, PageKept DEF CopiesAgree
    <2> QED
      BY <2>1, <1>6
  <1>8. ASSUME NEW r \in Request PROVE RequestAgrees(request[r])'
    BY <1>1, RequestKept DEF CopiesAgree
  <1> QED
    BY <1>4, <1>7, <1>8 DEF CopiesAgree

LEMMA CloseSteps ==
    ASSUME TypeInv, CopiesAgree, NEW g \in Page, Close(g)
    PROVE  CopiesAgree' /\ StatusStep
  <1>1. UNCHANGED <<config, version, request>>
    BY DEF Close
  <1>2. DOMAIN NoCopy.docs = {}
    BY NoCopyParts
  <1>3. page'[g] = Blank
    BY DEF Close, TypeInv, PageType
  <1>4. PageAgrees(page[g])'
    BY <1>2, <1>3 DEF PageAgrees, Blank, LoadAgrees, ShownAgrees, SaveAgrees, Idle, Key
  <1>5. ASSUME NEW h \in Page PROVE PageAgrees(page[h])'
    <2>1. CASE h # g
      <3>1. page'[h] = page[h]
        BY <2>1 DEF Close, TypeInv, PageType
      <3> QED
        BY <3>1, <1>1, QuietPage DEF CopiesAgree
    <2> QED
      BY <2>1, <1>4
  <1>6. ASSUME NEW r \in Request PROVE RequestAgrees(request[r])'
    BY <1>1, QuietRequest DEF CopiesAgree
  <1> QED
    BY <1>1, <1>5, <1>6, QuietStatus DEF CopiesAgree

-----------------------------------------------------------------------------
LEMMA StepAgrees == TypeInv /\ CopiesAgree /\ [Next]_vars => CopiesAgree' /\ StatusStep
  <1> SUFFICES ASSUME TypeInv, CopiesAgree, [Next]_vars PROVE CopiesAgree' /\ StatusStep
    OBVIOUS
  <1>1. CASE \E r \in Request :
               Save(r) \/ LoadFollower(r) \/ SaveFollower(r) \/ Die(r) \/ \E c \in Change : Load(r, c)
    BY <1>1, LoadSteps, SaveSteps, LoadFollowerSteps, SaveFollowerSteps, DieSteps
  <1>2. CASE \E g \in Page :
               Fetch(g) \/ updateService(g) \/ Close(g) \/ \E c \in Change : Click(g, c)
    BY <1>2, FetchSteps, UpdateSteps, CloseSteps, ClickSteps
  <1>3. CASE UNCHANGED vars
    BY <1>3, QuietStatus, QuietRequest, QuietPage DEF vars, CopiesAgree
  <1> QED
    BY <1>1, <1>2, <1>3 DEF Next

(* For any number of requests and pages whose commands interleave, the status of an
   agent changes only because it was asked for, or by a writer whose copy is outdated,
   or, the executor's, by a request that changes exchanges. *)
THEOREM StatusIsAskedFor == Spec => StatusFollowsRequests
  <1>1. TypeInv /\ CopiesAgree /\ [Next]_vars => [StatusStep]_vars
    BY StepAgrees
  <1>2. TypeInv /\ CopiesAgree /\ [Next]_vars => (TypeInv /\ CopiesAgree)'
    BY StepAgrees, StepType
  <1>3. Init => TypeInv /\ CopiesAgree
    BY InitType, InitAgrees
  <1>4. Spec => [][StatusStep]_vars
    BY <1>1, <1>2, <1>3, PTL DEF Spec
  <1> QED
    BY <1>4 DEF StatusFollowsRequests, StatusStep

-----------------------------------------------------------------------------
(* A save nobody disturbed *)

\* How far a request has come since its first SET, if nobody else set a key meanwhile.
LoneRequest(r) ==
    LET q == request[r]
    IN  r \in alone =>
          /\ q.pc \notin {"idle", "save"}
          /\ q.pc = "follow" => q.docs = config["gatherer"]
          /\ q.pc = "saveFollower" =>
                IF q.change.field = "exchanges" THEN q.docs = config["gatherer"]
                ELSE q.docs.assets = apiAssets(config["gatherer"])
          /\ q.pc = "done" /\ q.change.field = "exchanges" => ExchangesAgree
          /\ q.pc = "done" /\ q.change.field = "workplans" => StreamsAgree(ApiKnown)

\* The documents of a save are in line with each other, and those that were set are
\* stored, if nobody else set a key meanwhile.
InLine(docs) ==
    /\ docs["executor"].exchanges = docs["gatherer"].exchanges
    /\ docs["dbsync"].assets = webAssets(docs["gatherer"])

LoneSave(g) ==
    LET s == page[g].save
    IN  /\ s.pc \in Key /\ s.change.key = "gatherer" => InLine(s.docs)
        /\ g \in alone /\ s.change.key = "gatherer" =>
              /\ s.pc \in {"executor", "dbsync"} => config["gatherer"] = s.docs["gatherer"]
              /\ s.pc = "dbsync" => config["executor"] = s.docs["executor"]
              /\ s.pc = "done" => ExchangesAgree /\ StreamsAgree(PageKnown)

Lone ==
    /\ \A r \in Request : LoneRequest(r)
    /\ \A g \in Page : LoneSave(g)

LEMMA LoneImplies == Lone => LoneSaveAgrees
  BY DEF Lone, LoneRequest, LoneSave, LoneSaveAgrees, Undisturbed

LEMMA InitLone == Init => Lone
  <1> SUFFICES ASSUME Init PROVE Lone
    OBVIOUS
  <1>1. \A g \in Page : page[g].save.pc \notin Key
    BY DEF Init, Blank, Idle, Key
  <1> QED
    BY <1>1 DEF Init, Lone, LoneRequest, LoneSave

\* Each kind of writer lists, of the streams it knows, those the gatherer writes.
LEMMA ListsAgree ==
    ASSUME NEW doc \in Doc
    PROVE  /\ {s \in Stream : apiAssets(doc)[s] > 0} = Written(doc) \cap ApiKnown
           /\ {s \in Stream : webAssets(doc)[s] > 0} = Written(doc) \cap PageKnown
  <1>1. \A s \in Stream : /\ s[1] \in Plan /\ s[2] \in DataPoint \cup {"snapshot"} /\ s[3] \in Nat
                          /\ doc.workplans[s[1]] \subseteq DataPoint
    BY WorkplanAssumption DEF Stream, Doc
  <1>2. Pairs > 0
    BY PairsAssumption
  <1>3. ASSUME NEW s \in Stream
        PROVE  apiAssets(doc)[s] > 0 <=> s \in Written(doc) \cap ApiKnown
    <2> DEFINE points == doc.workplans[s[1]]
    <2>1. apiAssets(doc)[s] =
            CASE s[2] \in {"watchOrderBook", "snapshot"} /\ "watchOrderBook" \in points -> 1
              [] s[2] = "watchBalance" /\ s[3] = 1 /\ s[2] \in points -> Pairs
              [] OTHER -> 0
      BY DEF apiAssets
    <2>2. s \in Written(doc) <=>
            CASE s[2] = "snapshot"     -> "watchOrderBook" \in points
              [] s[2] = "watchBalance" -> s[2] \in points /\ s[3] = 1
              [] OTHER                 -> s[2] \in points
      BY DEF Written
    <2>3. s \in ApiKnown <=> s[2] # "watchOrders"
      BY DEF ApiKnown
    <2>4. s[2] \in {"watchOrderBook", "watchBalance", "watchOrders", "snapshot"}
      BY <1>1 DEF DataPoint
    <2> HIDE DEF points
    <2>5. CASE s[2] \in {"watchOrderBook", "snapshot"}
      BY <2>1, <2>2, <2>3, <2>5
    <2>6. CASE s[2] = "watchBalance"
      BY <1>2, <2>1, <2>2, <2>3, <2>6
    <2>7. CASE s[2] = "watchOrders"
      BY <2>1, <2>3, <2>7
    <2> QED
      BY <2>4, <2>5, <2>6, <2>7
  <1>4. ASSUME NEW s \in Stream
        PROVE  webAssets(doc)[s] > 0 <=> s \in Written(doc) \cap PageKnown
    <2>1. webAssets(doc)[s] > 0 <=> s[2] \in doc.workplans[s[1]] /\ s[3] = 1
      BY DEF webAssets
    <2>2. s \in Written(doc) \cap PageKnown <=>
            /\ s[2] # "snapshot" /\ s[3] = 1
            /\ s[2] \in doc.workplans[s[1]]
      BY DEF Written, PageKnown
    <2>3. s[2] \in doc.workplans[s[1]] => s[2] # "snapshot"
      BY <1>1 DEF DataPoint
    <2> QED
      BY <2>1, <2>2, <2>3
  <1>5. Written(doc) \subseteq Stream
    BY DEF Written
  <1> QED
    BY <1>3, <1>4, <1>5

\* A SET ends the undisturbed saves of all others.
LEMMA OthersDisturbed ==
    ASSUME TypeInv, Lone, NEW w, NEW k, NEW doc, NEW seen, NEW c, Set(w, k, doc, seen, c)
    PROVE  /\ \A r \in Request : r # w => LoneRequest(r)'
           /\ \A g \in Page : g # w /\ page'[g] = page[g] => LoneSave(g)'
  <1>1. alone' \subseteq {w}
    BY DEF Set
  <1>2. \A r \in Request : r # w => LoneRequest(r)'
    BY <1>1 DEF LoneRequest
  <1>3. \A g \in Page : g # w /\ page'[g] = page[g] => LoneSave(g)'
    BY <1>1 DEF Lone, LoneSave
  <1> QED
    BY <1>2, <1>3

LEMMA OthersQuiet ==
    ASSUME Lone, UNCHANGED <<config, alone>>
    PROVE  /\ \A r \in Request : request'[r] = request[r] => LoneRequest(r)'
           /\ \A g \in Page : page'[g].save = page[g].save => LoneSave(g)'
  BY DEF Lone, LoneRequest, LoneSave, ExchangesAgree, StreamsAgree

LEMMA LoadLone ==
    ASSUME TypeInv, Lone, NEW r \in Request, NEW c \in Change, Load(r, c)
    PROVE  Lone'
  <1>1. UNCHANGED <<config, alone, page>> /\ r \notin alone
    BY DEF Load, Lone, LoneRequest, Idle
  <1>2. \A o \in Request : o # r => request'[o] = request[o]
    BY DEF Load, TypeInv, RequestType
  <1>3. LoneRequest(r)'
    BY <1>1 DEF LoneRequest
  <1> QED
    BY <1>1, <1>2, <1>3, OthersQuiet DEF Lone

LEMMA SaveLone ==
    ASSUME TypeInv, Lone, NEW r \in Request, Save(r)
    PROVE  Lone'
  <1> DEFINE q == request[r]
  <1>1. /\ q.pc # "idle" /\ q.change \in Change /\ UNCHANGED page
        /\ Set(r, q.change.key, q.docs, q.seen, q.change)
    BY RequestRecord DEF Save, TypeInv
  <1>2. /\ q.change.field = "agent" \/ q.change.key = "gatherer"
        /\ q.change.key \in Key
    BY <1>1, ChangeType
  <1>3. config'[q.change.key] = q.docs
    BY <1>1, <1>2 DEF Set, TypeInv, StoreType
  <1>4. /\ request'[r].change = q.change /\ request'[r].docs = q.docs
        /\ request'[r].pc = IF q.change.field = "agent" THEN "done" ELSE "follow"
    <2>1. request'[r] = [q EXCEPT !.pc = IF q.change.field = "agent" THEN "done" ELSE "follow"]
      BY DEF Save, TypeInv, RequestType
    <2> QED
      BY <2>1, <1>1, RequestRecord DEF TypeInv
  <1>5. LoneRequest(r)'
    BY <1>2, <1>3, <1>4 DEF LoneRequest
  <1>6. \A g \in Page : g # r
    BY WriterAssumption
  <1> QED
    BY <1>1, <1>5, <1>6, OthersDisturbed DEF Lone

LEMMA LoadFollowerLone ==
    ASSUME TypeInv, Lone, NEW r \in Request, LoadFollower(r)
    PROVE  Lone'
  <1> DEFINE q == request[r]
  <1>1. UNCHANGED <<config, alone, page>> /\ q.pc = "follow"
    BY DEF LoadFollower
  <1>2. q \in [pc : {"save", "follow", "saveFollower", "done", "failed"},
               change : Change, docs : Doc, seen : Nat]
    BY <1>1, RequestRecord DEF TypeInv
  <1>3. /\ request'[r].pc = "saveFollower" /\ request'[r].change = q.change
        /\ request'[r].docs = FollowerDoc(q)
    <2>1. request'[r] = [q EXCEPT !.pc = "saveFollower", !.docs = FollowerDoc(q),
                                  !.seen = version[Follower(q.change.field)]]
      BY DEF LoadFollower, TypeInv, RequestType
    <2> QED
      BY <2>1, <1>2
  <1>4. config["dbsync"] \in Doc
    BY DEF TypeInv, StoreType, Key
  <1>5. ASSUME r \in alone
        PROVE  IF q.change.field = "exchanges" THEN FollowerDoc(q) = config["gatherer"]
               ELSE FollowerDoc(q).assets = apiAssets(config["gatherer"])
    <2>1. q.docs = config["gatherer"]
      BY <1>1, <1>5 DEF Lone, LoneRequest
    <2> QED
      BY <2>1, <1>4 DEF FollowerDoc, Doc
  <1>6. LoneRequest(r)'
    BY <1>1, <1>3, <1>5 DEF LoneRequest
  <1>7. \A o \in Request : o # r => request'[o] = request[o]
    BY DEF LoadFollower, TypeInv, RequestType
  <1> QED
    BY <1>1, <1>6, <1>7, OthersQuiet DEF Lone

LEMMA SaveFollowerLone ==
    ASSUME TypeInv, Lone, NEW r \in Request, SaveFollower(r)
    PROVE  Lone'
  <1> DEFINE q == request[r]
             k == Follower(q.change.field)
  <1>1. /\ q.pc = "saveFollower" /\ UNCHANGED page
        /\ Set(r, k, q.docs, q.seen, q.change)
    BY DEF SaveFollower
  <1>2. /\ q \in [pc : {"save", "follow", "saveFollower", "done", "failed"},
                  change : Change, docs : Doc, seen : Nat]
        /\ k \in {"executor", "dbsync"}
    BY <1>1, RequestRecord DEF TypeInv, Follower
  <1>3. /\ request'[r].pc = "done" /\ request'[r].change = q.change
    <2>1. request'[r] = [q EXCEPT !.pc = "done"]
      BY DEF SaveFollower, TypeInv, RequestType
    <2> QED
      BY <2>1, <1>2
  <1>4. /\ config'[k] = q.docs /\ config'["gatherer"] = config["gatherer"]
        /\ config["gatherer"] \in Doc
    BY <1>1, <1>2 DEF Set, TypeInv, StoreType, Key
  <1>5. ASSUME r \in alone', q.change.field # "agent"
        PROVE  r \in alone
    <2>1. q.change.key = "gatherer"
      BY <1>2, <1>5, ChangeType
    <2> QED
      BY <2>1, <1>1, <1>2, <1>5 DEF Set
  <1>6. ASSUME r \in alone', q.change.field = "exchanges"
        PROVE  ExchangesAgree'
    <2>1. q.docs = config["gatherer"] /\ k = "executor"
      BY <1>1, <1>5, <1>6 DEF Lone, LoneRequest, Follower
    <2> QED
      BY <2>1, <1>4 DEF ExchangesAgree
  <1>7. ASSUME r \in alone', q.change.field = "workplans"
        PROVE  StreamsAgree(ApiKnown)'
    <2>1. q.docs.assets = apiAssets(config["gatherer"]) /\ k = "dbsync"
      BY <1>1, <1>5, <1>7 DEF Lone, LoneRequest, Follower
    <2> QED
      BY <2>1, <1>4, ListsAgree DEF StreamsAgree
  <1>8. LoneRequest(r)'
    BY <1>3, <1>6, <1>7 DEF LoneRequest
  <1>9. \A g \in Page : g # r
    BY WriterAssumption
  <1> HIDE DEF k
  <1> QED
    BY <1>1, <1>8, <1>9, OthersDisturbed DEF Lone

LEMMA DieLone ==
    ASSUME TypeInv, Lone, NEW r \in Request, Die(r)
    PROVE  Lone'
  <1>1. UNCHANGED <<config, alone, page>> /\ request[r].pc # "idle"
    BY DEF Die
  <1>2. request'[r].pc = "failed"
    BY <1>1, RequestRecord DEF Die, TypeInv, RequestType
  <1>3. LoneRequest(r)'
    BY <1>2 DEF LoneRequest
  <1>4. \A o \in Request : o # r => request'[o] = request[o]
    BY DEF Die, TypeInv, RequestType
  <1> QED
    BY <1>1, <1>3, <1>4, OthersQuiet DEF Lone

LEMMA FetchLone ==
    ASSUME TypeInv, Lone, NEW g \in Page, Fetch(g)
    PROVE  Lone'
  <1>1. UNCHANGED <<config, alone, request>>
    BY DEF Fetch
  <1>2. PICK K \in SUBSET Key, k \in Key : Shows(g, K, k) \/ GoesOn(g, K, k)
    BY FetchResult DEF TypeInv
  <1>3. page[g] \in PageState
    BY PageRecord DEF TypeInv
  <1>4. page'[g].save = page[g].save
    BY <1>2, <1>3 DEF Shows, GoesOn, TypeInv, PageType, PageState
  <1>5. \A h \in Page : h # g => page'[h] = page[h]
    BY <1>2 DEF Shows, GoesOn, TypeInv, PageType
  <1> QED
    BY <1>1, <1>4, <1>5, OthersQuiet DEF Lone

LEMMA UpdatedInLine ==
    ASSUME NEW docs \in [Key -> Doc], NEW c \in Change, c.key = "gatherer"
    PROVE  InLine(Updated(docs, c))
  <1> DEFINE doc == Changed(docs[c.key], c)
  <1>1. docs["executor"] \in Doc /\ docs["dbsync"] \in Doc
    BY DEF Key
  <1>2. Updated(docs, c) = [gatherer |-> doc,
                            executor |-> [docs["executor"] EXCEPT !.exchanges = doc.exchanges],
                            dbsync   |-> [docs["dbsync"] EXCEPT !.assets = webAssets(doc)]]
    BY DEF Updated
  <1> HIDE DEF doc
  <1> QED
    BY <1>1, <1>2 DEF InLine, Doc

LEMMA ClickLone ==
    ASSUME TypeInv, Lone, NEW g \in Page, NEW c \in Change, Click(g, c)
    PROVE  Lone'
  <1> DEFINE p == page[g]
             docs == Updated(p.copy.docs, c)
             copy == [docs |-> docs, seen |-> p.copy.seen]
             save == [pc |-> c.key, change |-> c, docs |-> docs, seen |-> p.copy.seen]
  <1>1. UNCHANGED <<config, alone, request>> /\ c.key \in Key
    BY ChangeType DEF Click
  <1>2. /\ p \in PageState /\ p.copy.docs \in [Key -> Doc]
        /\ page' = [page EXCEPT ![g] = [p EXCEPT !.copy = copy, !.save = save]]
    BY ClickResult
  <1>3. page'[g].save = save
    <2>1. page'[g] = [p EXCEPT !.copy = copy, !.save = save]
      BY <1>2 DEF TypeInv, PageType
    <2> HIDE DEF copy, save
    <2> QED
      BY <2>1, <1>2 DEF PageState
  <1>4. page'[g].save.pc = c.key /\ page'[g].save.change = c /\ page'[g].save.docs = docs
    BY <1>3
  <1>5. c.key = "gatherer" => InLine(docs)
    BY <1>2, UpdatedInLine
  <1>6. LoneSave(g)'
    <2> HIDE DEF docs
    <2> QED BY <1>1, <1>4, <1>5 DEF LoneSave, InLine, Key
  <1>7. \A h \in Page : h # g => page'[h] = page[h]
    BY <1>2 DEF TypeInv, PageType
  <1> QED
    BY <1>1, <1>6, <1>7, OthersQuiet DEF Lone

LEMMA UpdateLone ==
    ASSUME TypeInv, Lone, NEW g \in Page, updateService(g)
    PROVE  Lone'
  <1> DEFINE s == page[g].save
             k == s.pc
  <1>1. /\ k \in Key /\ UNCHANGED request
        /\ s \in [pc : Key \cup {"done"}, change : Change, docs : [Key -> Doc], seen : [Key -> Nat]]
        /\ Set(g, k, s.docs[k], s.seen[k], s.change)
    BY SaveRecord DEF updateService, TypeInv
  <1>2. page[g] \in PageState /\ LoneSave(g)
    BY PageRecord DEF Lone, TypeInv
  <1>3. /\ page'[g].save.docs = s.docs /\ page'[g].save.change = s.change
        /\ page'[g].save.pc = AfterSet(k, s.change)
    <2>1. page'[g] = [page[g] EXCEPT !.save = [s EXCEPT !.pc = AfterSet(s.pc, s.change)]]
      BY UpdateResult DEF TypeInv, PageType
    <2>2. page'[g].save = [s EXCEPT !.pc = AfterSet(s.pc, s.change)]
      BY <2>1, <1>2 DEF PageState
    <2> QED
      BY <2>2, <1>1
  <1>4. /\ config'[k] = s.docs[k] /\ \A j \in Key : j # k => config'[j] = config[j]
        /\ "gatherer" \in Key /\ "executor" \in Key /\ "dbsync" \in Key
    BY <1>1 DEF Set, TypeInv, StoreType, Key
  <1>5. LoneSave(g)'
    <2>1. CASE s.change.key # "gatherer"
      BY <2>1, <1>3 DEF LoneSave
    <2>2. CASE s.change.key = "gatherer" /\ k = "gatherer"
      <3>1. page'[g].save.pc = "executor" /\ InLine(s.docs)
        BY <2>2, <1>2, <1>3 DEF AfterSet, LoneSave, Key
      <3> QED
        BY <3>1, <1>3, <1>4, <2>2 DEF LoneSave, InLine
    <2>3. CASE s.change.key = "gatherer" /\ k = "executor"
      <3>1. page'[g].save.pc = "dbsync" /\ InLine(s.docs)
        BY <2>3, <1>2, <1>3 DEF AfterSet, LoneSave, Key
      <3>2. g \in alone' => g \in alone
        BY <1>1, <2>3 DEF Set
      <3>3. g \in alone => config["gatherer"] = s.docs["gatherer"]
        BY <2>3, <1>2 DEF LoneSave
      <3> QED
        BY <3>1, <3>2, <3>3, <1>3, <1>4, <2>3 DEF LoneSave, InLine
    <2>4. CASE s.change.key = "gatherer" /\ k = "dbsync"
      <3>1. page'[g].save.pc = "done" /\ InLine(s.docs)
        BY <2>4, <1>2, <1>3 DEF AfterSet, LoneSave, Key
      <3>2. g \in alone' => g \in alone
        BY <1>1, <2>4 DEF Set
      <3>3. g \in alone => /\ config["gatherer"] = s.docs["gatherer"]
                           /\ config["executor"] = s.docs["executor"]
        BY <2>4, <1>2 DEF LoneSave
      <3>4. ASSUME g \in alone' PROVE ExchangesAgree' /\ StreamsAgree(PageKnown)'
        <4>1. /\ config'["gatherer"] = s.docs["gatherer"]
              /\ config'["executor"] = s.docs["executor"]
              /\ config'["dbsync"] = s.docs["dbsync"]
          BY <2>4, <1>4, <3>2, <3>3, <3>4
        <4>2. s.docs["gatherer"] \in Doc
          BY <1>1, <1>4
        <4> QED
          BY <4>1, <4>2, <3>1, ListsAgree DEF ExchangesAgree, StreamsAgree, InLine
      <3> QED
        BY <3>1, <3>4, <1>3 DEF LoneSave, Key
    <2> QED
      BY <1>1, <2>1, <2>2, <2>3, <2>4 DEF Key
  <1>6. \A h \in Page : h # g => page'[h] = page[h]
    BY DEF updateService, TypeInv, PageType
  <1>7. \A r \in Request : r # g
    BY WriterAssumption
  <1> QED
    BY <1>1, <1>5, <1>6, <1>7, OthersDisturbed DEF Lone

LEMMA CloseLone ==
    ASSUME TypeInv, Lone, NEW g \in Page, Close(g)
    PROVE  Lone'
  <1>1. UNCHANGED <<config, alone, request>>
    BY DEF Close
  <1>2. page'[g].save.pc = "idle"
    BY DEF Close, TypeInv, PageType, Blank, Idle
  <1>3. LoneSave(g)'
    BY <1>2 DEF LoneSave, Key
  <1>4. \A h \in Page : h # g => page'[h] = page[h]
    BY DEF Close, TypeInv, PageType
  <1> QED
    BY <1>1, <1>3, <1>4, OthersQuiet DEF Lone

LEMMA StepLone == TypeInv /\ Lone /\ [Next]_vars => Lone'
  <1> SUFFICES ASSUME TypeInv, Lone, [Next]_vars PROVE Lone'
    OBVIOUS
  <1>1. CASE \E r \in Request :
               Save(r) \/ LoadFollower(r) \/ SaveFollower(r) \/ Die(r) \/ \E c \in Change : Load(r, c)
    BY <1>1, LoadLone, SaveLone, LoadFollowerLone, SaveFollowerLone, DieLone
  <1>2. CASE \E g \in Page :
               Fetch(g) \/ updateService(g) \/ Close(g) \/ \E c \in Change : Click(g, c)
    BY <1>2, FetchLone, UpdateLone, CloseLone, ClickLone
  <1>3. CASE UNCHANGED vars
    BY <1>3, OthersQuiet DEF vars, Lone
  <1> QED
    BY <1>1, <1>2, <1>3 DEF Next

\* Whatever overlapping writers, outdated pages and saves that ended half way left in the
\* documents, a save nobody disturbed since its first SET brings the exchanges of the
\* executor in line with the gatherer's document, and so it does the streams of dbsync, of
\* which the API server leaves out those of other data points, and a page all but the first
\* pair's and the snapshots.
THEOREM LoneSaveRepairs == Spec => []LoneSaveAgrees
  BY InitType, StepType, InitLone, StepLone, LoneImplies, PTL DEF Spec
=============================================================================
