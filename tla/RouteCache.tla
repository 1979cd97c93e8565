------------------------------ MODULE RouteCache ------------------------------
(***************************************************************************)
(* CachedRoute: route requests of one dataset answered from an LRU cache   *)
(* or from a snapshot, while the graph and the incidents change.           *)
(*                                                                         *)
(* Each method of the cache and of the store is one atomic step under its  *)
(* own lock; a snapshot takes two steps, graph first.  Abstracted: what a  *)
(* route is (a value stands for the request and the graph and incidents it *)
(* was computed from), and which requests have no route: computing one     *)
(* may fail at any time.                                                   *)
(***************************************************************************)
EXTENDS Naturals, SequencesExt

CONSTANTS
    Handlers,   \* the goroutines that call CachedRoute
    Trips,      \* what a key distinguishes: dataset, ends, mode, departure, class
    Capacity,   \* of the cache (512 in the service)
    MaxVersion, \* bound: imports, and changes of incidents
    Nothing     \* no request

ASSUME CapacityAssumption == Capacity \in Nat \ {0}
ASSUME MaxVersionAssumption == MaxVersion \in Nat \ {0}

VARIABLES
    graph,      \* version of the installed graph, 0 for none
    incidents,  \* how often the incidents have changed
    order,      \* the cache: its entries, the most recently used first
    pc,         \* where each handler is
    asked,      \* its request
    snapshot,   \* what it has read: [graph, incidents]
    answer,     \* the value it last returned
    recent      \* history: the keys used, the most recent first

data == <<graph, incidents>>
cache == <<order, recent>>
routingVars == <<data, cache, pc, asked, snapshot, answer>>

Versions == 0 .. MaxVersion
Snapshots == [graph : Versions, incidents : Versions]
Unread == [graph |-> 0, incidents |-> 0]

(* avoidTolls stands for it and maxSlope.                                  *)
Requests == [trip : Trips, avoidTolls : BOOLEAN]

Value(request, read) == [request |-> request, snapshot |-> read]
Values == [request : Requests, snapshot : Snapshots]

routeCacheKey(request) == request.trip

RoutingInit ==
    /\ graph = 0
    /\ incidents = 0
    /\ order = <<>>
    /\ pc = [h \in Handlers |-> "idle"]
    /\ asked = [h \in Handlers |-> Nothing]
    /\ snapshot = [h \in Handlers |-> Unread]
    /\ answer = [h \in Handlers |-> Nothing]
    /\ recent = <<>>

-------------------------------------------------------------------------------
(* Other requests                                                          *)

ImportGraph ==
    /\ graph < MaxVersion
    /\ graph' = graph + 1
    /\ UNCHANGED <<incidents, cache, pc, asked, snapshot, answer>>

ChangeIncident ==
    /\ incidents < MaxVersion
    /\ incidents' = incidents + 1
    /\ UNCHANGED <<graph, cache, pc, asked, snapshot, answer>>

-------------------------------------------------------------------------------
(* The cache                                                               *)

Keys == [i \in 1 .. Len(order) |-> order[i].key]

Cached == ToSet(Keys)

PlaceIn(keys, key) == CHOOSE i \in DOMAIN keys : keys[i] = key

EntryOf(key) == order[PlaceIn(Keys, key)]

(* An element comes to the front of a list whose elements have these keys, *)
(* in the place of the one that has its key.                               *)
ToFront(x, list, keys, key) ==
    <<x>> \o IF key \in ToSet(keys) THEN RemoveAt(list, PlaceIn(keys, key)) ELSE list

Used(key) == recent' = ToFront(key, recent, recent, key)

(* Fault: a hit does not move the entry.                                   *)
FaultPromoted(key) == order

Promoted(key) == ToFront(EntryOf(key), order, Keys, key)

Get(key) == key \in Cached /\ order' = Promoted(key) /\ Used(key)

(* The entry goes to the front, new or not; what is over the capacity      *)
(* leaves at the back.                                                     *)
Put(key, value) ==
    LET entries == ToFront([key |-> key, value |-> value], order, Keys, key) IN
    /\ order' = SubSeq(entries, 1, Min({Len(entries), Capacity}))
    /\ Used(key)

-------------------------------------------------------------------------------
(* CachedRoute                                                             *)

Hit(h, request) ==
    LET key == routeCacheKey(request) IN
    /\ pc[h] = "idle"
    /\ Get(key)
    /\ answer' = [answer EXCEPT ![h] = EntryOf(key).value]
    /\ asked' = [asked EXCEPT ![h] = request]
    /\ pc' = [pc EXCEPT ![h] = "answered"]
    /\ UNCHANGED <<data, snapshot>>

Miss(h, request) ==
    /\ pc[h] = "idle"
    /\ routeCacheKey(request) \notin Cached
    /\ asked' = [asked EXCEPT ![h] = request]
    /\ pc' = [pc EXCEPT ![h] = "graph"]
    /\ UNCHANGED <<data, cache, snapshot, answer>>

(* Fault: a dataset without a graph passes for one with an empty graph.     *)
FaultHasGraph == TRUE

HasGraph == graph # 0

ReadGraph(h) ==
    /\ pc[h] = "graph"
    /\ HasGraph
    /\ snapshot' = [snapshot EXCEPT ![h].graph = graph]
    /\ pc' = [pc EXCEPT ![h] = "incidents"]
    /\ UNCHANGED <<data, cache, asked, answer>>

ReadIncidents(h) ==
    /\ pc[h] = "incidents"
    /\ snapshot' = [snapshot EXCEPT ![h].incidents = incidents]
    /\ pc' = [pc EXCEPT ![h] = "route"]
    /\ UNCHANGED <<data, cache, asked, answer>>

Fill(h) ==
    LET value == Value(asked[h], snapshot[h]) IN
    /\ pc[h] = "route"
    /\ Put(routeCacheKey(asked[h]), value)
    /\ answer' = [answer EXCEPT ![h] = value]
    /\ pc' = [pc EXCEPT ![h] = "answered"]
    /\ UNCHANGED <<data, asked, snapshot>>

(* CachedRoute returns an error, which leaves nothing in the cache: no     *)
(* graph, a request that is not valid, or no route.  Or the caller has     *)
(* looked at its answer.                                                   *)
Leave(h) ==
    /\ \/ pc[h] = "graph" /\ ~ HasGraph
       \/ pc[h] \in {"route", "answered"}
    /\ pc' = [pc EXCEPT ![h] = "idle"]
    /\ asked' = [asked EXCEPT ![h] = Nothing]
    /\ snapshot' = [snapshot EXCEPT ![h] = Unread]
    /\ answer' = [answer EXCEPT ![h] = Nothing]
    /\ UNCHANGED <<data, cache>>

CachedRoute(h) ==
    \/ \E request \in Requests : Hit(h, request) \/ Miss(h, request)
    \/ ReadGraph(h)
    \/ ReadIncidents(h)
    \/ Fill(h)
    \/ Leave(h)

RoutingNext ==
    \/ ImportGraph
    \/ ChangeIncident
    \/ \E h \in Handlers : CachedRoute(h)

RoutingSpec == RoutingInit /\ [][RoutingNext]_routingVars

-------------------------------------------------------------------------------
(* Properties                                                              *)

RoutingTypeOK ==
    /\ graph \in Versions
    /\ incidents \in Versions
    /\ order \in Seq([key : Trips, value : Values])
    /\ pc \in [Handlers -> {"idle", "graph", "incidents", "route", "answered"}]
    /\ asked \in [Handlers -> Requests \union {Nothing}]
    /\ snapshot \in [Handlers -> Snapshots]
    /\ answer \in [Handlers -> Values \union {Nothing}]
    /\ recent \in Seq(Trips)

(* lru.go lines 8 and 40: the cache holds the keys used most recently, in  *)
(* that order and each once, although handlers that missed the same key at *)
(* the same time all put it.                                               *)
HoldsTheMostRecent ==
    /\ RoutingTypeOK
    /\ Len(order) = Min({Len(recent), Capacity})
    /\ \A i \in 1 .. Len(order) : order[i].key = recent[i]

(* What is cached under a key was computed for it, from a graph that was   *)
(* installed: a failed or half-read request leaves nothing behind.         *)
EntriesAreComputed ==
    \A i \in 1 .. Len(order) :
        LET entry == order[i] IN
        /\ routeCacheKey(entry.value.request) = entry.key
        /\ entry.value.snapshot.graph \in 1 .. graph
        /\ entry.value.snapshot.incidents <= incidents

(* route_service.go line 9, "keyed by the normalised request": the answer  *)
(* is one to the request that was made.                                    *)
AnswersTheRequest ==
    \A h \in Handlers : pc[h] = "answered" => answer[h].request = asked[h]

===============================================================================
