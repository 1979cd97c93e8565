--------------------------- MODULE AlternativeRoutes --------------------------
(***************************************************************************)
(* Snapshot.KRoutes: alternatives to the fastest route, found by taking    *)
(* one edge of the last result out of the network at a time.               *)
(*                                                                         *)
(* Route is taken at its word (RouteSearch checks it): on the networks     *)
(* here, where nobody overtakes and no heuristic misleads, it returns some *)
(* fastest path or none.  Which of several fastest paths it returns, and   *)
(* the order of candidates of equal time (sort.Slice is not stable), are   *)
(* left open.  A route is its path and its seconds.                        *)
(***************************************************************************)
EXTENDS RoadNetwork

CONSTANTS
    Scenarios,  \* the records [network, request, k] asked for
    Horizon     \* no route in any scenario arrives later

FairAssumption ==
    \A s \in Scenarios : NoOvertaking(s.network, s.request, Horizon)

ScenarioAssumption ==
    /\ \A s \in Scenarios : WellFormed(s.network) /\ s.request.departure \in Nat
    /\ FairAssumption

VARIABLES
    scenario,   \* what KRoutes was called with
    phase,      \* "called", "working", "returned" or "refused"
    results,    \* the routes chosen so far
    seen,       \* the paths that were ever a result or a candidate
    candidates, \* the routes waiting to be chosen; no two have one path
    removed     \* how many legs of the last result were taken out

vars == <<scenario, phase, results, seen, candidates, removed>>

network == scenario.network
request == scenario.request
k == scenario.k

Init ==
    /\ scenario \in Scenarios
    /\ phase = "called"
    /\ results = <<>>
    /\ seen = {}
    /\ candidates = {}
    /\ removed = 0

-------------------------------------------------------------------------------
(* Route: the paths without a repeated node, and the fastest of them.      *)

Paths(net, req) ==
    LET Visited(path) == {req.from} \union {path[i].to : i \in 1 .. Len(path)}
        End(path) == IF path = <<>> THEN req.from ELSE path[Len(path)].to
        Onward(path) == {Append(path, e) : e \in {m \in Outgoing(net, End(path)) :
                                                    m.to \notin Visited(path)}}
        ofLength[n \in Nat] == IF n = 0 THEN {<<>>}
                               ELSE UNION {Onward(path) : path \in ofLength[n - 1]}
    IN {path \in UNION {ofLength[n] : n \in 1 .. Cardinality(net.nodes)} :
          End(path) = req.to /\ Drivable(net, req, path)}

Route(net, req) ==
    LET routes == {[path |-> path,
                    seconds |-> TimesAlong(net, req, path)[Len(path)] - req.departure]
                   : path \in Paths(net, req)}
    IN {r \in routes : \A other \in routes : r.seconds <= other.seconds}

Without(edge) ==
    [nodes |-> network.nodes, edges |-> network.edges \ {edge}, incidents |-> network.incidents]

-------------------------------------------------------------------------------
Refuse ==
    /\ phase = "called"
    /\ k \notin 1 .. 10 \/ Route(network, request) = {}
    /\ phase' = "refused"
    /\ UNCHANGED <<scenario, results, seen, candidates, removed>>

First ==
    /\ phase = "called"
    /\ k \in 1 .. 10
    /\ \E route \in Route(network, request) :
          /\ results' = <<route>>
          /\ seen' = {route.path}
    /\ phase' = "working"
    /\ UNCHANGED <<scenario, candidates, removed>>

previous == results[Len(results)]

Keep(route) ==
    /\ seen' = seen \union {route.path}
    /\ candidates' = IF route.path \in seen THEN candidates ELSE candidates \union {route}

Legs == Len(previous.path)

(* The next leg of the last result is taken out of the whole network.      *)
RemoveLeg ==
    /\ phase = "working"
    /\ Len(results) < k
    /\ removed < Legs
    /\ LET routes == Route(Without(previous.path[removed + 1]), request) IN
       IF routes = {}
       THEN UNCHANGED <<seen, candidates>>
       ELSE \E route \in routes : Keep(route)
    /\ removed' = removed + 1
    /\ UNCHANGED <<scenario, phase, results>>

(* Fault: the candidates are not sorted.                                   *)
FaultCheapest == candidates

Cheapest == {r \in candidates : \A other \in candidates : r.seconds <= other.seconds}

Choose ==
    /\ phase = "working"
    /\ Len(results) < k
    /\ removed = Legs
    /\ \E route \in Cheapest :
          /\ results' = Append(results, route)
          /\ candidates' = candidates \ {route}
    /\ removed' = 0
    /\ UNCHANGED <<scenario, phase, seen>>

(* Enough routes, or no candidate left.                                    *)
Return ==
    /\ phase = "working"
    /\ Len(results) >= k \/ (removed = Legs /\ candidates = {})
    /\ phase' = "returned"
    /\ UNCHANGED <<scenario, results, seen, candidates, removed>>

Next == Refuse \/ First \/ RemoveLeg \/ Choose \/ Return

Spec == Init /\ [][Next]_vars

-------------------------------------------------------------------------------
(* Properties                                                              *)

(* Every variable has its type.                                            *)
TypeOK ==
    /\ scenario \in Scenarios
    /\ phase \in {"called", "working", "returned", "refused"}
    /\ \A i \in 1 .. Len(results) : results[i].seconds \in Nat
    /\ phase \in {"working", "returned"} => Len(results) \in 1 .. k
    /\ \A r \in candidates : r.path \in seen
    /\ removed \in Nat

(* The routes come in the order of their times, although candidates of one *)
(* round wait for later ones, except for ties: a route may come after a    *)
(* slower one, but only when one as fast as it has come before both.       *)
RoutesAreOrdered ==
    \A i, j \in 1 .. Len(results) :
        i < j /\ results[j].seconds < results[i].seconds =>
            \E h \in 1 .. (i - 1) : results[h].seconds = results[j].seconds

(* No route is given twice, although most are found several times.         *)
RoutesDiffer ==
    \A i, j \in 1 .. Len(results) : results[i].path = results[j].path => i = j

(* The second route is the best there is besides the first: one always     *)
(* finds it by taking out an edge of the first.                            *)
SecondIsSecondBest ==
    phase = "returned" /\ k >= 2 =>
        \A path \in Paths(network, request) \ {results[1].path} :
            /\ Len(results) >= 2
            /\ results[2].seconds <=
                  TimesAlong(network, request, path)[Len(path)] - request.departure

(* KRoutes has returned.                                                   *)
Ended == phase \in {"returned", "refused"}

===============================================================================
