------------------------------ MODULE RouteSearch -----------------------------
(***************************************************************************)
(* Snapshot.Route: A* over a time-dependent network, with one best cost    *)
(* per node and stale heap entries skipped when they are popped.           *)
(*                                                                         *)
(* A scenario is a network, a request and the heuristic's value for each   *)
(* node.  The heap is a set of labels: a node is only pushed with a cost   *)
(* below all its earlier ones, so no two labels are equal; labels of equal *)
(* estimate are popped in any order.  A label's arrival is the departure   *)
(* plus its cost.                                                          *)
(***************************************************************************)
EXTENDS RoadNetwork

CONSTANTS
    Scenarios,  \* the records [network, request, estimate] searched
    Horizon     \* no arrival in any scenario is later

(* Every edge takes time, whenever it is entered.                          *)
CostAssumption ==
    \A s \in Scenarios : \A e \in s.network.edges : \A t \in 1 .. Horizon :
        Seconds(s.network, e, t) \in 1 .. Horizon

ScenarioAssumption ==
    /\ Horizon \in Nat
    /\ \A s \in Scenarios :
          /\ WellFormed(s.network)
          /\ s.request.departure \in 1 .. Horizon
          /\ \A n \in s.network.nodes : s.estimate[n] \in Nat
    /\ CostAssumption

VARIABLES
    scenario,   \* what this search was called with
    phase,      \* "called", "searching", "found", "no route" or "invalid"
    open,       \* the heap
    best,       \* the cheapest cost each node was labelled with
    current,    \* the label last popped
    edges       \* its outgoing edges still to be looked at

vars == <<scenario, phase, open, best, current, edges>>

network == scenario.network
request == scenario.request

Label(node, cost, path) == [node |-> node, cost |-> cost, path |-> path]

Estimate(label) ==
    label.cost + IF label.path = <<>> THEN 0 ELSE scenario.estimate[label.node]

Arrival(label) == request.departure + label.cost

Init ==
    /\ scenario \in Scenarios
    /\ phase = "called"
    /\ open = {}
    /\ best = <<>>
    /\ current = Label(request.from, 0, <<>>)
    /\ edges = {}

-------------------------------------------------------------------------------
ValidRequest == request.from # request.to
Endpoints == {request.from, request.to} \subseteq network.nodes

RefuseRequest ==
    /\ phase = "called"
    /\ ~ ValidRequest
    /\ phase' = "invalid"
    /\ UNCHANGED <<scenario, open, best, current, edges>>

RefuseEndpoints ==
    /\ phase = "called"
    /\ ValidRequest
    /\ ~ Endpoints
    /\ phase' = "no route"
    /\ UNCHANGED <<scenario, open, best, current, edges>>

Start ==
    /\ phase = "called"
    /\ ValidRequest
    /\ Endpoints
    /\ phase' = "searching"
    /\ open' = {Label(request.from, 0, <<>>)}
    /\ best' = [n \in {request.from} |-> 0]
    /\ UNCHANGED <<scenario, current, edges>>

-------------------------------------------------------------------------------
(* The loop: the label popped has the least estimate.                      *)

Popped(label) ==
    /\ phase = "searching"
    /\ edges = {}
    /\ label \in open
    /\ \A other \in open : Estimate(label) <= Estimate(other)

(* Fault: the label that set the best cost is taken for a stale one.       *)
FaultStale(label) == label.cost >= best[label.node]

Stale(label) == label.cost > best[label.node]

(* Fault: the label stays in the heap.                                     *)
FaultPop(label) == open

Pop(label) == open \ {label}

SkipStale(label) ==
    /\ Popped(label)
    /\ Stale(label)
    /\ open' = Pop(label)
    /\ UNCHANGED <<scenario, phase, best, current, edges>>

ReachTarget(label) ==
    /\ Popped(label)
    /\ ~ Stale(label)
    /\ label.node = request.to
    /\ phase' = "found"
    /\ current' = label
    /\ open' = Pop(label)
    /\ UNCHANGED <<scenario, best, edges>>

Expand(label) ==
    /\ Popped(label)
    /\ ~ Stale(label)
    /\ label.node # request.to
    /\ current' = label
    /\ open' = Pop(label)
    /\ edges' = Outgoing(network, label.node)
    /\ UNCHANGED <<scenario, phase, best>>

Exhausted ==
    /\ phase = "searching"
    /\ edges = {}
    /\ open = {}
    /\ phase' = "no route"
    /\ UNCHANGED <<scenario, open, best, current, edges>>

(* Fault: every edge is entered at the departure.                          *)
FaultEntry == request.departure

Entry == Arrival(current)

Enterable(edge) == Allowed(network, request, edge, Entry)

Candidate(edge) ==
    Label(edge.to, current.cost + Seconds(network, edge, Entry),
          Append(current.path, edge))

Improves(label) ==
    label.node \in DOMAIN best => label.cost < best[label.node]

SkipEdge(edge) ==
    /\ phase = "searching"
    /\ edge \in edges
    /\ ~ (Enterable(edge) /\ Improves(Candidate(edge)))
    /\ edges' = edges \ {edge}
    /\ UNCHANGED <<scenario, phase, open, best, current>>

Relax(edge) ==
    LET label == Candidate(edge) IN
    /\ phase = "searching"
    /\ edge \in edges
    /\ Enterable(edge)
    /\ Improves(label)
    /\ best' = [n \in DOMAIN best \union {label.node} |->
                   IF n = label.node THEN label.cost ELSE best[n]]
    /\ open' = open \union {label}
    /\ edges' = edges \ {edge}
    /\ UNCHANGED <<scenario, phase, current>>

Next ==
    \/ RefuseRequest
    \/ RefuseEndpoints
    \/ Start
    \/ \E label \in open : SkipStale(label) \/ ReachTarget(label) \/ Expand(label)
    \/ \E edge \in edges : SkipEdge(edge) \/ Relax(edge)
    \/ Exhausted

Spec == Init /\ [][Next]_vars

-------------------------------------------------------------------------------
(* Properties                                                              *)

Reached == Arrivals(network, request, Horizon)

Fair == NoOvertaking(network, request, Horizon)

Labels == open \union {current}

(* Every variable has its type, and no label is cheaper than the best cost *)
(* known for its node.                                                     *)
TypeOK ==
    /\ scenario \in Scenarios
    /\ phase \in {"called", "searching", "found", "no route", "invalid"}
    /\ \A l \in Labels : l.cost \in Nat /\ l.path \in Seq(network.edges)
    /\ best \in [DOMAIN best -> Nat] /\ DOMAIN best \subseteq network.nodes
    /\ \A l \in open : l.node \in DOMAIN best /\ best[l.node] <= l.cost
    /\ edges \subseteq Outgoing(network, current.node)

(* The search never claims a time nobody could keep: the path of each      *)
(* label can be driven, through edges that are open when they are entered, *)
(* and takes what the label costs.                                         *)
LabelsAreReal ==
    \A l \in Labels :
        /\ Drivable(network, request, l.path)
        /\ TimesAlong(network, request, l.path)[Len(l.path)] = Arrival(l)
        /\ l.path # <<>> => l.path[Len(l.path)].to = l.node

(* The heuristic is never more than an edge takes, from its end to its     *)
(* start: nobody drives faster than it assumes.                            *)
HeuristicIsSafe ==
    \A e \in network.edges, t \in request.departure .. Horizon :
        Allowed(network, request, e, t) =>
            scenario.estimate[e.from] <= Seconds(network, e, t) + scenario.estimate[e.to]

(* In a network where nobody overtakes, the route found is the fastest     *)
(* there is if the heuristic is safe, and "no route" means there is none,  *)
(* however wrong the heuristic.                                            *)
RouteIsRight ==
    Fair =>
        /\ phase = "found" /\ HeuristicIsSafe =>
              \A place \in Reached :
                  place.node = request.to => Arrival(current) <= place.time
        /\ phase = "no route" => \A place \in Reached : place.node # request.to

(* Route has returned.                                                     *)
Ended == phase \in {"found", "no route", "invalid"}

===============================================================================
