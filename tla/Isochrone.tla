------------------------------- MODULE Isochrone ------------------------------
(***************************************************************************)
(* Snapshot.Reachable: the nodes within a budget of seconds, by the same   *)
(* label-setting loop as a route search, without target and heuristic.     *)
(*                                                                         *)
(* A scenario is a network, a request and a budget.  The origin is not     *)
(* looked up in the network.  Labels carry no path: the caller only gets   *)
(* the cost of each node.                                                  *)
(***************************************************************************)
EXTENDS RoadNetwork

CONSTANT Scenarios  \* the records [network, request, budget] asked for

(* Every edge takes time, whenever it is entered within the budget.        *)
CostAssumption ==
    \A s \in Scenarios : \A e \in s.network.edges :
        \A t \in s.request.departure .. (s.request.departure + s.budget) :
            Seconds(s.network, e, t) # 0

ScenarioAssumption ==
    /\ \A s \in Scenarios :
          /\ WellFormed(s.network)
          /\ s.request.departure \in Nat \ {Always}
          /\ s.budget \in Int
    /\ CostAssumption

VARIABLES
    scenario,   \* what Reachable was called with
    phase,      \* "called", "searching", "returned" or "invalid"
    open,       \* the heap
    result,     \* the cheapest cost each node was labelled with
    current,    \* the label last popped
    edges       \* its outgoing edges still to be looked at

vars == <<scenario, phase, open, result, current, edges>>

network == scenario.network
request == scenario.request
budget == scenario.budget

Label(node, cost) == [node |-> node, cost |-> cost]

Arrival(label) == request.departure + label.cost

Init ==
    /\ scenario \in Scenarios
    /\ phase = "called"
    /\ open = {}
    /\ result = <<>>
    /\ current = Label(request.from, 0)
    /\ edges = {}

Refuse ==
    /\ phase = "called"
    /\ budget <= 0
    /\ phase' = "invalid"
    /\ UNCHANGED <<scenario, open, result, current, edges>>

Start ==
    /\ phase = "called"
    /\ budget > 0
    /\ phase' = "searching"
    /\ open' = {Label(request.from, 0)}
    /\ result' = [n \in {request.from} |-> 0]
    /\ UNCHANGED <<scenario, current, edges>>

-------------------------------------------------------------------------------
Popped(label) ==
    /\ phase = "searching"
    /\ edges = {}
    /\ label \in open
    /\ \A other \in open : label.cost <= other.cost

Stale(label) == label.cost > budget \/ label.cost > result[label.node]

SkipStale(label) ==
    /\ Popped(label)
    /\ Stale(label)
    /\ open' = open \ {label}
    /\ UNCHANGED <<scenario, phase, result, current, edges>>

Expand(label) ==
    /\ Popped(label)
    /\ ~ Stale(label)
    /\ current' = label
    /\ open' = open \ {label}
    /\ edges' = Outgoing(network, label.node)
    /\ UNCHANGED <<scenario, phase, result>>

Return ==
    /\ phase = "searching"
    /\ edges = {}
    /\ open = {}
    /\ phase' = "returned"
    /\ UNCHANGED <<scenario, open, result, current, edges>>

Enterable(edge) == Allowed(network, request, edge, Arrival(current))

Candidate(edge) ==
    Label(edge.to, current.cost + Seconds(network, edge, Arrival(current)))

(* Fault: the budget is looked at when a label is popped, not before.      *)
FaultBudgetLate(label) ==
    label.node \in DOMAIN result => label.cost < result[label.node]

(* Within the budget, and better than what the node has.                   *)
Improves(label) ==
    /\ label.cost <= budget
    /\ label.node \in DOMAIN result => label.cost < result[label.node]

SkipEdge(edge) ==
    /\ phase = "searching"
    /\ edge \in edges
    /\ ~ (Enterable(edge) /\ Improves(Candidate(edge)))
    /\ edges' = edges \ {edge}
    /\ UNCHANGED <<scenario, phase, open, result, current>>

Relax(edge) ==
    LET label == Candidate(edge) IN
    /\ phase = "searching"
    /\ edge \in edges
    /\ Enterable(edge)
    /\ Improves(label)
    /\ result' = [n \in DOMAIN result \union {label.node} |->
                     IF n = label.node THEN label.cost ELSE result[n]]
    /\ open' = open \union {label}
    /\ edges' = edges \ {edge}
    /\ UNCHANGED <<scenario, phase, current>>

Next ==
    \/ Refuse
    \/ Start
    \/ \E label \in open : SkipStale(label) \/ Expand(label)
    \/ \E edge \in edges : SkipEdge(edge) \/ Relax(edge)
    \/ Return

Spec == Init /\ [][Next]_vars

-------------------------------------------------------------------------------
(* Properties                                                              *)

Labels == open \union {current}

(* Every variable has its type, and no label is cheaper than its node's    *)
(* result.                                                                 *)
TypeOK ==
    /\ scenario \in Scenarios
    /\ phase \in {"called", "searching", "returned", "invalid"}
    /\ \A l \in Labels : l.cost \in Nat
    /\ result \in [DOMAIN result -> Nat]
    /\ \A l \in open : l.node \in DOMAIN result /\ result[l.node] <= l.cost
    /\ edges \subseteq Outgoing(network, current.node)

Deadline == request.departure + budget

Reached == Arrivals(network, request, Deadline)

(* What is returned is true, however access and cost change on the way:    *)
(* one can be at each node after exactly its cost, within the budget.  In  *)
(* a network where nobody overtakes it is also complete and optimal: every *)
(* node that can be reached in time is there with its earliest time.       *)
IsochroneIsRight ==
    phase = "returned" =>
        /\ \A n \in DOMAIN result :
              [node |-> n, time |-> request.departure + result[n]] \in Reached
        /\ NoOvertaking(network, request, Deadline) =>
              \A place \in Reached :
                  /\ place.node \in DOMAIN result
                  /\ request.departure + result[place.node] <= place.time

(* Reachable has returned.                                                 *)
Ended == phase \in {"returned", "invalid"}

===============================================================================
