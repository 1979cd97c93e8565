--------------------------- MODULE MCNetworkQueries ---------------------------
(***************************************************************************)
(* Scenarios for TLC: what is asked of the networks of MCNetworks, of all  *)
(* networks of four nodes, and of four nodes on a line.                    *)
(***************************************************************************)
EXTENDS MCNetworks, NetworkQueries, TLC

LastArrival == 24

(* No heuristic, one that is safe and one that is not.                     *)
Estimates == {
    [n \in Towns \union {"E"} |-> 0],
    [n \in Towns \union {"E"} |-> IF n \in {"D", "E"} THEN 0 ELSE 1],
    [n \in Towns \union {"E"} |->
        CASE n = "A" -> 2 [] n = "B" -> 6 [] n = "C" -> 1 [] n \in {"D", "E"} -> 0]}

Searches(networks, requests) ==
    [network : networks, request : requests, estimate : Estimates]

MCRouteScenarios ==
    Searches(UnderIncidents, {Request("A", "D")})
    \union Searches(Bridge, {Request("A", "E")})
    \union Searches(Restricted, {[Request("A", "D") EXCEPT !.avoidTolls = a, !.maxSlope = m]
                                 : a \in BOOLEAN, m \in {0, 5}})
    \union Searches(Restricted, {Request("D", "A"), Request("A", "A"), Request("X", "D"),
                                 Request("C", "X")})

(* Nothing, one edge, a few edges, everything.                             *)
Budgets == {0, 1, 3, 4, 6, 12}

MCIsochroneScenarios ==
    [network : UnderIncidents \union Bridge, request : {Request("A", "placeholder")},
     budget : Budgets]
    \union [network : Restricted, budget : Budgets,
            request : {Request("A", "placeholder"), Request("C", "placeholder")}]

(* A network with a second edge from B to D.                               *)
Parallel ==
    {[nodes |-> Towns, incidents |-> {},
      edges |-> Roads(1, 3, bd, cd)
                \union {[Edge("B", "D", 2) EXCEPT !.id = <<"B", "D", "second">>]}]
     : bd \in Costs, cd \in Costs}

(* Every edge between four nodes, and a loop.                              *)
MCEnds ==
    {e \in [from : 1..4, to : 1..4] : e.from # e.to} \union {[from |-> 2, to |-> 2]}

(* Four nodes on a line, closer together and farther apart than the radius. *)
MCClusterScenarios ==
    [position : [1..4 -> 0..4], radius : {-1, 1, 2}]

(* Up to three incidents on one edge, and requests that the edge suits or  *)
(* does not.                                                               *)
OnOneEdge ==
    {[i EXCEPT !.window = w] @@ [priority |-> p, created |-> c]
     : i \in {Incident(<<"A", "B">>, Window(0, 0), FALSE, 1, 2),
              Incident(<<"A", "B">>, Window(0, 0), FALSE, 2, 1),
              Incident(<<"A", "B">>, Window(0, 0), FALSE, 0, 1),
              Incident(<<"A", "B">>, Window(0, 0), TRUE, 1, 3)},
       w \in {Window(0, 0), Window(2, 3)}, p \in {1, 2}, c \in {1, 2}}

MCCostScenarios ==
    [request : {[Request("A", "B") EXCEPT !.maxSlope = m] : m \in {0, 5}},
     edge : {[Edge("A", "B", 12) EXCEPT !.slope = s] : s \in {-9, 3}},
     incidents : {{}} \union {{i, j} : i, j \in OnOneEdge}]
    \union
    [request : {Request("A", "B")}, edge : {Edge("A", "B", 24)},
     incidents : {{i, j, l} : i, j, l \in {m \in OnOneEdge : m.created = 1}}]

(* Three edges from A to B, two of them of one cost, and two from B to D:  *)
(* the second, third and fourth routes may come out of order.              *)
Ties ==
    LET Lane(from, to, base, lane) == [Edge(from, to, base) EXCEPT !.id = <<from, to, lane>>]
    IN [nodes |-> Towns, incidents |-> {},
        edges |-> {Lane("A", "B", 1, 1), Lane("A", "B", 2, 2), Lane("A", "B", 2, 3),
                   Lane("B", "D", 1, 1), Lane("B", "D", 3, 2)}]

MCAlternativeScenarios ==
    {s \in [network : UnderIncidents \union Parallel \union {Ties}, request : {Request("A", "D")},
            k : {0, 1, 2, 4, 10, 11}]
           \union [network : Restricted, request : {Request("D", "A")}, k : {2}]
     : R!NoOvertaking(s.network, s.request, LastArrival)}

===============================================================================
