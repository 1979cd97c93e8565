---------------------------- MODULE NetworkQueries ----------------------------
(***************************************************************************)
(* What the service computes on a pinned network: one query is chosen at   *)
(* the start and its module takes all the steps.  The two searches share   *)
(* their variables; a variable of the other queries stays as it is.  The   *)
(* costs of edges are only looked at.                                      *)
(***************************************************************************)
EXTENDS Integers, Sequences, FiniteSets

CONSTANTS
    RouteScenarios,         \* of RouteSearch
    IsochroneScenarios,     \* of Isochrone
    AlternativeScenarios,   \* of AlternativeRoutes
    Horizon,                \* no arrival in these scenarios is later
    Size, Ends,             \* of Connectivity
    ClusterScenarios,       \* of Clusters
    DefaultRadius,
    CostScenarios           \* the records [request, edge, incidents] looked at

VARIABLES
    query,      \* "route", "isochrone", "alternatives", "connectivity",
                \* "clusters" or "costs"
    scenario, phase, open, best, current,       \* Route and Reachable
    edges,                                      \* ... and ComputeConnectivity
    results,                                    \* KRoutes and ClusterNodes
    seen, candidates, removed,                  \* KRoutes
    labels, queue, next                         \* ComputeConnectivity

vars == <<query, scenario, phase, open, best, current, edges,
          results, seen, candidates, removed, labels, queue, next>>

-------------------------------------------------------------------------------
R == INSTANCE RouteSearch WITH Scenarios <- RouteScenarios
I == INSTANCE Isochrone WITH Scenarios <- IsochroneScenarios, result <- best
A == INSTANCE AlternativeRoutes WITH Scenarios <- AlternativeScenarios
C == INSTANCE Connectivity
G == INSTANCE Clusters WITH Scenarios <- ClusterScenarios
E == INSTANCE EdgeCosts

ASSUME RouteAssumption == R!ScenarioAssumption
ASSUME IsochroneAssumption == I!ScenarioAssumption
ASSUME AlternativeAssumption == A!ScenarioAssumption
ASSUME ConnectivityAssumption == C!EndsAssumption
ASSUME ClustersAssumption == G!ScenarioAssumption

(* The network of a scenario of costs: its one edge.                       *)
OneEdge(s) ==
    [nodes |-> {s.edge.from, s.edge.to}, edges |-> {s.edge}, incidents |-> s.incidents]

LookedAt == 1 .. 4      \* times of entry, in seconds

ASSUME CostsAssumption ==
    \A s \in CostScenarios :
        /\ E!WellFormed(OneEdge(s))
        /\ \A at \in LookedAt : E!IsExact(OneEdge(s), s.edge, at)

-------------------------------------------------------------------------------
(* What the variables of the other queries hold.                           *)
Idle == "idle"
NoAlternatives == results = Idle /\ seen = Idle /\ candidates = Idle /\ removed = Idle
NoLabelling == labels = Idle /\ queue = Idle /\ next = Idle

Init ==
    \/ /\ query = "route"
       /\ R!Init
       /\ NoAlternatives
       /\ NoLabelling
    \/ /\ query = "isochrone"
       /\ I!Init
       /\ NoAlternatives
       /\ NoLabelling
    \/ /\ query = "alternatives"
       /\ A!Init
       /\ open = Idle /\ best = Idle /\ current = Idle /\ edges = Idle
       /\ NoLabelling
    \/ /\ query = "connectivity"
       /\ C!Init
       /\ scenario = Idle /\ phase = Idle
       /\ open = Idle /\ best = Idle /\ current = Idle
       /\ NoAlternatives
    \/ /\ query = "clusters"
       /\ G!Init
       /\ phase = Idle /\ open = Idle /\ best = Idle /\ current = Idle /\ edges = Idle
       /\ seen = Idle /\ candidates = Idle /\ removed = Idle
       /\ NoLabelling
    \/ /\ query = "costs"
       /\ scenario \in CostScenarios
       /\ phase = Idle /\ open = Idle /\ best = Idle /\ current = Idle /\ edges = Idle
       /\ NoAlternatives
       /\ NoLabelling

FindRoute ==
    /\ query = "route"
    /\ R!Next
    /\ UNCHANGED <<query, results, seen, candidates, removed, labels, queue, next>>

FindReachable ==
    /\ query = "isochrone"
    /\ I!Next
    /\ UNCHANGED <<query, results, seen, candidates, removed, labels, queue, next>>

FindAlternatives ==
    /\ query = "alternatives"
    /\ A!Next
    /\ UNCHANGED <<query, open, best, current, edges, labels, queue, next>>

FindComponents ==
    /\ query = "connectivity"
    /\ C!Next
    /\ UNCHANGED <<query, scenario, phase, open, best, current, results, seen, candidates,
                   removed>>

FindClusters ==
    /\ query = "clusters"
    /\ G!Group
    /\ UNCHANGED <<query, phase, open, best, current, edges, seen, candidates, removed,
                   labels, queue, next>>

Next == FindRoute \/ FindReachable \/ FindAlternatives \/ FindComponents \/ FindClusters

Spec == Init /\ [][Next]_vars

(* A query runs to its end on the goroutine that asked.                    *)
FairSpec == Spec /\ WF_vars(Next)

-------------------------------------------------------------------------------
(* Properties                                                              *)

(* Every label of a route search stands for a path that can be driven in   *)
(* the time the label says.                                                *)
LabelsAreReal == query = "route" => R!TypeOK /\ R!LabelsAreReal

(* Where nobody overtakes, a route found under a safe heuristic is the     *)
(* fastest there is, and "no route" means there is none.                   *)
RouteIsRight == query = "route" => R!RouteIsRight

(* The nodes of an isochrone can be reached in the times given, and where  *)
(* nobody overtakes no node is missing and no time too long.               *)
IsochroneIsRight == query = "isochrone" => I!TypeOK /\ I!IsochroneIsRight

(* Alternatives differ and come in the order of their times, except for    *)
(* ties, and the first of them is the best route besides the fastest.      *)
AlternativesAreRight ==
    query = "alternatives" =>
        A!TypeOK /\ A!RoutesAreOrdered /\ A!RoutesDiffer /\ A!SecondIsSecondBest

(* The labels of connectivity are the weak components, numbered in order.  *)
LabelsAreComponents == query = "connectivity" => C!TypeOK /\ C!LabelsAreComponents

(* Clusters share no node, lie within the radius of their seeds, and no    *)
(* two of them have seeds that near.                                       *)
ClustersAreRight == query = "clusters" => G!ClustersAreRight

(* The five ways the source computes the cost of an edge agree.            *)
CostsAgree ==
    query = "costs" =>
        \A at \in LookedAt :
            E!LoopsAgree(OneEdge(scenario), scenario.request, scenario.edge, at)

(* Every query ends, on networks with cycles, closures and loops too.      *)
QueriesEnd ==
    <>CASE query = "route" -> R!Ended
        [] query = "isochrone" -> I!Ended
        [] query = "alternatives" -> A!Ended
        [] query = "connectivity" -> C!Done
        [] query = "clusters" -> G!Done
        [] query = "costs" -> TRUE

===============================================================================
