\* Routes: four or five nodes, seven or eight roads, costs 1 and 3, eight sets
\* of incidents, restricted roads, three heuristics.  Isochrones: six budgets on
\* the same networks.  Alternatives: up to ten, where nobody overtakes.
\* Connectivity: every network of four nodes.  Clusters: every placing of four
\* nodes on a line of five points.  Costs: up to three incidents on an edge.  A
\* query stops when it has ended.
SPECIFICATION FairSpec
CONSTANTS
    RouteScenarios <- MCRouteScenarios
    IsochroneScenarios <- MCIsochroneScenarios
    AlternativeScenarios <- MCAlternativeScenarios
    Horizon <- LastArrival
    Size = 4
    Ends <- MCEnds
    ClusterScenarios <- MCClusterScenarios
    DefaultRadius = 3
    CostScenarios <- MCCostScenarios
CHECK_DEADLOCK FALSE
INVARIANTS
    LabelsAreReal
    RouteIsRight
    IsochroneIsRight
    AlternativesAreRight
    LabelsAreComponents
    ClustersAreRight
    CostsAgree
PROPERTIES
    QueriesEnd
