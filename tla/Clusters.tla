------------------------------- MODULE Clusters -------------------------------
(***************************************************************************)
(* ClusterNodes: nodes grouped around seeds, greedily, in the order of     *)
(* their ids.                                                              *)
(*                                                                         *)
(* Nodes are numbers, which stand for their ids in sorted order; their     *)
(* locations are points on a line.  Abstracted: the centroids.             *)
(***************************************************************************)
EXTENDS Integers, Sequences, FiniteSets, FiniteSetsExt

CONSTANTS
    Scenarios,      \* the records [position, radius] asked for
    DefaultRadius   \* the radius of a request without one (500 m)

ScenarioAssumption ==
    /\ DefaultRadius \in Nat \ {0}
    /\ \A s \in Scenarios :
          /\ s.radius \in Int
          /\ DOMAIN s.position \subseteq Nat
          /\ s.position \in [DOMAIN s.position -> Int]

VARIABLES
    scenario,       \* what ClusterNodes was called with
    results         \* the clusters so far, each its seed and its nodes

vars == <<scenario, results>>

Nodes == DOMAIN scenario.position

Radius == IF scenario.radius <= 0 THEN DefaultRadius ELSE scenario.radius

Distance(a, b) ==
    LET apart == scenario.position[a] - scenario.position[b]
    IN IF apart < 0 THEN - apart ELSE apart

Grouped == UNION {results[i].nodes : i \in DOMAIN results}
Remaining == Nodes \ Grouped

Init ==
    /\ scenario \in Scenarios
    /\ results = <<>>

(* Fault: a node that is in a cluster is taken into another.               *)
FaultNear(seed) == {n \in Nodes : Distance(seed, n) <= Radius}

Near(seed) == {n \in Remaining : Distance(seed, n) <= Radius}

(* One seed of the outer loop: the next node in no cluster.                *)
Group ==
    /\ Remaining # {}
    /\ LET seed == Min(Remaining)
       IN results' = Append(results, [seed |-> seed, nodes |-> {seed} \union Near(seed)])
    /\ UNCHANGED scenario

-------------------------------------------------------------------------------
(* ClusterNodes has returned.                                              *)
Done == Remaining = {}

(* No node is in two clusters, a cluster reaches no farther than the       *)
(* radius from its seed, and no two seeds could have shared one.  (Two     *)
(* nodes of a cluster may be twice the radius apart, where cluster.go line *)
(* 15 speaks of pairwise distances.)                                       *)
ClustersAreRight ==
    \A i \in DOMAIN results :
        /\ \A n \in results[i].nodes : Distance(results[i].seed, n) <= Radius
        /\ \A j \in DOMAIN results : j # i =>
              /\ results[i].nodes \intersect results[j].nodes = {}
              /\ Distance(results[i].seed, results[j].seed) > Radius

===============================================================================
