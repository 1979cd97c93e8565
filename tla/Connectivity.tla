----------------------------- MODULE Connectivity -----------------------------
(***************************************************************************)
(* ComputeConnectivity: the weakly connected components of a road network, *)
(* labelled 1, 2, ... by one breadth-first search per component, started   *)
(* from the nodes in the order of their ids.                               *)
(*                                                                         *)
(* Nodes are numbers, which stand for their ids in sorted order.           *)
(* BuildTopology admits every set of edges between known nodes; two edges  *)
(* with the same ends are one here.                                        *)
(***************************************************************************)
EXTENDS Naturals, Sequences, FiniteSets, SequencesExt

CONSTANTS
    Size,       \* how many nodes there are
    Ends        \* the [from, to] pairs an edge may have

EndsAssumption == Size \in Nat /\ Ends \subseteq [from : 1..Size, to : 1..Size]

VARIABLES
    edges,      \* the topology
    labels,     \* the label of each node that has one, else Unseen
    queue,      \* nodes whose neighbours are still to be looked at
    next        \* the last label given

vars == <<edges, labels, queue, next>>

Nodes == 1..Size
Unseen == 0

(* Fault: edges are followed in their own direction only.                  *)
FaultNeighbours(node) == {e.to : e \in {d \in edges : d.from = node}}

(* The other end of each edge out of or into a node.                       *)
Neighbours(node) ==
    {e.to : e \in {d \in edges : d.from = node}} \union
    {e.from : e \in {d \in edges : d.to = node}}

-------------------------------------------------------------------------------
(* BuildTopology has admitted some of these edges.                         *)
Init ==
    /\ edges \in SUBSET Ends
    /\ labels = [n \in Nodes |-> Unseen]
    /\ queue = <<>>
    /\ next = 0

(* The outer loop comes to the next node without a label.                  *)
Seed ==
    /\ queue = <<>>
    /\ \E n \in Nodes :
           /\ labels[n] = Unseen
           /\ \A m \in 1 .. (n - 1) : labels[m] # Unseen
           /\ labels' = [labels EXCEPT ![n] = next + 1]
           /\ queue' = <<n>>
    /\ next' = next + 1
    /\ UNCHANGED edges

(* The inner loop, for one node: its neighbours without a label get this   *)
(* one and are queued, in the order of the edge ids.                       *)
Visit ==
    /\ queue # <<>>
    /\ LET found == {n \in Neighbours(Head(queue)) : labels[n] = Unseen}
       IN /\ labels' = [n \in Nodes |-> IF n \in found THEN next ELSE labels[n]]
          /\ \E order \in SetToSeqs(found) : queue' = Tail(queue) \o order
    /\ UNCHANGED <<edges, next>>

Next == Seed \/ Visit

Spec == Init /\ [][Next]_vars

-------------------------------------------------------------------------------
(* Properties                                                              *)

Done == queue = <<>> /\ \A n \in Nodes : labels[n] # Unseen

(* Reference: the least set that has the node and is closed under edges    *)
(* either way.                                                             *)
Closed(set) == \A e \in edges : e.from \in set <=> e.to \in set
ComponentOf(node) ==
    {n \in Nodes : \A set \in SUBSET Nodes : (node \in set /\ Closed(set)) => n \in set}

(* Labels go from 1 to the last one given; no node is queued twice, and    *)
(* whoever is queued bears the label that is being given.                  *)
TypeOK ==
    /\ edges \subseteq Ends
    /\ next \in 0..Size
    /\ labels \in [Nodes -> 0..next]
    /\ queue \in Seq(Nodes)
    /\ \A i, j \in DOMAIN queue : queue[i] = queue[j] => i = j
    /\ \A i \in DOMAIN queue : labels[queue[i]] = next

(* At the end two nodes have one label exactly when they are in one        *)
(* component, every label up to the count is borne, and labels grow with   *)
(* the least node of a component (connectivity.go:13).                     *)
LabelsAreComponents ==
    Done =>
        /\ \A m, n \in Nodes : labels[m] = labels[n] <=> n \in ComponentOf(m)
        /\ {labels[n] : n \in Nodes} = 1..next
        /\ \A m, n \in Nodes :
               (\A k \in Nodes : k < n => labels[k] # labels[n]) /\ m < n
                   => labels[m] < labels[n]

===============================================================================
