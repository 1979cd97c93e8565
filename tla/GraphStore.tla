------------------------------ MODULE GraphStore ------------------------------
(***************************************************************************)
(* Datasets and their graphs in the memory store: CreateDataset, imports,  *)
(* and the report ValidateGraph makes of a graph.                          *)
(*                                                                         *)
(* A graph is given as a record of two sequences: nodes [id, located] and  *)
(* edges [id, from, to, sized, finite, modes].  "located" stands for the   *)
(* checks of coordinates, "sized" for that neither length nor duration is  *)
(* zero or below, which a length that is not a number passes, "finite" for *)
(* that the length is a number and not infinite.  The handler gives every  *)
(* node and edge the dataset of the request's path, so none belongs to     *)
(* another; a dataset without a name is refused and changes nothing.       *)
(***************************************************************************)
EXTENDS Naturals, Sequences, SequencesExt, FiniteSetsExt

CONSTANTS
    Datasets,   \* ids of datasets, created or not
    Lists,      \* the graphs the store and the report may be given
    Modes,      \* the modes an edge may support
    NoGraph,    \* what a dataset has before its first import
    MaxImports  \* bound: imports accepted in all

ASSUME MaxImportsAssumption == MaxImports \in Nat
ASSUME ListsAssumption ==
    \A lists \in Lists : /\ lists.nodes \in Seq(ToSet(lists.nodes))
                         /\ lists.edges \in Seq(ToSet(lists.edges))

(* The bodies clients may import: JSON has finite numbers only.            *)
Imports == {lists \in Lists : \A i \in DOMAIN lists.edges : lists.edges[i].finite}

ASSUME NoGraphAssumption ==
    NoGraph \notin [nodes : SUBSET UNION {ToSet(import.nodes) : import \in Imports},
                    edges : SUBSET UNION {ToSet(import.edges) : import \in Imports},
                    version : Nat]

VARIABLES
    version,    \* Version of each dataset, 0 while it does not exist
    graph,      \* the graph of each dataset: [nodes, edges, version]
    accepted    \* history: the imports accepted for each dataset

storeVars == <<version, graph, accepted>>

StoreInit ==
    /\ version = [d \in Datasets |-> 0]
    /\ graph = [d \in Datasets |-> NoGraph]
    /\ accepted = [d \in Datasets |-> <<>>]

-------------------------------------------------------------------------------
(* Node.Validate and Edge.Validate                                         *)

ValidNode(node) == node.located

ValidEdge(edge) ==
    /\ edge.from # edge.to
    /\ edge.sized
    /\ edge.modes # {} /\ edge.modes \subseteq Modes

Ids(items) == {items[i].id : i \in DOMAIN items}

Repeated(items, i) == \E j \in 1 .. (i - 1) : items[j].id = items[i].id

(* What PutGraph answers at one node, at one edge; "ok" lets it go on.     *)
NodeAnswer(import, i) ==
    IF ~ ValidNode(import.nodes[i]) THEN "operation_failed"
    ELSE IF Repeated(import.nodes, i) THEN "conflict"
    ELSE "ok"

(* Fault: only the origin is looked up.                                     *)
FaultHasEnds(import, edge) == edge.from \in Ids(import.nodes)

HasEnds(import, edge) == {edge.from, edge.to} \subseteq Ids(import.nodes)

EdgeAnswer(import, i) ==
    IF ~ ValidEdge(import.edges[i]) \/ ~ HasEnds(import, import.edges[i])
    THEN "operation_failed"
    ELSE IF Repeated(import.edges, i) THEN "conflict"
    ELSE "ok"

(* The first problem met ends the import.                                  *)
PutAnswer(import) ==
    LET answers == [i \in DOMAIN import.nodes |-> NodeAnswer(import, i)]
                   \o [i \in DOMAIN import.edges |-> EdgeAnswer(import, i)]
        refusals == {i \in DOMAIN answers : answers[i] # "ok"}
    IN IF refusals = {} THEN "ok" ELSE answers[Min(refusals)]

(* The issues ValidateGraph reports of lists of nodes and edges.           *)
Issues(import) ==
    UNION {
        {<<"duplicate_node", i>> : i \in {j \in DOMAIN import.nodes : Repeated(import.nodes, j)}},
        {<<"invalid_node", i>> : i \in {j \in DOMAIN import.nodes : ~ ValidNode(import.nodes[j])}},
        {<<"duplicate_edge", i>> : i \in {j \in DOMAIN import.edges : Repeated(import.edges, j)}},
        {<<"missing_origin", i>> : i \in {j \in DOMAIN import.edges :
                                            import.edges[j].from \notin Ids(import.nodes)}},
        {<<"missing_destination", i>> : i \in {j \in DOMAIN import.edges :
                                            import.edges[j].to \notin Ids(import.nodes)}},
        {<<"invalid_edge", i>> : i \in {j \in DOMAIN import.edges : ~ ValidEdge(import.edges[j])}},
        {<<"invalid_length", i>> : i \in {j \in DOMAIN import.edges : ~ import.edges[j].finite}}}

-------------------------------------------------------------------------------
(* The store                                                               *)

CreateDataset(d) ==
    /\ version[d] = 0
    /\ version' = [version EXCEPT ![d] = 1]
    /\ UNCHANGED <<graph, accepted>>

(* Fault: the new graph is numbered from the dataset, which counts from 1   *)
(* before there is a graph.                                                 *)
FaultNextVersion(d) == version[d] + 1

NextVersion(d) == IF graph[d] = NoGraph THEN 1 ELSE graph[d].version + 1

(* The maps PutGraph fills, as sets.                                       *)
Installed(d, import) ==
    [nodes |-> ToSet(import.nodes), edges |-> ToSet(import.edges), version |-> NextVersion(d)]

Imported == FoldSet(LAMBDA d, sum : sum + Len(accepted[d]), 0, Datasets)

(* The answer to an import; a refused one changes nothing.                 *)
Answer(d, import) == IF version[d] = 0 THEN "not_found" ELSE PutAnswer(import)

PutGraph(d, import) ==
    /\ Imported < MaxImports
    /\ IF Answer(d, import) = "ok"
       THEN /\ graph' = [graph EXCEPT ![d] = Installed(d, import)]
            /\ version' = [version EXCEPT ![d] = NextVersion(d)]
            /\ accepted' = [accepted EXCEPT ![d] = Append(@, import)]
       ELSE UNCHANGED storeVars

(* What Graph lists, in some order.                                        *)
Graph(d) == [nodes |-> SetToSeq(graph[d].nodes), edges |-> SetToSeq(graph[d].edges)]

StoreNext ==
    \E d \in Datasets : CreateDataset(d) \/ \E import \in Imports : PutGraph(d, import)

StoreSpec == StoreInit /\ [][StoreNext]_storeVars

-------------------------------------------------------------------------------
(* Properties                                                              *)

(* Store.PutGraph: a dataset's graph is exactly what the last accepted     *)
(* import listed, every edge between two of its nodes and every id there   *)
(* once; a refused import leaves nothing behind; and graph and dataset     *)
(* count the accepted imports.                                             *)
GraphsAreImports ==
    \A d \in Datasets :
        /\ graph[d] = NoGraph <=> accepted[d] = <<>>
        /\ accepted[d] # <<>> =>
              LET import == Last(accepted[d]) IN
              /\ graph[d].nodes = ToSet(import.nodes)
              /\ graph[d].edges = ToSet(import.edges)
              /\ \A e \in graph[d].edges : e.from # e.to /\ {e.from, e.to} \subseteq {n.id : n \in graph[d].nodes}
              /\ \A m, n \in graph[d].nodes : m.id = n.id => m = n
              /\ \A e, f \in graph[d].edges : e.id = f.id => e = f
              /\ version[d] = Len(accepted[d])
              /\ graph[d].version = Len(accepted[d])

(* PutGraph and ValidateGraph check the same things in different ways, but *)
(* for a length that is not finite, which only ValidateGraph finds wrong:  *)
(* what is given to a dataset that exists is refused if and only if a      *)
(* report of it would have another issue.  Of what clients can import it   *)
(* would have no such issue, and the report of a stored graph has none.    *)
RefusedForAReason ==
    \A d \in Datasets :
        /\ version[d] # 0 =>
              /\ \A lists \in Lists :
                    Answer(d, lists) # "ok" <=> \E issue \in Issues(lists) : issue[1] # "invalid_length"
              /\ \A import \in Imports : Answer(d, import) # "ok" <=> Issues(import) # {}
        /\ graph[d] # NoGraph => Issues(Graph(d)) = {}

===============================================================================
