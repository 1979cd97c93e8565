------------------------------ MODULE MCDatasets ------------------------------
(* A batch over small datasets for TLC.                                    *)
EXTENDS BatchValidation

Node(id) == [id |-> id, located |-> TRUE]
Edge(from, to) ==
    [id |-> "e", from |-> from, to |-> to, sized |-> TRUE, finite |-> TRUE, modes |-> {"car"}]
Import(nodes, edges) == [nodes |-> nodes, edges |-> edges]

A == Node("a")
B == Node("b")
AB == Edge("a", "b")

(* Ids twice, a place off the map, edges to nowhere, from nowhere, to      *)
(* where they start, without length or mode, of a length that is not a     *)
(* number or infinite, below zero too, and two problems in one body.       *)
MCLists ==
    {Import(<<A, B>>, <<AB>>), Import(<<A>>, <<>>),
     Import(<<A, A>>, <<AB>>), Import(<<A, [B EXCEPT !.located = FALSE], A>>, <<>>),
     Import(<<A>>, <<AB>>), Import(<<B>>, <<AB>>), Import(<<A, B>>, <<Edge("a", "a")>>),
     Import(<<A, B>>, <<AB, Edge("b", "a")>>)}
    \union {Import(<<A, B>>, <<edge>>) :
              edge \in {[AB EXCEPT !.sized = FALSE], [AB EXCEPT !.finite = FALSE],
                        [AB EXCEPT !.sized = FALSE, !.finite = FALSE], [AB EXCEPT !.modes = {}],
                        [AB EXCEPT !.modes = {"car", "other"}]}}

Twice == <<"d1", "d2", "d1">>

===============================================================================
