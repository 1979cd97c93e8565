----------------------------- MODULE MCIncidents ------------------------------
(***************************************************************************)
(* The incidents of TLC: two that requests change, and seven to ask about. *)
(***************************************************************************)
EXTENDS IncidentService, TLC

CONSTANTS i1, i2, h1, h2

Symmetry == Permutations({i1, i2}) \union Permutations({h1, h2})

Record(id, edges, status, start, end, priority, created) ==
    [id |-> id, edges |-> edges, status |-> status,
     window |-> [start |-> start, end |-> end],
     priority |-> priority, created |-> created]

(* Open and closed windows that meet, touch or miss each other; priorities *)
(* and creation times that tie; incidents on one edge, the other, or both. *)
SomeIncidents == {
    Record("i1", {"e1"}, "active", 1, 3, 1, 2),
    Record("i2", {"e1", "e2"}, "active", 2, 0, 1, 1),
    Record("i3", {"e2"}, "active", 0, 2, 0, 1),
    Record("i4", {"e1"}, "active", 0, 0, 1, 1),
    Record("i5", {"e1", "e2"}, "active", 3, 3, 2, 3),
    Record("i6", {"e1", "e2"}, "draft", 0, 0, 3, 1),
    Record("i7", {"e2"}, "active", 1, 1, 0, 2)}

MCEdgeIds == {"e1", "e2"}
MCTimes == 1..3

===============================================================================
