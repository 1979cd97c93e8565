------------------------------ MODULE MCNetworks ------------------------------
(***************************************************************************)
(* Networks for TLC: a diamond A-B-D, A-C-D with a shortcut from B to C, a *)
(* way back from C to A and a slow edge from A to D, under several costs,  *)
(* incidents, rules and requests.                                          *)
(***************************************************************************)
LOCAL INSTANCE Integers

Window(start, end) == [start |-> start, end |-> end]

Edge(from, to, base) ==
    [id |-> <<from, to>>, from |-> from, to |-> to, base |-> base,
     toll |-> 0, slope |-> 0, modes |-> {"drive"}, rules |-> <<>>]

Towns == {"A", "B", "C", "D"}

Roads(ab, ac, bd, cd) ==
    {Edge("A", "B", ab), Edge("A", "C", ac), Edge("B", "D", bd), Edge("C", "D", cd),
     Edge("B", "C", 2), Edge("C", "A", 2), Edge("A", "D", 8)}

Incident(road, window, closed, num, den) ==
    [edges |-> {road}, status |-> "active", window |-> window, closed |-> closed,
     factor |-> [num |-> num, den |-> den]]

(* A closure and a slow-down for good, both for a while, a factor of zero, *)
(* a draft, and two slow-downs at once.                                    *)
Incidents == {
    {},
    {Incident(<<"B", "D">>, Window(0, 0), TRUE, 0, 1)},
    {Incident(<<"C", "D">>, Window(0, 4), TRUE, 0, 1)},
    {Incident(<<"C", "D">>, Window(4, 0), FALSE, 1, 2)},
    {Incident(<<"A", "B">>, Window(0, 2), FALSE, 1, 2)},
    {Incident(<<"B", "D">>, Window(3, 4), FALSE, 0, 1)},
    {[Incident(<<"B", "D">>, Window(0, 0), TRUE, 0, 1) EXCEPT !.status = "draft"]},
    {Incident(<<"A", "C">>, Window(0, 0), FALSE, 1, 2),
     Incident(<<"A", "C">>, Window(0, 3), FALSE, 1, 3)}}

Request(from, to) ==
    [from |-> from, to |-> to, mode |-> "drive", departure |-> 1,
     avoidTolls |-> FALSE, maxSlope |-> 0]

Costs == {1, 3}

UnderIncidents ==
    {[nodes |-> Towns, edges |-> Roads(ab, ac, bd, cd), incidents |-> i]
     : ab \in Costs, ac \in Costs, bd \in Costs, cd \in Costs, i \in Incidents}

(* Tolls, slopes, modes and rules, each on one of the ways to D.           *)
Restricted ==
    LET plain == Roads(1, 1, 1, 3)
        Change(from, to, new) == {e \in plain : e.id # <<from, to>>} \union {new}
        Rule(window, allowed) == [mode |-> "drive", window |-> window, allowed |-> allowed]
        bd == Edge("B", "D", 1)
    IN {[nodes |-> Towns, edges |-> Change("B", "D", new), incidents |-> {}] : new \in {
          [bd EXCEPT !.toll = 5],
          [bd EXCEPT !.slope = 9],
          [bd EXCEPT !.slope = -9],
          [bd EXCEPT !.modes = {"walk"}],
          [bd EXCEPT !.rules = <<Rule(Window(0, 3), FALSE), Rule(Window(0, 0), TRUE)>>],
          [bd EXCEPT !.rules = <<Rule(Window(3, 9), TRUE), Rule(Window(0, 0), FALSE)>>]}}

(* E is reached over a bridge that opens when the fastest way to it is     *)
(* already there and a slower one is not.                                  *)
Bridge ==
    {[nodes |-> Towns \union {"E"},
      edges |-> Roads(1, 3, 1, 3) \union {Edge("D", "E", 1)},
      incidents |-> {Incident(<<"D", "E">>, window, TRUE, 0, 1)}]
     : window \in {Window(0, 4), Window(0, 20), Window(4, 0)}}

===============================================================================
