----------------------------- MODULE RoadNetwork ------------------------------
(***************************************************************************)
(* A pinned snapshot of a road network with the incidents on it, and what  *)
(* it costs to enter an edge at a given time: the part of the domain that  *)
(* route search, isochrones and alternative routes share.                  *)
(*                                                                         *)
(* A network is a record [nodes, edges, incidents].  Times and durations   *)
(* are whole seconds, a speed factor is a fraction [num, den]; networks    *)
(* are chosen so that the divisions are exact.  Abstracted: locations,     *)
(* lengths, capacities, vehicle classes (a rule applies to a mode in a     *)
(* window), and the order of incidents on one edge: a closure refuses the  *)
(* edge and factors multiply whatever their priority (see EdgeCosts).      *)
(***************************************************************************)
EXTENDS Integers, Sequences, FiniteSets, FiniteSetsExt

(* What imports and the creation of incidents have seen to: durations and  *)
(* speed factors are not negative, edges join known nodes.                 *)
WellFormed(network) ==
    /\ IsFiniteSet(network.nodes) /\ IsFiniteSet(network.incidents)
    /\ \A i \in network.incidents : i.factor.num \in Nat /\ i.factor.den \in Nat
    /\ \A e \in network.edges :
          e.base \in Nat /\ {e.from, e.to} \subseteq network.nodes

Always == 0     \* the zero time: a window that does not start or end

Contains(window, at) ==
    /\ window.start # Always => window.start <= at
    /\ window.end # Always => at <= window.end

(* Outgoing of a snapshot.  The lists are sorted by id in NewSnapshot and  *)
(* are in any order in the snapshots KRoutes makes.                        *)
Outgoing(network, node) == {e \in network.edges : e.from = node}

-------------------------------------------------------------------------------
(* Eligibility and cost                                                    *)

(* The first rule that applies decides.                                    *)
Supports(edge, mode, at) ==
    LET Applies(rule) == rule.mode = mode /\ Contains(rule.window, at)
        applying == SelectSeq(edge.rules, Applies)
    IN /\ mode \in edge.modes
       /\ applying # <<>> => Head(applying).allowed

Affecting(network, edge, at) ==
    {i \in network.incidents : /\ i.status = "active"
                               /\ edge.id \in i.edges
                               /\ Contains(i.window, at)}

(* What depends on the edge alone.                                         *)
Usable(request, edge, at) ==
    /\ Supports(edge, request.mode, at)
    /\ ~ (request.avoidTolls /\ edge.toll > 0)
    /\ request.maxSlope > 0 => edge.slope \in (- request.maxSlope) .. request.maxSlope

Allowed(network, request, edge, at) ==
    /\ Usable(request, edge, at)
    /\ \A i \in Affecting(network, edge, at) : ~ i.closed

(* A factor of zero is no factor.                                          *)
Slowed(incident, seconds) ==
    IF incident.factor.num > 0
    THEN (seconds * incident.factor.den) \div incident.factor.num
    ELSE seconds

Seconds(network, edge, at) ==
    FoldSet(Slowed, edge.base, Affecting(network, edge, at))

-------------------------------------------------------------------------------
(* Reference: when one is where on a path, a sequence of edges.            *)

TimesAlong(network, request, path) ==
    LET time[i \in 0 .. Len(path)] ==
          IF i = 0 THEN request.departure
          ELSE time[i - 1] + Seconds(network, path[i], time[i - 1])
    IN time

(* The path can be driven: it begins at the origin, each edge where the    *)
(* last one ends, and each is open when it is entered.                     *)
Drivable(network, request, path) ==
    \A i \in 1 .. Len(path) :
        /\ path[i] \in network.edges
        /\ path[i].from = IF i = 1 THEN request.from ELSE path[i - 1].to
        /\ Allowed(network, request, path[i], TimesAlong(network, request, path)[i - 1])

(* Reference: where one can be, and when, on any walk without waiting.     *)

Arrivals(network, request, last) ==
    LET Onward(place) ==
          {[node |-> e.to, time |-> place.time + Seconds(network, e, place.time)]
           : e \in {m \in Outgoing(network, place.node) :
                       /\ Allowed(network, request, m, place.time)
                       /\ place.time + Seconds(network, m, place.time) <= last}}
        after[legs \in Nat] ==     \* the places reached over at most so many edges
          IF legs = 0
          THEN {[node |-> request.from, time |-> request.departure]}
          ELSE LET before == after[legs - 1] IN
               before \union UNION {Onward(place) : place \in before}
    IN after[last - request.departure]

(* Entering an edge later never makes one leave it earlier.  The searches  *)
(* keep one label per node and rely on it.                                 *)
NoOvertaking(network, request, last) ==
    \A e \in network.edges, t \in request.departure .. (last - 1) :
        Allowed(network, request, e, t + 1) =>
            /\ Allowed(network, request, e, t)
            /\ t + Seconds(network, e, t) <= t + 1 + Seconds(network, e, t + 1)

===============================================================================
