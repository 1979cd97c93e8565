------------------------------- MODULE EdgeCosts ------------------------------
(***************************************************************************)
(* What it costs to enter an edge is written down several times in the     *)
(* source: EffectiveCost, which the searches use, CostCalculator with      *)
(* EdgeEligibility, and EligibilitySnapshot.  Each sorts the incidents on  *)
(* the edge and goes through them; RoadNetwork takes them as a set.  This  *)
(* module has the loops, and the claim that all of them come to one cost.  *)
(*                                                                         *)
(* Incidents have a priority and a creation time here.  An order is a      *)
(* sequence of the incidents that apply; those the sort does not tell      *)
(* apart come in any order (sort.Slice is not stable, and the list it is   *)
(* given comes from a map).  CostCalculator has no traffic estimator.      *)
(***************************************************************************)
EXTENDS RoadNetwork, Functions

MoreUrgent(a, b) == a.priority > b.priority

incidentFirst(a, b) ==
    \/ a.priority > b.priority
    \/ a.priority = b.priority /\ a.created < b.created

Orders(incidents) == Bijection(1 .. Cardinality(incidents), incidents)

ByPriority(incidents) ==
    {o \in Orders(incidents) : \A i, j \in DOMAIN o : i < j => ~ MoreUrgent(o[j], o[i])}

ByPriorityAndAge(incidents) ==
    {o \in Orders(incidents) : \A i, j \in DOMAIN o : i < j => ~ incidentFirst(o[j], o[i])}

Refused == [open |-> FALSE, num |-> 1, den |-> 1]
Base == [open |-> TRUE, num |-> 1, den |-> 1]

Factored(cost, incident) ==
    IF incident.factor.num > 0
    THEN [cost EXCEPT !.num = @ * incident.factor.num, !.den = @ * incident.factor.den]
    ELSE cost

(* Fault: a closure does not end the loop, and the next incident reopens   *)
(* the edge.                                                               *)
FaultApply(cost, incident) ==
    IF incident.closed THEN Refused ELSE [Factored(cost, incident) EXCEPT !.open = TRUE]

(* One round of the loop: the factors multiply, a closure returns.         *)
Apply(cost, incident) ==
    IF incident.closed \/ ~ cost.open THEN Refused ELSE Factored(cost, incident)

Through(order) ==
    LET after[n \in 0 .. Len(order)] == IF n = 0 THEN Base ELSE Apply(after[n - 1], order[n])
    IN after[Len(order)]

Scaled(edge, cost) == (edge.base * cost.den) \div cost.num

EffectiveCost(request, edge, at, order) ==
    IF Usable(request, edge, at) THEN Through(order) ELSE Refused

(* CostCalculator.Seconds does not look at the rules of the edge.          *)
CalculatorCost(order) == Through(order)

(* EdgeEligibility.Allowed.                                                *)
Eligible(request, edge, at, order) ==
    /\ Usable(request, edge, at)
    /\ \A i \in DOMAIN order : ~ order[i].closed

(* EligibilitySnapshot: a factor for closed edges too, closures included.  *)
SnapshotClosed(order) == \E i \in DOMAIN order : order[i].closed

EffectiveSpeedFactor(order) ==
    LET after[n \in 0 .. Len(order)] == IF n = 0 THEN Base ELSE Factored(after[n - 1], order[n])
    IN after[Len(order)]

(* Whole seconds stand for the source's floats where nothing is rounded.   *)
IsExact(network, edge, at) ==
    \A order \in Orders(Affecting(network, edge, at)) :
        edge.base % EffectiveSpeedFactor(order).num = 0

-------------------------------------------------------------------------------
(* Whatever order the incidents on an edge are gone through in, all five   *)
(* agree on whether it may be entered and on how long it takes, and with   *)
(* the cost of RoadNetwork, which has no order.                            *)
LoopsAgree(network, request, edge, at) ==
    \A order \in ByPriority(Affecting(network, edge, at)),
       aged \in ByPriorityAndAge(Affecting(network, edge, at)) :
        LET cost == EffectiveCost(request, edge, at, order)
            calculated == CalculatorCost(aged)
        IN /\ cost.open <=> Allowed(network, request, edge, at)
           /\ cost.open <=> Eligible(request, edge, at, aged)
           /\ calculated.open <=> ~ SnapshotClosed(order)
           /\ cost.open =>
                 /\ calculated.open
                 /\ Scaled(edge, cost) = Seconds(network, edge, at)
                 /\ Scaled(edge, calculated) = Seconds(network, edge, at)
                 /\ Scaled(edge, EffectiveSpeedFactor(order)) = Seconds(network, edge, at)

===============================================================================
