------------------------------- MODULE MCTables -------------------------------
(***************************************************************************)
(* The tables in memory, each with its lock or without: the route cache,   *)
(* the TTL cache, a tenant's quota, observations and events.  They do not  *)
(* share state, so a behaviour is one of the part it begins with, and the  *)
(* others stand still.                                                     *)
(***************************************************************************)
EXTENDS RouteCache, TTLCache, TenantQuota, TrafficAnalytics, TLC

CONSTANTS c1, c2, r1, r2, r3

VARIABLE part

vars == <<part, routingVars, ttlVars, quotaVars, trafficVars>>

Init ==
    /\ part \in {"routes", "ttl", "quota", "index", "counter"}
    /\ RoutingInit
    /\ TTLInit
    /\ QuotaInit
    /\ TrafficInit

Next ==
    \/ part = "routes" /\ RoutingNext /\ UNCHANGED <<part, ttlVars, quotaVars, trafficVars>>
    \/ part = "ttl" /\ TTLNext /\ UNCHANGED <<part, routingVars, quotaVars, trafficVars>>
    \/ part = "quota" /\ QuotaNext /\ UNCHANGED <<part, routingVars, ttlVars, trafficVars>>
    \/ /\ part \in {"index", "counter"}
       /\ TrafficNext
       /\ part = "index" => UNCHANGED counterVars
       /\ part = "counter" => UNCHANGED indexVars
       /\ UNCHANGED <<part, routingVars, ttlVars, quotaVars>>

Spec == Init /\ [][Next]_vars

Symmetry == Permutations({c1, c2}) \union Permutations({r1, r2, r3})

(* Two registrations that may overlap or follow each other, of a budget of *)
(* one request per period: the one has a rate above it, the other exempts  *)
(* and has a rate of zero, which is raised to 1 and binds when a window    *)
(* meets two periods or two budgets.                                       *)
SomePolicies == <<
    [cap |-> 1, rate |-> 2, exempt |-> FALSE],
    [cap |-> 1, rate |-> 0, exempt |-> TRUE]>>

Calls == 1 .. 2

===============================================================================
