--------------------------- MODULE IncidentResolver ---------------------------
(***************************************************************************)
(* Which incident counts where several are in force: the listing sorted by *)
(* priority, the conflict report and the dominant incident of an edge.     *)
(*                                                                         *)
(* An incident is a record [id, edges, status, window, priority, created]. *)
(* The store hands out its incidents by priority, those of one priority in *)
(* the order of a map, so two requests on an unchanged store may see       *)
(* different lists.  Abstracted: the order in which conflicts and their    *)
(* edges are written out.  How statuses change is in IncidentStore.        *)
(***************************************************************************)
EXTENDS RoadNetwork, Functions

CONSTANTS
    Candidates,     \* the incidents that may be created
    EdgeIds,        \* the edges one may ask about
    Instants,       \* the times one may ask about
    MaxIncidents    \* bound: no more than this many incidents are created

ResolverAssumption ==
    /\ Instants \subseteq Nat \ {Always}
    /\ MaxIncidents \in Nat
    /\ \A i, j \in Candidates : i.id = j.id => i = j
    /\ \A i \in Candidates : i.priority \in Int /\ i.created \in Nat /\ i.edges \subseteq EdgeIds

VARIABLES
    store,      \* the incidents of the dataset
    sorted,     \* the last answer of ListIncidentsSorted, or NoAnswer
    report,     \* the last answer of IncidentConflicts, [at, conflicts]
    dominant    \* the last answer of Dominant, [edge, at, found, listed]

vars == <<store, sorted, report, dominant>>

-------------------------------------------------------------------------------
(* A zero time stands for a question nobody has asked yet.                 *)
NoAnswer == <<>>
NoReport == [at |-> Always, conflicts |-> {}]
NoDominant == [edge |-> "none", at |-> Always, found |-> {}, listed |-> <<>>]

(* ListIncidents: every order of the store in which priorities descend.    *)
Listings ==
    LET places == 1 .. Cardinality(store) IN
    {list \in Bijection(places, store) :
        \A i, j \in places : i < j => list[i].priority >= list[j].priority}

InForce(incident, at) ==
    /\ incident.status = "active"
    /\ Contains(incident.window, at)

(* Fault: the younger of two incidents of one priority goes first.          *)
FaultBefore(a, b) ==
    \/ a.priority > b.priority
    \/ a.priority = b.priority /\ a.created > b.created

Before(a, b) ==
    \/ a.priority > b.priority
    \/ a.priority = b.priority /\ a.created < b.created

(* The stable sort: an item's place is given by the items ahead of it.     *)
SortByPriority(items) ==
    LET Ahead(i, j) ==
            \/ Before(items[i], items[j])
            \/ ~ Before(items[j], items[i]) /\ i < j
        Place(j) == 1 + Cardinality({i \in DOMAIN items : Ahead(i, j)})
    IN [k \in DOMAIN items |-> items[CHOOSE j \in DOMAIN items : Place(j) = k]]

WindowsOverlap(a, b) ==
    \/ a.start = Always
    \/ b.start = Always
    \/ a.end >= b.start /\ b.end >= a.start

SharedEdges(a, b) == a.edges \intersect b.edges

Conflict(left, right) ==
    [left |-> left.id, right |-> right.id,
     edges |-> SharedEdges(left, right),
     overlaps |-> WindowsOverlap(left.window, right.window)]

(* Fault: an incident is compared with the next one only.                  *)
FaultPairs(places) == {p \in places \X places : p[2] = p[1] + 1}

Pairs(places) == {p \in places \X places : p[1] < p[2]}

(* The two loops over the incidents in force.                              *)
Conflicts(items, at) ==
    LET active == {k \in DOMAIN items : InForce(items[k], at)}
    IN {c \in {Conflict(items[p[1]], items[p[2]]) : p \in Pairs(active)} : c.edges # {}}

(* EligibilitySnapshot.ActiveFor, each item at its place in the listing.   *)
(* The insertion sort on priority leaves what is in order, as a listing    *)
(* is, as it is.                                                           *)
ActiveFor(items, edge, at) ==
    [k \in {k \in DOMAIN items : InForce(items[k], at) /\ edge \in items[k].edges} |-> items[k]]

FirstOf(list) == list[Min(DOMAIN list)]

(* The first incident in force on the edge, or none.                       *)
Dominant(items, edge, at) ==
    LET affecting == ActiveFor(SortByPriority(items), edge, at)
    IN IF DOMAIN affecting = {} THEN {} ELSE {FirstOf(affecting)}

-------------------------------------------------------------------------------
Init ==
    /\ store = {}
    /\ sorted = NoAnswer
    /\ report = NoReport
    /\ dominant = NoDominant

(* POST /incidents.  Answers about the store as it was are forgotten.      *)
CreateIncident(i) ==
    /\ Cardinality(store) < MaxIncidents
    /\ i.id \notin {j.id : j \in store}
    /\ store' = store \union {i}
    /\ sorted' = NoAnswer
    /\ report' = NoReport
    /\ dominant' = NoDominant

ListIncidentsSorted ==
    /\ \E items \in Listings : sorted' = SortByPriority(items)
    /\ UNCHANGED <<store, report, dominant>>

(* GET /incidents/conflicts.                                               *)
IncidentConflicts(at) ==
    /\ \E items \in Listings :
           report' = [at |-> at, conflicts |-> Conflicts(items, at)]
    /\ UNCHANGED <<store, sorted, dominant>>

(* Resolver.Dominant on a listing.                                         *)
AskDominant(edge, at) ==
    /\ \E items \in Listings :
           dominant' = [edge |-> edge, at |-> at,
                        found |-> Dominant(items, edge, at), listed |-> items]
    /\ UNCHANGED <<store, sorted, report>>

Next ==
    \/ \E i \in Candidates : CreateIncident(i)
    \/ ListIncidentsSorted
    \/ \E at \in Instants : IncidentConflicts(at)
    \/ \E edge \in EdgeIds, at \in Instants : AskDominant(edge, at)

Spec == Init /\ [][Next]_vars

-------------------------------------------------------------------------------
(* Properties                                                              *)

(* The state is of the kinds the declarations say, and a listing that was  *)
(* sorted holds the incidents of the store, nobody behind one of a lower   *)
(* priority, or of the same and created later, in whatever order the map   *)
(* gave them (resolver.go:31).                                             *)
TypeOK ==
    /\ store \subseteq Candidates
    /\ sorted # NoAnswer => {sorted[i] : i \in DOMAIN sorted} = store
    /\ \A i, j \in DOMAIN sorted :
        i < j => \/ sorted[i].priority > sorted[j].priority
                 \/ /\ sorted[i].priority = sorted[j].priority
                    /\ sorted[i].created <= sorted[j].created
    /\ report.at \in Instants \union {Always}
    /\ dominant.at \in Instants \union {Always}
    /\ dominant.found \subseteq store

(* The conflict report has every two incidents that route search would     *)
(* apply to one edge at that time, once, in one order or the other, with   *)
(* all the edges they share, and nothing else (resolver.go:44).            *)
ReportIsWhole ==
    LET Shared(i, j) ==
            {e \in EdgeIds : {i, j} \subseteq
                Affecting([incidents |-> store], [id |-> e], report.at)}
        Between(i, j) ==
            {c \in report.conflicts : {c.left, c.right} = {i.id, j.id}}
    IN report.at # Always =>
        /\ \A i, j \in store : (i # j /\ Shared(i, j) # {}) =>
               /\ Cardinality(Between(i, j)) = 1
               /\ \A c \in Between(i, j) : c.edges = Shared(i, j)
        /\ \A c \in report.conflicts :
               \E i, j \in store : /\ i # j
                                   /\ c \in Between(i, j)
                                   /\ Shared(i, j) # {}

(* resolver.go line 11: "two incidents whose effect windows and edge sets  *)
(* overlap".                                                               *)
ConflictsOverlap == \A c \in report.conflicts : c.overlaps

(* The dominant incident is one that route search applies to the edge; no  *)
(* other that it applies has a higher priority, or the same and is older;  *)
(* there is none only when route search applies none.  The first of        *)
(* ActiveFor, the third judge of the same question, has its priority       *)
(* (resolver.go:72, types.go:203, eligibility.go:21).                      *)
DominantIsFirst ==
    LET rivals == Affecting([incidents |-> store], [id |-> dominant.edge],
                            dominant.at)
        others == ActiveFor(dominant.listed, dominant.edge, dominant.at)
    IN dominant.at # Always =>
        /\ dominant.found = {} <=> rivals = {}
        /\ dominant.found \subseteq rivals
        /\ \A d \in dominant.found :
               /\ \A i \in rivals : /\ i.priority <= d.priority
                                    /\ i.priority = d.priority => d.created <= i.created
               /\ DOMAIN others # {} /\ FirstOf(others).priority = d.priority

===============================================================================
