---------------------------- MODULE IncidentService ---------------------------
(***************************************************************************)
(* The requests that change incidents, and the answers given about them.   *)
(* A behaviour is about one or the other: the answers depend on one        *)
(* listing, which the store makes in one step, so they do not interleave   *)
(* with the requests.  The variables of the other part stay as they were   *)
(* at the start.                                                           *)
(***************************************************************************)
EXTENDS IncidentStore

CONSTANTS
    Candidates,     \* the incidents, with all their fields, one may ask about
    EdgeIds,        \* the edges one may ask about
    Times,          \* the times one may ask about
    MaxIncidents    \* bound: no more than this many incidents are listed

VARIABLES
    part,                                       \* "requests" or "answers"
    listed, sorted, report, dominant            \* of IncidentResolver

A == INSTANCE IncidentResolver WITH Instants <- Times, store <- listed

ASSUME AnswersAssumption == A!ResolverAssumption

ServiceInit ==
    /\ part \in {"requests", "answers"}
    /\ Init
    /\ A!Init

Change ==
    /\ part = "requests"
    /\ Next
    /\ UNCHANGED <<part, listed, sorted, report, dominant>>

Ask ==
    /\ part = "answers"
    /\ A!Next
    /\ UNCHANGED <<part, vars>>

ServiceSpec == ServiceInit /\ [][Change \/ Ask]_<<part, vars, A!vars>>

-------------------------------------------------------------------------------
(* Properties                                                              *)

(* The conflict report names every two incidents that route search would   *)
(* apply to one edge at that time, and nothing else.                       *)
ReportIsWhole == A!ReportIsWhole

(* The dominant incident is the first by priority, then by age, of those   *)
(* that route search would apply, and sorted listings are in that order.   *)
DominantIsFirst == A!TypeOK /\ A!DominantIsFirst

(* Incidents reported as a conflict have windows that overlap.             *)
ConflictsOverlap == A!ConflictsOverlap

===============================================================================
