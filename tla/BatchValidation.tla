--------------------------- MODULE BatchValidation ----------------------------
(***************************************************************************)
(* ValidateDatasetsBatch: the Dispatcher runs ValidateDataset for each id  *)
(* of a request while clients create datasets and import graphs.           *)
(*                                                                         *)
(* A report is the version of the graph it describes and whether it found  *)
(* an issue; the report of a dataset without a graph is the empty one.     *)
(***************************************************************************)
EXTENDS GraphStore, Dispatcher

ASSUME RequestAssumption == Asked \in Seq(Datasets)

VARIABLES
    report,     \* the report each worker has made and not yet stored
    results     \* the reports stored for the answer

vars == <<storeVars, dispatcherVars, report, results>>

Empty == [version |-> 0, valid |-> FALSE]
None == [version |-> 0, valid |-> TRUE]     \* no report

Init ==
    /\ StoreInit
    /\ DispatcherInit
    /\ report = [w \in Workers |-> None]
    /\ results = [d \in {} |-> None]

(* ValidateDataset: ValidateGraph on what Store.Graph lists.               *)
ReportOf(d) ==
    IF graph[d] = NoGraph
    THEN Empty
    ELSE [version |-> graph[d].version, valid |-> Issues(Graph(d)) = {}]

Validate(w) ==
    /\ worker[w] = "call"
    /\ report[w] = None
    /\ report' = [report EXCEPT ![w] = ReportOf(Asked[input[w]])]
    /\ UNCHANGED <<storeVars, dispatcherVars, results>>

(* Under the mutex of the batch; the empty report is stored too.           *)
StoreReport(w) ==
    LET d == Asked[input[w]] IN
    /\ report[w] # None
    /\ results' = [e \in DOMAIN results \union {d} |-> IF e = d THEN report[w] ELSE results[e]]
    /\ report' = [report EXCEPT ![w] = None]
    /\ Call(w, IF report[w] = Empty THEN "error" ELSE "ok")
    /\ UNCHANGED storeVars

Work(w) ==
    \/ Loop(w) /\ UNCHANGED <<storeVars, report, results>>
    \/ Validate(w)
    \/ StoreReport(w)

ScheduleBatch == Schedule /\ UNCHANGED <<storeVars, report, results>>

Next ==
    \/ StoreNext /\ UNCHANGED <<dispatcherVars, report, results>>
    \/ ScheduleBatch
    \/ \E w \in Workers : Work(w)
    \/ Cancel /\ UNCHANGED <<storeVars, report, results>>

Spec == Init /\ [][Next]_vars

(* Every goroutine that can run does, and ValidateDataset returns; nobody  *)
(* has to import or to cancel.                                             *)
FairSpec == Spec /\ WF_vars(ScheduleBatch) /\ \A w \in Workers : WF_vars(Work(w))

-------------------------------------------------------------------------------
(* Properties                                                              *)

(* batch_service.go lines 12-13, "returns a report per dataset id": what a *)
(* client gets with status 200 has a valid report of a graph that was      *)
(* imported for each id in it, never the empty one of a dataset without a  *)
(* graph, and unless the request was cancelled it has every id asked for.  *)
(* A cancelled request is answered with 200 and the reports made so far.   *)
BatchAnswersAreWhole ==
    scheduler = "returned" /\ ~ firstErr =>
        /\ \A d \in DOMAIN results :
              results[d].valid /\ results[d].version \in 1 .. Len(accepted[d])
        /\ ~ cancelled => DOMAIN results = ToSet(Asked)

(* Run returns whenever the calls do, cancelled or not: the scheduler      *)
(* never waits for workers that are gone, nor they for it.                 *)
RunReturns == <>(scheduler = "returned")

===============================================================================
