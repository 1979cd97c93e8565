----------------------------- MODULE JobLifecycle -----------------------------
(***************************************************************************)
(* What the analysis service promises about its jobs, without its queue,   *)
(* its worker or its request handlers: the life of each job, the set of    *)
(* jobs whose submission was answered with success, and whether the        *)
(* process still runs.  AnalysisJobs is shown to implement this module.    *)
(***************************************************************************)
CONSTANT JobIds

VARIABLES
    status,     \* what a reader of the store sees of each job
    promised,   \* the jobs whose submission was answered with success
    service     \* "open", "stopping", "stopped" or "aborted"

vars == <<status, promised, service>>

(* JobQueued, JobRunning, JobSucceeded and JobFailed of the source; a job   *)
(* that is not in the store yet is "absent".  JobCancelled exists in the    *)
(* source and nothing sets it.                                              *)
Terminal == {"succeeded", "failed"}
Statuses == {"absent", "queued", "running"} \union Terminal

Alive == service \in {"open", "stopping"}

Idle == \A j \in JobIds : status[j] # "running"

Init ==
    /\ status = [j \in JobIds |-> "absent"]
    /\ promised = {}
    /\ service = "open"

(* A submission stores the job; whether it is promised is decided later.    *)
Record(j) ==
    /\ Alive
    /\ status[j] = "absent"
    /\ status' = [status EXCEPT ![j] = "queued"]
    /\ UNCHANGED <<promised, service>>

(* The submission of a stored job is answered with success.                 *)
Promise(j) ==
    /\ Alive
    /\ status[j] = "queued"
    /\ promised' = promised \union {j}
    /\ UNCHANGED <<status, service>>

(* Only promised jobs run, one at a time.                                   *)
Start(j) ==
    /\ Alive
    /\ j \in promised
    /\ status[j] = "queued"
    /\ Idle
    /\ status' = [status EXCEPT ![j] = "running"]
    /\ UNCHANGED <<promised, service>>

Finish(j) ==
    /\ Alive
    /\ status[j] = "running"
    /\ \E outcome \in Terminal : status' = [status EXCEPT ![j] = outcome]
    /\ UNCHANGED <<promised, service>>

Stop ==
    /\ service = "open"
    /\ service' = "stopping"
    /\ UNCHANGED <<status, promised>>

(* An orderly exit leaves no job half done.                                 *)
Exit ==
    /\ service = "stopping"
    /\ Idle
    /\ service' = "stopped"
    /\ UNCHANGED <<status, promised>>

Abort ==
    /\ service = "open"
    /\ service' = "aborted"
    /\ UNCHANGED <<status, promised>>

Next ==
    \/ \E j \in JobIds : Record(j) \/ Promise(j) \/ Start(j) \/ Finish(j)
    \/ Stop
    \/ Exit
    \/ Abort

Spec == Init /\ [][Next]_vars

===============================================================================
