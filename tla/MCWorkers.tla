------------------------------ MODULE MCWorkers -------------------------------
(***************************************************************************)
(* The two libraries for background work and their checkpoints, checked    *)
(* side by side: a behaviour is one of the part it begins with, and the    *)
(* others stand still.                                                     *)
(***************************************************************************)
EXTENDS WorkerPool, JobScheduler, Checkpoint

VARIABLE part

vars == <<part, poolVars, schedulerVars, checkpointVars>>

Pool(action) ==
    part = "pool" /\ ~ crashed /\ action /\ UNCHANGED <<part, schedulerVars, checkpointVars>>
Scheduler(action) ==
    part = "scheduler" /\ action /\ UNCHANGED <<part, poolVars, checkpointVars>>
Resume(action) ==
    part = "checkpoint" /\ action /\ UNCHANGED <<part, poolVars, schedulerVars>>

Init ==
    /\ part \in {"pool", "scheduler", "checkpoint"}
    /\ PoolInit
    /\ SchedulerInit
    /\ CheckpointInit

Next == Pool(PoolNext) \/ Scheduler(SchedulerNext) \/ Resume(CheckpointNext)

Spec == Init /\ [][Next]_vars

(* Every goroutine that can run does, tasks and jobs return, and a select  *)
(* that often enough finds the context done takes that case, as Go chooses *)
(* at random.  Nobody has to call Close, to push or to cancel.             *)
FairSpec ==
    /\ Spec
    /\ \A t \in Tasks : WF_vars(Pool(Submit(t)))
    /\ \A w \in Workers : WF_vars(Pool(Work(w)))
    /\ WF_vars(Pool(FinishClose))
    /\ WF_vars(Scheduler(Run))
    /\ SF_vars(Scheduler(Stop))
    /\ WF_vars(Scheduler(Goroutine))

(* Nobody waits for ever.  Of the pool: Close returns, also when Submits   *)
(* race it, unless one panics, and a Submit that waits on a full channel   *)
(* goes on.  Of the scheduler: what is queued is popped, and Run returns   *)
(* once it is cancelled, whatever is queued.                               *)
WorkEnds ==
    /\ closer = "flagged" ~> closer = "returned" \/ crashed
    /\ \A t \in Tasks : task[t] = "select" ~> task[t] # "select" \/ crashed
    /\ items # <<>> ~> items = <<>> \/ cancelled
    /\ cancelled ~> run = "returned"

===============================================================================
