----------------------------- MODULE AnalysisJobs -----------------------------
(***************************************************************************)
(* The life of an analysis job, from the HTTP request that submits it to   *)
(* the worker that runs it, and the shutdown of the process around both.   *)
(*                                                                         *)
(* Request handlers (one goroutine per request) store a job and then offer *)
(* its id to a bounded channel without waiting; one worker goroutine takes *)
(* ids from the channel, works on its own copy of the job and writes the   *)
(* copy back to the store several times; main drains the handlers, stops   *)
(* the worker and returns.  The store is in memory and its lock makes each *)
(* of its methods one atomic step.                                         *)
(*                                                                         *)
(* Abstracted: what a job computes (a matrix is the number of pairs done), *)
(* times (only whether they were set), error texts (only their cause).     *)
(***************************************************************************)
EXTENDS Naturals, Sequences, FiniteSets, Functions

CONSTANTS
    Handlers,   \* the goroutines net/http runs requests on
    JobIds,     \* the ids newID can draw
    Datasets,   \* dataset ids a request may name
    Demo,       \* the dataset SeedDemoData installs
    Types,      \* the supported job types requests are drawn from
    QueueCap,   \* the capacity of the channel of job ids (64 in the code)
    Pairs,      \* origin-destination pairs of a well-formed matrix request
    NoJob       \* no id

ASSUME DemoAssumption == Demo \in Datasets
ASSUME TypesAssumption == Types \subseteq {"od_matrix", "isochrone", "centrality"}
ASSUME QueueCapAssumption == QueueCap \in Nat \ {0}
ASSUME PairsAssumption == Pairs \in Nat \ {0}
ASSUME NoJobAssumption == NoJob \notin JobIds

VARIABLES
    datasets,   \* the store's datasets: "absent", "draft" or "installed"
    jobs,       \* the store's jobs
    queue,      \* Service.jobs, the channel
    handler,    \* where each handler is in CreateJob
    pending,    \* the job each handler stored and has yet to enqueue
    accepted,   \* history: jobs whose submission was answered without error
    worker,     \* where the worker is in worker() and runJob()
    current,    \* the id runJob was called with
    job,        \* runJob's local copy of that job
    err,        \* runJob's local err
    examined,   \* matrix pairs analyze has examined
    ctx,        \* runJob's context: "expired" when its 30 seconds are over
    phase       \* the process, as main sees it

handlerVars == <<handler, pending, accepted>>
workerVars == <<worker, current, job, err, examined>>
vars == <<datasets, jobs, queue, handler, pending, accepted,
          worker, current, job, err, examined, ctx, phase>>

-------------------------------------------------------------------------------
(* The data                                                                *)

Terminal == {"succeeded", "failed"}

(* A request and whether its parameters make sense for its type; a         *)
(* centrality job and one the store refuses have none to get wrong.        *)
Requests == {r \in [type : Types \union {"unsupported"},
                    wellFormed : BOOLEAN, dataset : Datasets] :
                r.type \in {"centrality", "unsupported"} => r.wellFormed}

Job == [request : Requests,
        status : {"absent", "queued", "running"} \union Terminal,
        progress : {0, 5, 35, 90, 100},
        started : BOOLEAN,
        completed : BOOLEAN,
        result : {"none", "partial", "full"},
        error : {"none", "missing", "parameters", "deadline"}]

NoRequest == [type |-> "unsupported", wellFormed |-> TRUE, dataset |-> Demo]

Absent == [request |-> NoRequest, status |-> "absent", progress |-> 0,
           started |-> FALSE, completed |-> FALSE,
           result |-> "none", error |-> "none"]

Queued(request) == [Absent EXCEPT !.request = request, !.status = "queued"]

(* Fault: a submission that draws a stored id replaces the stored job.      *)
FaultStorableTwice(id, request) ==
    /\ request.type \in Types
    /\ datasets[request.dataset] # "absent"

(* AnalysisJob.Validate and the two look-ups of Store.CreateJob.           *)
Storable(id, request) ==
    /\ request.type \in Types
    /\ datasets[request.dataset] # "absent"
    /\ jobs[id].status = "absent"

Alive == phase \in {"serving", "draining", "closing"}

Init ==
    /\ datasets = [d \in Datasets |-> IF d = Demo THEN "installed" ELSE "absent"]
    /\ jobs = [j \in JobIds |-> Absent]
    /\ queue = <<>>
    /\ handler = [h \in Handlers |-> "idle"]
    /\ pending = [h \in Handlers |-> NoJob]
    /\ accepted = {}
    /\ worker = "select"
    /\ current = NoJob
    /\ job = Absent
    /\ err = "none"
    /\ examined = 0
    /\ ctx = "live"
    /\ phase = "serving"

-------------------------------------------------------------------------------
(* Datasets: the requests that a job depends on.  The handlers that serve  *)
(* them are not followed one by one.                                       *)

CreateDataset(d) ==
    /\ Alive
    /\ datasets[d] = "absent"
    /\ datasets' = [datasets EXCEPT ![d] = "draft"]
    /\ UNCHANGED <<jobs, queue, handlerVars, workerVars, ctx, phase>>

ImportGraph(d) ==
    /\ Alive
    /\ datasets[d] # "absent"
    /\ datasets' = [datasets EXCEPT ![d] = "installed"]
    /\ UNCHANGED <<jobs, queue, handlerVars, workerVars, ctx, phase>>

-------------------------------------------------------------------------------
(* Handlers: POST /v1/jobs                                                 *)

(* The server hands a request to a goroutine; it takes none after Shutdown. *)
AcceptRequest(h) ==
    /\ phase = "serving"
    /\ handler[h] = "idle"
    /\ handler' = [handler EXCEPT ![h] = "create"]
    /\ UNCHANGED <<datasets, jobs, queue, pending, accepted, workerVars, ctx, phase>>

CreateJob(h, id, request) ==
    /\ Alive
    /\ handler[h] = "create"
    /\ Storable(id, request)
    /\ jobs' = [jobs EXCEPT ![id] = Queued(request)]
    /\ handler' = [handler EXCEPT ![h] = "enqueue"]
    /\ pending' = [pending EXCEPT ![h] = id]
    /\ UNCHANGED <<datasets, queue, accepted, workerVars, ctx, phase>>

(* The store refuses some request; the handler answers with the error.     *)
RejectJob(h) ==
    /\ Alive
    /\ handler[h] = "create"
    /\ ~ \A id \in JobIds, request \in Requests : Storable(id, request)
    /\ handler' = [handler EXCEPT ![h] = "idle"]
    /\ UNCHANGED <<datasets, jobs, queue, pending, accepted, workerVars, ctx, phase>>

(* Fault: the handler goes round again after its answer.                   *)
FaultAnswer(h) == UNCHANGED <<handler, pending>>

(* The request is answered and its goroutine free.                         *)
Answer(h) ==
    /\ handler' = [handler EXCEPT ![h] = "idle"]
    /\ pending' = [pending EXCEPT ![h] = NoJob]

Enqueue(h) ==
    /\ Alive
    /\ handler[h] = "enqueue"
    /\ Len(queue) < QueueCap
    /\ queue' = Append(queue, pending[h])
    /\ accepted' = accepted \union {pending[h]}
    /\ Answer(h)
    /\ UNCHANGED <<datasets, jobs, workerVars, ctx, phase>>

(* The default branch of the select: the answer is the error "analysis     *)
(* queue full", and the job stays in the store.                            *)
QueueFull(h) ==
    /\ Alive
    /\ handler[h] = "enqueue"
    /\ Len(queue) >= QueueCap
    /\ Answer(h)
    /\ UNCHANGED <<datasets, jobs, queue, accepted, workerVars, ctx, phase>>

-------------------------------------------------------------------------------
(* The worker                                                              *)

(* UpdateJob: the store takes the worker's copy, whatever it held.         *)
Store(copy) ==
    /\ job' = copy
    /\ jobs' = [jobs EXCEPT ![current] = copy]

Receive ==
    /\ Alive
    /\ worker = "select"
    /\ queue # <<>>
    /\ current' = Head(queue)
    /\ queue' = Tail(queue)
    /\ worker' = "load"
    /\ UNCHANGED <<datasets, jobs, handlerVars, job, err, examined, ctx, phase>>

(* Fault: the worker looks at stop only when it has an id to take.          *)
FaultStopNeedsJob ==
    /\ phase = "closing"
    /\ worker = "select"
    /\ queue # <<>>
    /\ worker' = "stopped"
    /\ UNCHANGED <<datasets, jobs, queue, handlerVars, current, job, err, examined, ctx, phase>>

(* Both cases of the select may be ready after Close: either is taken.     *)
StopWorker ==
    /\ phase = "closing"
    /\ worker = "select"
    /\ worker' = "stopped"
    /\ UNCHANGED <<datasets, jobs, queue, handlerVars, current, job, err, examined, ctx, phase>>

(* GetJob.  No job is ever removed, so it finds it.                        *)
Load ==
    /\ Alive
    /\ worker = "load"
    /\ job' = jobs[current]
    /\ err' = "none"
    /\ examined' = 0
    /\ worker' = "announce"
    /\ UNCHANGED <<datasets, jobs, queue, handlerVars, current, ctx, phase>>

Announce ==
    /\ Alive
    /\ worker = "announce"
    /\ Store([job EXCEPT !.status = "running", !.started = TRUE, !.progress = 5])
    /\ worker' = "snapshot"
    /\ UNCHANGED <<datasets, queue, handlerVars, current, err, examined, ctx, phase>>

SnapshotTaken ==
    /\ Alive
    /\ worker = "snapshot"
    /\ datasets[job.request.dataset] = "installed"
    /\ worker' = "progress"
    /\ UNCHANGED <<datasets, jobs, queue, handlerVars, current, job, err, examined, ctx, phase>>

SnapshotFails ==
    /\ Alive
    /\ worker = "snapshot"
    /\ datasets[job.request.dataset] # "installed"
    /\ err' = "missing"
    /\ worker' = "finish"
    /\ UNCHANGED <<datasets, jobs, queue, handlerVars, current, job, examined, ctx, phase>>

RecordProgress ==
    /\ Alive
    /\ worker = "progress"
    /\ Store([job EXCEPT !.progress = 35])
    /\ worker' = "analyze"
    /\ UNCHANGED <<datasets, queue, handlerVars, current, err, examined, ctx, phase>>

(* analyze returns: job.Result and err are assigned together.              *)
Analyzed(result, error) ==
    /\ job' = [job EXCEPT !.result = result]
    /\ err' = error
    /\ worker' = "publish"
    /\ UNCHANGED <<datasets, jobs, queue, handlerVars, current, examined, ctx, phase>>

RefuseParameters ==
    /\ Alive
    /\ worker = "analyze"
    /\ ~ job.request.wellFormed
    /\ Analyzed("none", "parameters")

(* Centrality and isochrone jobs never look at their context.              *)
AnalyzeAtOnce ==
    /\ Alive
    /\ worker = "analyze"
    /\ job.request.type # "od_matrix"
    /\ job.request.wellFormed
    /\ Analyzed("full", "none")

InMatrixLoop ==
    /\ Alive
    /\ worker = "analyze"
    /\ job.request.type = "od_matrix"
    /\ job.request.wellFormed

(* Fault: the loop runs once too often.                                    *)
FaultMorePairs == examined <= Pairs

MorePairs == examined < Pairs

(* One pair; the context is looked at before each.                         *)
AnalyzePair ==
    /\ InMatrixLoop
    /\ MorePairs
    /\ ctx = "live"
    /\ examined' = examined + 1
    /\ UNCHANGED <<datasets, jobs, queue, handlerVars, worker, current, job, err, ctx, phase>>

(* Fault: the deadline breaks the loop and what there is counts as done.    *)
FaultPartialMatrix ==
    /\ InMatrixLoop
    /\ MorePairs
    /\ ctx = "expired"
    /\ Analyzed("partial", "none")

MatrixExpires ==
    /\ InMatrixLoop
    /\ MorePairs
    /\ ctx = "expired"
    /\ Analyzed("none", "deadline")

MatrixDone ==
    /\ InMatrixLoop
    /\ ~ MorePairs
    /\ Analyzed("full", "none")

Publish ==
    /\ Alive
    /\ worker = "publish"
    /\ Store([job EXCEPT !.progress = 90])
    /\ worker' = "finish"
    /\ UNCHANGED <<datasets, queue, handlerVars, current, err, examined, ctx, phase>>

(* Fault: the error is noted and the status forgotten.                     *)
FaultOutcome ==
    IF err = "none"
    THEN [job EXCEPT !.completed = TRUE, !.status = "succeeded", !.progress = 100]
    ELSE [job EXCEPT !.completed = TRUE, !.error = err]

Outcome ==
    IF err = "none"
    THEN [job EXCEPT !.completed = TRUE, !.status = "succeeded", !.progress = 100]
    ELSE [job EXCEPT !.completed = TRUE, !.status = "failed", !.error = err]

(* The last UpdateJob, and back to the select: runJob's locals are gone.   *)
Finish ==
    /\ Alive
    /\ worker = "finish"
    /\ jobs' = [jobs EXCEPT ![current] = Outcome]
    /\ worker' = "select"
    /\ current' = NoJob
    /\ job' = Absent
    /\ err' = "none"
    /\ examined' = 0
    /\ ctx' = "live"
    /\ UNCHANGED <<datasets, queue, handlerVars, phase>>

(* The 30 seconds of runJob's context pass.                                *)
Deadline ==
    /\ Alive
    /\ ctx = "live"
    /\ worker \notin {"select", "stopped"}
    /\ ctx' = "expired"
    /\ UNCHANGED <<datasets, jobs, queue, handlerVars, workerVars, phase>>

-------------------------------------------------------------------------------
(* The process                                                             *)

Signal ==
    /\ phase = "serving"
    /\ phase' = "draining"
    /\ UNCHANGED <<datasets, jobs, queue, handlerVars, workerVars, ctx>>

(* ListenAndServe failed: os.Exit(1), with no Close.                       *)
ServerFailed ==
    /\ phase = "serving"
    /\ phase' = "aborted"
    /\ UNCHANGED <<datasets, jobs, queue, handlerVars, workerVars, ctx>>

(* server.Shutdown returns when no request is in flight ...                *)
Drained ==
    /\ phase = "draining"
    /\ \A h \in Handlers : handler[h] = "idle"
    /\ phase' = "closing"
    /\ UNCHANGED <<datasets, jobs, queue, handlerVars, workerVars, ctx>>

(* ... or after 15 seconds, and then the handlers left run on.             *)
DrainTimeout ==
    /\ phase = "draining"
    /\ \E h \in Handlers : handler[h] # "idle"
    /\ phase' = "closing"
    /\ UNCHANGED <<datasets, jobs, queue, handlerVars, workerVars, ctx>>

(* Fault: main does not wait for the worker.                                *)
FaultExitAtOnce ==
    /\ phase = "closing"
    /\ phase' = "exited"
    /\ UNCHANGED <<datasets, jobs, queue, handlerVars, workerVars, ctx>>

(* wg.Wait() returned; main returns and ends every goroutine.              *)
Exit ==
    /\ phase = "closing"
    /\ worker = "stopped"
    /\ phase' = "exited"
    /\ UNCHANGED <<datasets, jobs, queue, handlerVars, workerVars, ctx>>

-------------------------------------------------------------------------------
HandlerStep(h) ==
    \/ \E id \in JobIds, request \in Requests : CreateJob(h, id, request)
    \/ RejectJob(h)
    \/ Enqueue(h)
    \/ QueueFull(h)

WorkerStep ==
    \/ Receive
    \/ StopWorker
    \/ Load
    \/ Announce
    \/ SnapshotTaken
    \/ SnapshotFails
    \/ RecordProgress
    \/ RefuseParameters
    \/ AnalyzeAtOnce
    \/ AnalyzePair
    \/ MatrixExpires
    \/ MatrixDone
    \/ Publish
    \/ Finish

ProcessStep ==
    \/ Signal
    \/ ServerFailed
    \/ Drained
    \/ DrainTimeout
    \/ Exit

Next ==
    \/ \E d \in Datasets : CreateDataset(d) \/ ImportGraph(d)
    \/ \E h \in Handlers : AcceptRequest(h) \/ HandlerStep(h)
    \/ WorkerStep
    \/ Deadline
    \/ ProcessStep

Spec == Init /\ [][Next]_vars

(* The scheduler runs the worker and main whenever they can take a step,   *)
(* and the timer of Shutdown fires.  Nothing makes a client, a signal, a   *)
(* failure or the 30 seconds of a job happen, and handlers may take any    *)
(* time.                                                                   *)
Fairness ==
    /\ WF_vars(WorkerStep)
    /\ WF_vars(Drained \/ DrainTimeout)
    /\ WF_vars(Exit)

FairSpec == Spec /\ Fairness

(* Handlers run too.                                                       *)
AllFairSpec == FairSpec /\ \A h \in Handlers : WF_vars(HandlerStep(h))

-------------------------------------------------------------------------------
(* Properties                                                              *)

(* Every variable has its type.                                            *)
TypeOK ==
    /\ datasets \in [Datasets -> {"absent", "draft", "installed"}]
    /\ jobs \in [JobIds -> Job]
    /\ queue \in Seq(JobIds)
    /\ handler \in [Handlers -> {"idle", "create", "enqueue"}]
    /\ pending \in [Handlers -> JobIds \union {NoJob}]
    /\ accepted \subseteq JobIds
    /\ worker \in {"select", "load", "announce", "snapshot", "progress",
                   "analyze", "publish", "finish", "stopped"}
    /\ current \in JobIds \union {NoJob}
    /\ job \in Job
    /\ err \in {"none", "missing", "parameters", "deadline"}
    /\ examined \in 0..Pairs
    /\ ctx \in {"live", "expired"}
    /\ phase \in {"serving", "draining", "closing", "exited", "aborted"}

(* The ids the channel still holds and the one the worker took without     *)
(* having announced it are exactly the accepted jobs that read "queued":   *)
(* an accepted job is never lost on its way to the worker, whichever order *)
(* the store, the channel and the worker are stepped in.                   *)
Taken == IF worker \in {"load", "announce"} THEN {current} ELSE {}

AcceptedJobsAreHeld ==
    {j \in accepted : jobs[j].status = "queued"} = Range(queue) \union Taken

(* No id is twice in the channel, none is there while the worker holds it: *)
(* no job can run twice.                                                   *)
NoJobRunsTwice ==
    /\ IsInjective(queue)
    /\ Taken \intersect Range(queue) = {}

(* A job reads "running" exactly while the worker is inside runJob with    *)
(* it, between its first and its last UpdateJob.                           *)
RunningJobs == {j \in JobIds : jobs[j].status = "running"}

RunningIsTheWorkers ==
    RunningJobs = IF worker \in {"snapshot", "progress", "analyze", "publish", "finish"}
                  THEN {current} ELSE {}

(* What a client that polls a finished job may rely on: success comes with *)
(* the whole result and no error, failure with an error and no result, and *)
(* neither end is announced before the completion time is set.             *)
OutcomesAreWhole ==
    \A j \in JobIds :
        /\ jobs[j].status = "succeeded" =>
              /\ jobs[j].result = "full"
              /\ jobs[j].error = "none"
              /\ jobs[j].progress = 100
        /\ jobs[j].status = "failed" =>
              /\ jobs[j].result = "none"
              /\ jobs[j].error # "none"
        /\ jobs[j].completed <=> jobs[j].status \in Terminal
        /\ jobs[j].status \in Terminal => jobs[j].started

(* A finished job is never written again, by a worker that reruns it or by *)
(* a submission that draws the same id.                                    *)
TerminalIsFinal ==
    [][\A j \in JobIds : jobs[j].status \in Terminal => jobs'[j] = jobs[j]]_vars

(* The service implements the abstract life of its jobs: only accepted     *)
(* jobs run, each once, one at a time, and an orderly exit leaves no job   *)
(* half done although handlers may still be running.                       *)
Lifecycle == INSTANCE JobLifecycle WITH
    status <- [j \in JobIds |-> jobs[j].status],
    promised <- accepted,
    service <- CASE phase = "serving" -> "open"
                 [] phase \in {"draining", "closing"} -> "stopping"
                 [] phase = "exited" -> "stopped"
                 [] phase = "aborted" -> "aborted"

LifecycleSpec == Lifecycle!Spec

(* A job whose submission was answered with success is finished, unless    *)
(* the process is told to stop first.                                      *)
AcceptedJobsFinish ==
    \A j \in JobIds :
        j \in accepted ~> (jobs[j].status \in Terminal \/ phase # "serving")

(* A signal ends the process, whatever the handlers and the worker are at. *)
ShutdownCompletes == phase = "draining" ~> phase = "exited"

(* README.md line 54, "jobs are bounded to 30 seconds": a job whose time   *)
(* was over before its analysis began does not succeed.                    *)
DeadlineBoundsAnalysis ==
    [][ctx = "expired" /\ worker = "analyze" /\ examined = 0 /\ worker' = "publish"
          => err' # "none"]_vars

(* README.md line 54, "Job: queued -> running -> succeeded|failed": a job  *)
(* in the store goes on from "queued" unless the process stops.            *)
QueuedJobsGoOn ==
    \A j \in JobIds :
        jobs[j].status = "queued" ~> (jobs[j].status # "queued" \/ phase # "serving")

===============================================================================
