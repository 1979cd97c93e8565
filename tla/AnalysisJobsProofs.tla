-------------------------- MODULE AnalysisJobsProofs --------------------------
(***************************************************************************)
(* Proofs about AnalysisJobs, for any handlers, ids, datasets, types,      *)
(* channel capacity and matrix size.                                       *)
(***************************************************************************)
EXTENDS AnalysisJobs, CollectionLemmas

-------------------------------------------------------------------------------
(* Types                                                                   *)

(* What the type invariant needs beside itself: a handler that is about to *)
(* offer an id has one, and so has the worker outside its select.          *)
HandlersHold == \A h \in Handlers : handler[h] = "enqueue" => pending[h] \in JobIds

WorkerHolds == worker \notin {"select", "stopped"} => current \in JobIds

TypeInv == TypeOK /\ HandlersHold /\ WorkerHolds

LEMMA JobTypes ==
    /\ Absent \in Job
    /\ \A r \in Requests : Queued(r) \in Job
<1>1. NoRequest \in Requests
  BY DemoAssumption DEF NoRequest, Requests
<1>2. Absent \in Job
  BY <1>1 DEF Absent, Job, Terminal
<1>3. ASSUME NEW r \in Requests PROVE Queued(r) \in Job
  BY <1>2 DEF Queued, Job
<1> QED  BY <1>2, <1>3

LEMMA TypeInit == Init => TypeInv
  BY JobTypes, PairsAssumption DEF Init, TypeInv, TypeOK, HandlersHold, WorkerHolds

LEMMA TypeStep == TypeInv /\ [Next]_vars => TypeInv'
<1> SUFFICES ASSUME TypeInv, [Next]_vars PROVE TypeInv'
  OBVIOUS
<1> USE DEF TypeInv, TypeOK, HandlersHold, WorkerHolds
<1>1. ASSUME NEW d \in Datasets, CreateDataset(d) \/ ImportGraph(d) PROVE TypeInv'
  <2>1. datasets' \in [Datasets -> {"absent", "draft", "installed"}]
    BY <1>1 DEF CreateDataset, ImportGraph
  <2>2. UNCHANGED <<jobs, queue, handlerVars, workerVars, ctx, phase>>
    BY <1>1 DEF CreateDataset, ImportGraph
  <2> QED  BY <2>1, <2>2 DEF handlerVars, workerVars
<1>2. ASSUME NEW h \in Handlers, AcceptRequest(h) PROVE TypeInv'
  BY <1>2 DEF AcceptRequest, workerVars
<1>3. ASSUME NEW h \in Handlers, NEW id \in JobIds, NEW r \in Requests, CreateJob(h, id, r)
      PROVE TypeInv'
  BY <1>3, JobTypes DEF CreateJob, workerVars
<1>reject. ASSUME NEW h \in Handlers, RejectJob(h) PROVE TypeInv'
  BY <1>reject DEF RejectJob, workerVars
<1>4. ASSUME NEW h \in Handlers, Enqueue(h) \/ QueueFull(h) PROVE TypeInv'
  <2>1. pending[h] \in JobIds
    BY <1>4 DEF Enqueue, QueueFull
  <2>2. Append(queue, pending[h]) \in Seq(JobIds)
    BY <2>1
  <2>3. CASE Enqueue(h)
    BY <2>1, <2>2, <2>3 DEF Enqueue, Answer, workerVars
  <2>4. CASE QueueFull(h)
    BY <2>1, <2>4 DEF QueueFull, Answer, workerVars
  <2> QED  BY <1>4, <2>3, <2>4
<1>5. CASE Receive
  <2>1. Head(queue) \in JobIds /\ Tail(queue) \in Seq(JobIds)
    BY <1>5, HeadTailTypes DEF Receive
  <2> QED  BY <1>5, <2>1 DEF Receive, handlerVars
<1>6. CASE StopWorker
  BY <1>6 DEF StopWorker, handlerVars
<1>7. CASE Load
  BY <1>7, PairsAssumption DEF Load, handlerVars
<1>8. CASE Announce
  <2>1. [job EXCEPT !.status = "running", !.started = TRUE, !.progress = 5] \in Job
    BY DEF Job
  <2> QED  BY <1>8, <2>1 DEF Announce, Store, handlerVars
<1>9. CASE SnapshotTaken \/ SnapshotFails
  BY <1>9 DEF SnapshotTaken, SnapshotFails, handlerVars
<1>10. CASE RecordProgress
  <2>1. [job EXCEPT !.progress = 35] \in Job
    BY DEF Job
  <2> QED  BY <1>10, <2>1 DEF RecordProgress, Store, handlerVars
<1>11. ASSUME NEW result \in {"none", "partial", "full"},
              NEW e \in {"none", "missing", "parameters", "deadline"},
              Analyzed(result, e), worker = "analyze"
       PROVE TypeInv'
  <2>1. [job EXCEPT !.result = result] \in Job
    BY DEF Job
  <2> QED  BY <1>11, <2>1 DEF Analyzed, handlerVars
<1>12. CASE RefuseParameters \/ AnalyzeAtOnce \/ MatrixExpires \/ MatrixDone
  BY <1>11, <1>12
     DEF RefuseParameters, AnalyzeAtOnce, MatrixExpires, MatrixDone, InMatrixLoop
<1>13. CASE AnalyzePair
  BY <1>13, PairsAssumption DEF AnalyzePair, InMatrixLoop, MorePairs, handlerVars
<1>14. CASE Publish
  <2>1. [job EXCEPT !.progress = 90] \in Job
    BY DEF Job
  <2> QED  BY <1>14, <2>1 DEF Publish, Store, handlerVars
<1>15. CASE Finish
  <2>1. [job EXCEPT !.completed = TRUE, !.status = "succeeded", !.progress = 100] \in Job
    BY DEF Job, Terminal
  <2>2. [job EXCEPT !.completed = TRUE, !.status = "failed", !.error = err] \in Job
    BY DEF Job, Terminal
  <2>3. Outcome \in Job
    BY <2>1, <2>2 DEF Outcome
  <2> QED  BY <1>15, <2>3, JobTypes, PairsAssumption DEF Finish, handlerVars
<1>16. CASE Deadline
  BY <1>16 DEF Deadline, handlerVars, workerVars
<1>17. CASE ProcessStep
  BY <1>17 DEF ProcessStep, Signal, ServerFailed, Drained, DrainTimeout, Exit,
                handlerVars, workerVars
<1>18. CASE UNCHANGED vars
  BY <1>18 DEF vars
<1> QED
  BY <1>1, <1>2, <1>3, <1>4, <1>5, <1>6, <1>7, <1>8, <1>9, <1>10, <1>12, <1>13,
     <1>14, <1>15, <1>16, <1>17, <1>18, <1>reject DEF Next, HandlerStep, WorkerStep

(* Every reachable state is well typed.                                    *)
THEOREM TypeCorrect == Spec => []TypeOK
<1>1. Spec => []TypeInv
  BY TypeInit, TypeStep, PTL DEF Spec
<1>2. TypeInv => TypeOK
  BY DEF TypeInv
<1> QED  BY <1>1, <1>2, PTL

-------------------------------------------------------------------------------
(* Where every job is.  The three invariants of the runs are not inductive *)
(* by themselves: that Enqueue adds a job the channel does not hold needs  *)
(* that handlers hold different, queued and not yet accepted jobs, and     *)
(* that runJob announces and finishes an accepted job needs that its copy  *)
(* has the status the store has.                                           *)

Busy == {"snapshot", "progress", "analyze", "publish", "finish"}

HandlersOffer ==
    \A h \in Handlers : handler[h] = "enqueue" =>
        jobs[pending[h]].status = "queued" /\ pending[h] \notin accepted

HandlersApart ==
    \A g, h \in Handlers :
        handler[g] = "enqueue" /\ handler[h] = "enqueue" /\ pending[g] = pending[h]
            => g = h

AcceptedAreStored == \A j \in accepted : jobs[j].status # "absent"

WorkerAccepted == worker \notin {"select", "stopped"} => current \in accepted

CopyAgrees ==
    /\ worker = "announce" => job.status = "queued"
    /\ worker \in Busy => job.status = "running"

IInv ==
    /\ TypeInv
    /\ HandlersOffer
    /\ HandlersApart
    /\ AcceptedAreStored
    /\ WorkerAccepted
    /\ CopyAgrees
    /\ AcceptedJobsAreHeld
    /\ NoJobRunsTwice
    /\ RunningIsTheWorkers

LEMMA IInit == Init => IInv
<1> SUFFICES ASSUME Init PROVE IInv
  OBVIOUS
<1>1. Range(queue) = {} /\ IsInjective(queue)
  BY DEF Init, Range, IsInjective
<1> QED
  BY <1>1, TypeInit
     DEF Init, IInv, HandlersOffer, HandlersApart, AcceptedAreStored, WorkerAccepted,
         CopyAgrees, AcceptedJobsAreHeld, NoJobRunsTwice, RunningIsTheWorkers,
         Taken, RunningJobs, Busy, Absent

(* What a step leaves alone if it does not move a job: the statuses, the   *)
(* channel, the accepted jobs, who holds what, and where the worker is.    *)
Quiet ==
    /\ \A j \in JobIds : jobs'[j].status = jobs[j].status
    /\ UNCHANGED <<queue, accepted, pending, current>>
    /\ \A h \in Handlers : handler'[h] = "enqueue" <=> handler[h] = "enqueue"
    /\ job'.status = job.status
    /\ \/ UNCHANGED worker
       \/ worker \in Busy /\ worker' \in Busy
       \/ worker = "select" /\ worker' = "stopped"

LEMMA QuietKeeps ==
    ASSUME IInv, TypeInv', Quiet PROVE IInv'
<1> USE DEF Quiet, Busy
<1>1. HandlersOffer' /\ HandlersApart'
  BY DEF IInv, HandlersOffer, HandlersApart, TypeInv, HandlersHold
<1>2. AcceptedAreStored'
  BY DEF IInv, AcceptedAreStored, TypeInv, TypeOK
<1>3. WorkerAccepted' /\ CopyAgrees'
  BY DEF IInv, WorkerAccepted, CopyAgrees
<1>4. Taken' = Taken
  BY DEF Taken
<1>5. AcceptedJobsAreHeld' /\ NoJobRunsTwice'
  BY <1>4 DEF IInv, AcceptedJobsAreHeld, NoJobRunsTwice, TypeInv, TypeOK
<1>6. RunningIsTheWorkers'
  BY DEF IInv, RunningIsTheWorkers, RunningJobs
<1> QED  BY <1>1, <1>2, <1>3, <1>5, <1>6 DEF IInv

LEMMA IStep == IInv /\ [Next]_vars => IInv'
<1> SUFFICES ASSUME IInv, [Next]_vars PROVE IInv'
  OBVIOUS
<1>0. TypeInv /\ TypeInv'
  BY TypeStep DEF IInv
<1> USE <1>0
<1>1. ASSUME NEW d \in Datasets, CreateDataset(d) \/ ImportGraph(d) PROVE IInv'
  <2>1. Quiet
    BY <1>1 DEF CreateDataset, ImportGraph, handlerVars, workerVars, Quiet
  <2> QED  BY <2>1, QuietKeeps
<1>2. ASSUME NEW h \in Handlers, AcceptRequest(h) PROVE IInv'
  <2>1. Quiet
    BY <1>2 DEF AcceptRequest, workerVars, Quiet, TypeInv, TypeOK
  <2> QED  BY <2>1, QuietKeeps
<1>3. ASSUME NEW h \in Handlers, RejectJob(h)
      PROVE IInv'
  <2>1. Quiet
    BY <1>3 DEF RejectJob, workerVars, Quiet, TypeInv, TypeOK
  <2> QED  BY <2>1, QuietKeeps
<1>4. ASSUME NEW h \in Handlers, NEW id \in JobIds, NEW r \in Requests, CreateJob(h, id, r)
      PROVE IInv'
  <2>1. /\ jobs[id].status = "absent"
        /\ jobs'[id].status = "queued"
        /\ \A j \in JobIds \ {id} : jobs'[j] = jobs[j]
        /\ UNCHANGED <<queue, accepted, worker, current, job>>
    BY <1>4 DEF CreateJob, Storable, Queued, Absent, workerVars, TypeInv, TypeOK
  <2>2. id \notin accepted
    BY <2>1 DEF IInv, AcceptedAreStored
  <2>3. HandlersOffer' /\ HandlersApart'
    <3>1. /\ pending'[h] = id
          /\ \A g \in Handlers \ {h} :
                pending'[g] = pending[g] /\ handler'[g] = handler[g]
      BY <1>4 DEF CreateJob, TypeInv, TypeOK
    <3>2. \A g \in Handlers : handler[g] = "enqueue" => pending[g] # id
      BY <2>1 DEF IInv, HandlersOffer
    <3> QED
      BY <2>1, <2>2, <3>1, <3>2
         DEF IInv, HandlersOffer, HandlersApart, TypeInv, HandlersHold
  <2>4. AcceptedAreStored' /\ WorkerAccepted' /\ CopyAgrees'
    BY <2>1, <2>2 DEF IInv, AcceptedAreStored, WorkerAccepted, CopyAgrees, TypeInv, TypeOK
  <2>5. Taken' = Taken
    BY <2>1 DEF Taken
  <2>6. AcceptedJobsAreHeld' /\ NoJobRunsTwice'
    BY <2>1, <2>2, <2>5 DEF IInv, AcceptedJobsAreHeld, NoJobRunsTwice, TypeInv, TypeOK
  <2>7. RunningIsTheWorkers'
    <3>1. RunningJobs' = RunningJobs
      BY <2>1 DEF RunningJobs
    <3> QED  BY <2>1, <3>1 DEF IInv, RunningIsTheWorkers
  <2> QED  BY <2>3, <2>4, <2>6, <2>7 DEF IInv
<1>5. ASSUME NEW h \in Handlers, Enqueue(h) PROVE IInv'
  <2>1. /\ handler[h] = "enqueue"
        /\ queue' = Append(queue, pending[h])
        /\ accepted' = accepted \union {pending[h]}
        /\ UNCHANGED <<jobs, worker, current, job>>
        /\ handler'[h] = "idle"
        /\ \A g \in Handlers \ {h} : pending'[g] = pending[g] /\ handler'[g] = handler[g]
    BY <1>5 DEF Enqueue, Answer, workerVars, TypeInv, TypeOK
  <2>2. /\ pending[h] \in JobIds
        /\ jobs[pending[h]].status = "queued"
        /\ pending[h] \notin accepted
    BY <2>1 DEF IInv, HandlersOffer, TypeInv, HandlersHold
  <2>3. pending[h] \notin Range(queue) /\ pending[h] \notin Taken
    BY <2>2 DEF IInv, AcceptedJobsAreHeld
  <2>4. IsInjective(queue')
    BY <2>1, <2>2, <2>3, AppendNew DEF IInv, NoJobRunsTwice, TypeInv, TypeOK
  <2>5. Range(queue') = Range(queue) \union {pending[h]}
    BY <2>1, <2>2, <2>3, AppendNew DEF IInv, NoJobRunsTwice, TypeInv, TypeOK
  <2>6. Taken' = Taken
    BY <2>1 DEF Taken
  <2>7. AcceptedJobsAreHeld' /\ NoJobRunsTwice'
    BY <2>1, <2>2, <2>3, <2>4, <2>5, <2>6 DEF IInv, AcceptedJobsAreHeld, NoJobRunsTwice
  <2>8. HandlersOffer' /\ HandlersApart'
    <3>1. \A g \in Handlers : handler'[g] = "enqueue" =>
             g # h /\ handler[g] = "enqueue" /\ pending'[g] = pending[g]
      BY <2>1
    <3>2. \A g \in Handlers \ {h} : handler[g] = "enqueue" => pending[g] # pending[h]
      BY <2>1 DEF IInv, HandlersApart
    <3> QED  BY <2>1, <3>1, <3>2 DEF IInv, HandlersOffer, HandlersApart
  <2>9. AcceptedAreStored' /\ WorkerAccepted' /\ CopyAgrees' /\ RunningIsTheWorkers'
    BY <2>1, <2>2
       DEF IInv, AcceptedAreStored, WorkerAccepted, CopyAgrees, RunningIsTheWorkers, RunningJobs
  <2> QED  BY <2>7, <2>8, <2>9 DEF IInv
<1>6. ASSUME NEW h \in Handlers, QueueFull(h) PROVE IInv'
  <2>1. /\ UNCHANGED <<jobs, queue, accepted, worker, current, job>>
        /\ \A g \in Handlers : handler'[g] = "enqueue" =>
              handler[g] = "enqueue" /\ pending'[g] = pending[g]
    BY <1>6 DEF QueueFull, Answer, workerVars, TypeInv, TypeOK
  <2>2. HandlersOffer' /\ HandlersApart'
    BY <2>1 DEF IInv, HandlersOffer, HandlersApart
  <2>3. AcceptedAreStored' /\ WorkerAccepted' /\ CopyAgrees' /\ RunningIsTheWorkers'
    BY <2>1
       DEF IInv, AcceptedAreStored, WorkerAccepted, CopyAgrees, RunningIsTheWorkers, RunningJobs
  <2>4. AcceptedJobsAreHeld' /\ NoJobRunsTwice'
    BY <2>1 DEF IInv, AcceptedJobsAreHeld, NoJobRunsTwice, Taken
  <2> QED  BY <2>2, <2>3, <2>4 DEF IInv
<1>7. CASE Receive
  <2>1. /\ worker = "select" /\ worker' = "load"
        /\ queue # <<>> /\ queue' = Tail(queue)
        /\ current' = Head(queue)
        /\ UNCHANGED <<jobs, handler, pending, accepted, job>>
    BY <1>7 DEF Receive, handlerVars
  <2>2. /\ Head(queue) \in Range(queue)
        /\ IsInjective(queue')
        /\ Range(queue') = Range(queue) \ {Head(queue)}
    BY <2>1, TailOfInjective DEF IInv, NoJobRunsTwice, TypeInv, TypeOK
  <2>3. Taken = {} /\ Taken' = {Head(queue)}
    BY <2>1 DEF Taken
  <2>4. AcceptedJobsAreHeld' /\ NoJobRunsTwice'
    BY <2>1, <2>2, <2>3 DEF IInv, AcceptedJobsAreHeld, NoJobRunsTwice
  <2>5. Head(queue) \in accepted
    BY <2>2 DEF IInv, AcceptedJobsAreHeld
  <2>6. AcceptedAreStored' /\ WorkerAccepted' /\ CopyAgrees' /\ RunningIsTheWorkers'
    BY <2>1, <2>5
       DEF IInv, AcceptedAreStored, WorkerAccepted, CopyAgrees, RunningIsTheWorkers,
           RunningJobs, Busy
  <2>7. HandlersOffer' /\ HandlersApart'
    BY <2>1 DEF IInv, HandlersOffer, HandlersApart
  <2> QED  BY <2>4, <2>6, <2>7 DEF IInv
<1>8. CASE Load
  <2>1. /\ worker = "load" /\ worker' = "announce"
        /\ job' = jobs[current]
        /\ UNCHANGED <<jobs, queue, handler, pending, accepted, current>>
    BY <1>8 DEF Load, handlerVars
  <2>2. Taken = {current} /\ Taken' = {current}
    BY <2>1 DEF Taken
  <2>3. job'.status = "queued"
    BY <2>1, <2>2 DEF IInv, AcceptedJobsAreHeld
  <2>4. AcceptedJobsAreHeld' /\ NoJobRunsTwice'
    BY <2>1, <2>2 DEF IInv, AcceptedJobsAreHeld, NoJobRunsTwice
  <2>5. AcceptedAreStored' /\ WorkerAccepted' /\ CopyAgrees' /\ RunningIsTheWorkers'
    BY <2>1, <2>3
       DEF IInv, AcceptedAreStored, WorkerAccepted, CopyAgrees, RunningIsTheWorkers,
           RunningJobs, Busy
  <2>6. HandlersOffer' /\ HandlersApart'
    BY <2>1 DEF IInv, HandlersOffer, HandlersApart
  <2> QED  BY <2>4, <2>5, <2>6 DEF IInv
<1>9. CASE Announce
  <2>1. /\ worker = "announce" /\ worker' = "snapshot"
        /\ current \in JobIds
        /\ job'.status = "running"
        /\ jobs'[current].status = "running"
        /\ \A j \in JobIds \ {current} : jobs'[j] = jobs[j]
        /\ UNCHANGED <<queue, handler, pending, accepted, current>>
    BY <1>9 DEF Announce, Store, handlerVars, TypeInv, TypeOK, WorkerHolds, Job
  <2>2. Taken = {current} /\ Taken' = {}
    BY <2>1 DEF Taken
  <2>3. current \in accepted /\ jobs[current].status = "queued" /\ current \notin Range(queue)
    BY <2>2 DEF IInv, AcceptedJobsAreHeld, NoJobRunsTwice
  <2>4. AcceptedJobsAreHeld' /\ NoJobRunsTwice'
    BY <2>1, <2>2, <2>3 DEF IInv, AcceptedJobsAreHeld, NoJobRunsTwice, TypeInv, TypeOK
  <2>5. RunningIsTheWorkers'
    BY <2>1 DEF IInv, RunningIsTheWorkers, RunningJobs
  <2>6. AcceptedAreStored' /\ WorkerAccepted' /\ CopyAgrees'
    BY <2>1, <2>3
       DEF IInv, AcceptedAreStored, WorkerAccepted, CopyAgrees, Busy, TypeInv, TypeOK
  <2>7. HandlersOffer' /\ HandlersApart'
    <3>1. \A h \in Handlers : handler[h] = "enqueue" =>
             pending[h] \in JobIds \ {current}
      BY <2>3 DEF IInv, HandlersOffer, TypeInv, HandlersHold
    <3> QED  BY <2>1, <3>1 DEF IInv, HandlersOffer, HandlersApart
  <2> QED  BY <2>4, <2>5, <2>6, <2>7 DEF IInv
<1>10. CASE SnapshotTaken \/ SnapshotFails \/ AnalyzePair \/ StopWorker
  <2>1. Quiet
    BY <1>10
       DEF SnapshotTaken, SnapshotFails, AnalyzePair, InMatrixLoop, StopWorker,
           handlerVars, Quiet, Busy
  <2> QED  BY <2>1, QuietKeeps
<1>11. CASE RecordProgress \/ Publish
  <2>1. PICK p \in {35, 90} : Store([job EXCEPT !.progress = p])
    BY <1>11 DEF RecordProgress, Publish
  <2>2. /\ worker \in Busy /\ worker' \in Busy
        /\ UNCHANGED <<queue, handler, pending, accepted, current>>
    BY <1>11 DEF RecordProgress, Publish, handlerVars, Busy
  <2>3. jobs[current].status = "running" /\ job.status = "running"
    BY <2>2 DEF IInv, RunningIsTheWorkers, RunningJobs, CopyAgrees, Busy
  <2>4. job'.status = job.status /\ \A j \in JobIds : jobs'[j].status = jobs[j].status
    BY <2>1, <2>3 DEF Store, TypeInv, TypeOK, Job
  <2>5. Quiet
    BY <2>2, <2>4 DEF Quiet
  <2> QED  BY <2>5, QuietKeeps
<1>12. CASE RefuseParameters \/ AnalyzeAtOnce \/ MatrixExpires \/ MatrixDone
  <2>1. /\ worker = "analyze"
        /\ \E result, e : Analyzed(result, e)
    BY <1>12 DEF RefuseParameters, AnalyzeAtOnce, MatrixExpires, MatrixDone, InMatrixLoop
  <2>2. Quiet
    BY <2>1 DEF Analyzed, handlerVars, Quiet, Busy, TypeInv, TypeOK, Job
  <2> QED  BY <2>2, QuietKeeps
<1>13. CASE Finish
  <2>1. /\ worker = "finish" /\ worker' = "select"
        /\ current \in accepted /\ current \in JobIds
        /\ jobs'[current] = Outcome
        /\ \A j \in JobIds \ {current} : jobs'[j] = jobs[j]
        /\ UNCHANGED <<queue, handler, pending, accepted>>
    BY <1>13
       DEF Finish, handlerVars, IInv, WorkerAccepted, TypeInv, TypeOK, WorkerHolds
  <2>2. jobs'[current].status \in Terminal
    <3>1. [job EXCEPT !.completed = TRUE, !.status = "succeeded", !.progress = 100].status = "succeeded"
      BY DEF TypeInv, TypeOK, Job
    <3>2. [job EXCEPT !.completed = TRUE, !.status = "failed", !.error = err].status = "failed"
      BY DEF TypeInv, TypeOK, Job
    <3> QED  BY <2>1, <3>1, <3>2 DEF Outcome, Terminal
  <2>3. jobs[current].status = "running"
    BY <2>1 DEF IInv, RunningIsTheWorkers, RunningJobs
  <2>4. Taken = {} /\ Taken' = {}
    BY <2>1 DEF Taken
  <2>5. AcceptedJobsAreHeld' /\ NoJobRunsTwice'
    BY <2>1, <2>2, <2>3, <2>4
       DEF IInv, AcceptedJobsAreHeld, NoJobRunsTwice, TypeInv, TypeOK, Terminal
  <2>6. RunningIsTheWorkers'
    BY <2>1, <2>2, <2>3 DEF IInv, RunningIsTheWorkers, RunningJobs, Terminal
  <2>7. AcceptedAreStored' /\ WorkerAccepted' /\ CopyAgrees'
    BY <2>1, <2>2
       DEF IInv, AcceptedAreStored, WorkerAccepted, CopyAgrees, Busy, TypeInv, TypeOK, Terminal
  <2>8. HandlersOffer' /\ HandlersApart'
    <3>1. \A h \in Handlers : handler[h] = "enqueue" =>
             pending[h] \in JobIds \ {current}
      BY <2>3 DEF IInv, HandlersOffer, TypeInv, HandlersHold
    <3> QED  BY <2>1, <3>1 DEF IInv, HandlersOffer, HandlersApart
  <2> QED  BY <2>5, <2>6, <2>7, <2>8 DEF IInv
<1>14. CASE Deadline \/ ProcessStep
  <2>1. Quiet
    BY <1>14
       DEF Deadline, ProcessStep, Signal, ServerFailed, Drained, DrainTimeout, Exit,
           handlerVars, workerVars, Quiet
  <2> QED  BY <2>1, QuietKeeps
<1>15. CASE UNCHANGED vars
  <2>1. Quiet
    BY <1>15 DEF vars, Quiet
  <2> QED  BY <2>1, QuietKeeps
<1> QED
  BY <1>1, <1>2, <1>3, <1>4, <1>5, <1>6, <1>7, <1>8, <1>9, <1>10, <1>11, <1>12, <1>13,
     <1>14, <1>15 DEF Next, HandlerStep, WorkerStep

LEMMA Inductive == Spec => []IInv
  BY IInit, IStep, PTL DEF Spec

(* No accepted job is lost between its submission and the worker.          *)
THEOREM NoAcceptedJobIsLost == Spec => []AcceptedJobsAreHeld
<1>1. IInv => AcceptedJobsAreHeld
  BY DEF IInv
<1> QED  BY <1>1, Inductive, PTL

(* No job is taken by the worker twice.                                    *)
THEOREM JobsRunAtMostOnce == Spec => []NoJobRunsTwice
<1>1. IInv => NoJobRunsTwice
  BY DEF IInv
<1> QED  BY <1>1, Inductive, PTL

(* The job that reads "running" is the one the worker is in runJob with.   *)
THEOREM RunningIsOwned == Spec => []RunningIsTheWorkers
<1>1. IInv => RunningIsTheWorkers
  BY DEF IInv
<1> QED  BY <1>1, Inductive, PTL

-------------------------------------------------------------------------------
(* Steps: how one step changes the jobs.                                   *)

(* The statuses before and after a step that moves job j.                  *)
Moves(j, from, to) ==
    /\ j \in JobIds
    /\ jobs[j].status \in from
    /\ jobs'[j].status \in to
    /\ \A i \in JobIds \ {j} : jobs'[i] = jobs[i]

LEMMA CreateMoves ==
    ASSUME IInv, NEW h \in Handlers, NEW id \in JobIds, NEW r \in Requests,
           CreateJob(h, id, r)
    PROVE  Moves(id, {"absent"}, {"queued"})
  BY DEF CreateJob, Storable, Queued, Absent, Moves, IInv, TypeInv, TypeOK

LEMMA AnnounceMoves ==
    ASSUME IInv, Announce
    PROVE  current \in accepted /\ RunningJobs = {} /\ Moves(current, {"queued"}, {"running"})
<1>1. Taken = {current} /\ worker = "announce" /\ current \in JobIds
  BY DEF Announce, Taken, IInv, TypeInv, WorkerHolds
<1>2. current \in accepted /\ jobs[current].status = "queued" /\ RunningJobs = {}
  BY <1>1 DEF IInv, AcceptedJobsAreHeld, RunningIsTheWorkers
<1> QED
  BY <1>1, <1>2 DEF Announce, Store, Moves, IInv, TypeInv, TypeOK, Job

LEMMA StoreMoves ==
    ASSUME IInv, RecordProgress \/ Publish
    PROVE  Moves(current, {"running"}, {"running"})
<1>1. PICK p \in {35, 90} : Store([job EXCEPT !.progress = p])
  BY DEF RecordProgress, Publish
<1>2. worker \in Busy /\ current \in JobIds
  BY DEF RecordProgress, Publish, Busy, IInv, TypeInv, WorkerHolds
<1>3. jobs[current].status = "running" /\ job.status = "running"
  BY <1>2 DEF IInv, RunningIsTheWorkers, RunningJobs, CopyAgrees, Busy
<1> QED
  BY <1>1, <1>2, <1>3 DEF Store, Moves, IInv, TypeInv, TypeOK, Job

LEMMA FinishMoves ==
    ASSUME IInv, Finish
    PROVE  Moves(current, {"running"}, Terminal)
<1>1. current \in JobIds /\ jobs[current].status = "running"
  BY DEF Finish, IInv, TypeInv, WorkerHolds, RunningIsTheWorkers, RunningJobs
<1>2. [job EXCEPT !.completed = TRUE, !.status = "succeeded", !.progress = 100].status = "succeeded"
  BY DEF IInv, TypeInv, TypeOK, Job
<1>3. [job EXCEPT !.completed = TRUE, !.status = "failed", !.error = err].status = "failed"
  BY DEF IInv, TypeInv, TypeOK, Job
<1>4. Outcome.status \in Terminal
  BY <1>2, <1>3 DEF Outcome, Terminal
<1> QED
  BY <1>1, <1>4 DEF Finish, Moves, IInv, TypeInv, TypeOK

(* Every other step leaves the store's jobs alone.                         *)
OtherStep ==
    \/ \E d \in Datasets : CreateDataset(d) \/ ImportGraph(d)
    \/ \E h \in Handlers :
          AcceptRequest(h) \/ RejectJob(h) \/ Enqueue(h) \/ QueueFull(h)
    \/ Receive \/ StopWorker \/ Load \/ SnapshotTaken \/ SnapshotFails
    \/ RefuseParameters \/ AnalyzeAtOnce \/ AnalyzePair \/ MatrixExpires \/ MatrixDone
    \/ Deadline \/ ProcessStep
    \/ UNCHANGED vars

LEMMA StepKinds ==
    ASSUME [Next]_vars
    PROVE  \/ \E h \in Handlers, id \in JobIds, r \in Requests : CreateJob(h, id, r)
           \/ Announce
           \/ RecordProgress \/ Publish
           \/ Finish
           \/ OtherStep
  BY DEF Next, HandlerStep, WorkerStep, OtherStep

LEMMA OtherKeepsJobs == OtherStep => UNCHANGED jobs
  BY DEF OtherStep, CreateDataset, ImportGraph, AcceptRequest, Enqueue, QueueFull, RejectJob,
         Receive, StopWorker, Load, SnapshotTaken, SnapshotFails, RefuseParameters,
         AnalyzeAtOnce, AnalyzePair, MatrixExpires, MatrixDone, InMatrixLoop, Analyzed,
         Deadline, ProcessStep, Signal, ServerFailed, Drained, DrainTimeout, Exit, vars

(* A finished job is never written again.                                  *)
THEOREM FinishedJobsStay == Spec => TerminalIsFinal
<1> DEFINE Final == \A j \in JobIds : jobs[j].status \in Terminal => jobs'[j] = jobs[j]
<1>1. ASSUME IInv, [Next]_vars PROVE Final
  <2>1. ASSUME NEW j, NEW from, NEW to, Moves(j, from, to), from \intersect Terminal = {}
        PROVE  Final
    BY <2>1 DEF Moves
  <2>2. ASSUME NEW h \in Handlers, NEW id \in JobIds, NEW r \in Requests, CreateJob(h, id, r)
        PROVE  Final
    <3>1. Moves(id, {"absent"}, {"queued"})
      BY <1>1, <2>2, CreateMoves
    <3> QED  BY <2>1, <3>1 DEF Terminal
  <2>3. CASE Announce
    <3>1. Moves(current, {"queued"}, {"running"})
      BY <1>1, <2>3, AnnounceMoves
    <3> QED  BY <2>1, <3>1 DEF Terminal
  <2>4. CASE RecordProgress \/ Publish
    <3>1. Moves(current, {"running"}, {"running"})
      BY <1>1, <2>4, StoreMoves
    <3> QED  BY <2>1, <3>1 DEF Terminal
  <2>5. CASE Finish
    <3>1. Moves(current, {"running"}, Terminal)
      BY <1>1, <2>5, FinishMoves
    <3> QED  BY <2>1, <3>1 DEF Terminal
  <2>6. CASE OtherStep
    BY <2>6, OtherKeepsJobs
  <2> QED  BY <1>1, <2>2, <2>3, <2>4, <2>5, <2>6, StepKinds
<1>2. IInv /\ [Next]_vars => [Final]_vars
  BY <1>1
<1> QED  BY <1>2, Inductive, PTL DEF Spec, TerminalIsFinal

-------------------------------------------------------------------------------
(* What a finished job says.  That Finish writes a whole outcome rests on  *)
(* the worker's copy: what runJob has put into it by the time it gets      *)
(* there, and that the local err and the result of the copy agree.         *)

WholeJob(j) ==
    /\ j.status \in {"absent", "queued"} =>
          ~ j.started /\ ~ j.completed /\ j.result = "none" /\ j.error = "none"
    /\ j.status = "running" => j.started /\ ~ j.completed /\ j.error = "none"
    /\ j.status \in Terminal => j.started /\ j.completed
    /\ j.status = "succeeded" => j.result = "full" /\ j.error = "none" /\ j.progress = 100
    /\ j.status = "failed" => j.result = "none" /\ j.error # "none"

StoredAreWhole == \A j \in JobIds : WholeJob(jobs[j])

CopyIsWhole == worker \in {"announce"} \union Busy => WholeJob(job)

ErrAgrees ==
    /\ worker \in {"announce", "snapshot", "progress", "analyze"} =>
          job.result = "none" /\ err = "none"
    /\ worker \in {"publish", "finish"} =>
          job.result = IF err = "none" THEN "full" ELSE "none"

OInv == IInv /\ StoredAreWhole /\ CopyIsWhole /\ ErrAgrees

LEMMA OInit == Init => OInv
<1>1. WholeJob(Absent)
  BY DEF WholeJob, Absent, Terminal
<1> QED
  BY <1>1, IInit DEF Init, OInv, StoredAreWhole, CopyIsWhole, ErrAgrees, Busy

LEMMA OStep == OInv /\ [Next]_vars => OInv'
<1> SUFFICES ASSUME OInv, [Next]_vars PROVE OInv'
  OBVIOUS
<1>0. IInv /\ IInv' /\ TypeInv /\ TypeInv'
  BY IStep DEF OInv, IInv
<1> USE <1>0
<1>1. ASSUME UNCHANGED <<jobs, job, err>>,
             \/ UNCHANGED worker
             \/ worker' \in {"select", "stopped", "load"}
             \/ worker \in {"snapshot", "progress"} /\ worker' \in {"progress", "analyze"}
      PROVE  OInv'
  BY <1>1 DEF OInv, StoredAreWhole, CopyIsWhole, ErrAgrees, Busy
<1>2. ASSUME NEW h \in Handlers, NEW id \in JobIds, NEW r \in Requests, CreateJob(h, id, r)
      PROVE  OInv'
  <2>1. WholeJob(Queued(r))
    BY DEF WholeJob, Queued, Absent, Terminal
  <2>2. \A j \in JobIds : jobs'[j] = IF j = id THEN Queued(r) ELSE jobs[j]
    BY <1>2 DEF CreateJob, TypeInv, TypeOK
  <2>3. StoredAreWhole'
    BY <2>1, <2>2 DEF OInv, StoredAreWhole
  <2> QED
    BY <1>2, <2>3 DEF CreateJob, workerVars, OInv, CopyIsWhole, ErrAgrees
<1>3. CASE Load
  <2>1. worker = "load" /\ worker' = "announce" /\ job' = jobs[current] /\ err' = "none"
        /\ UNCHANGED jobs /\ current \in JobIds
    BY <1>3 DEF Load, TypeInv, WorkerHolds
  <2>2. jobs[current].status = "queued"
    BY <2>1 DEF IInv, AcceptedJobsAreHeld, Taken
  <2>3. WholeJob(jobs[current]) /\ jobs[current].result = "none"
    BY <2>1, <2>2 DEF OInv, StoredAreWhole, WholeJob
  <2> QED  BY <2>1, <2>3 DEF OInv, StoredAreWhole, CopyIsWhole, ErrAgrees
<1>4. ASSUME NEW copy, Store(copy), WholeJob(copy), copy.result = job.result,
             UNCHANGED err,
             \/ worker = "announce" /\ worker' = "snapshot"
             \/ worker = "progress" /\ worker' = "analyze"
             \/ worker = "publish" /\ worker' = "finish"
      PROVE  OInv'
  <2>1. StoredAreWhole' /\ CopyIsWhole'
    BY <1>4 DEF Store, OInv, StoredAreWhole, CopyIsWhole, TypeInv, TypeOK
  <2> QED  BY <1>4, <2>1 DEF Store, OInv, ErrAgrees
<1>5. CASE Announce
  <2> DEFINE copy == [job EXCEPT !.status = "running", !.started = TRUE, !.progress = 5]
  <2>1. WholeJob(job) /\ job.status = "queued"
    BY <1>5 DEF Announce, OInv, CopyIsWhole, IInv, CopyAgrees
  <2>2. WholeJob(copy) /\ copy.result = job.result
    BY <2>1 DEF WholeJob, TypeInv, TypeOK, Job, Terminal
  <2>3. Store(copy) /\ UNCHANGED err /\ worker = "announce" /\ worker' = "snapshot"
    BY <1>5 DEF Announce
  <2> HIDE DEF copy
  <2> QED  BY <1>4, <2>2, <2>3
<1>6. ASSUME NEW p \in {35, 90}, Store([job EXCEPT !.progress = p]), UNCHANGED err,
             \/ worker = "progress" /\ worker' = "analyze"
             \/ worker = "publish" /\ worker' = "finish"
      PROVE  OInv'
  <2> DEFINE copy == [job EXCEPT !.progress = p]
  <2>1. WholeJob(job) /\ job.status = "running"
    BY <1>6 DEF OInv, CopyIsWhole, IInv, CopyAgrees, Busy
  <2>2. WholeJob(copy) /\ copy.result = job.result
    BY <2>1 DEF WholeJob, TypeInv, TypeOK, Job, Terminal
  <2>3. Store(copy)
    BY <1>6
  <2> HIDE DEF copy
  <2> QED  BY <1>4, <1>6, <2>2, <2>3
<1>7. CASE RecordProgress
  BY <1>6, <1>7 DEF RecordProgress
<1>8. CASE Publish
  BY <1>6, <1>8 DEF Publish
<1>9. CASE SnapshotFails
  BY <1>9 DEF SnapshotFails, OInv, StoredAreWhole, CopyIsWhole, ErrAgrees, Busy
<1>10. ASSUME NEW result, NEW e, Analyzed(result, e), worker = "analyze",
              result = IF e = "none" THEN "full" ELSE "none"
       PROVE  OInv'
  <2>1. WholeJob(job) /\ job.status = "running"
    BY <1>10 DEF OInv, CopyIsWhole, IInv, CopyAgrees, Busy
  <2>2. job' = [job EXCEPT !.result = result]
    BY <1>10 DEF Analyzed
  <2>3. WholeJob(job') /\ job'.result = result
    BY <2>1, <2>2 DEF WholeJob, TypeInv, TypeOK, Job, Terminal
  <2> QED
    BY <1>10, <2>3 DEF Analyzed, OInv, StoredAreWhole, CopyIsWhole, ErrAgrees
<1>11. CASE RefuseParameters \/ AnalyzeAtOnce \/ MatrixExpires \/ MatrixDone
  <2>1. /\ worker = "analyze"
        /\ Analyzed("none", "parameters") \/ Analyzed("none", "deadline")
              \/ Analyzed("full", "none")
    BY <1>11 DEF RefuseParameters, AnalyzeAtOnce, MatrixExpires, MatrixDone, InMatrixLoop
  <2> QED  BY <1>10, <2>1
<1>12. CASE Finish
  <2>1. WholeJob(job) /\ job.status = "running" /\ job \in Job
        /\ job.result = IF err = "none" THEN "full" ELSE "none"
    BY <1>12 DEF Finish, OInv, CopyIsWhole, ErrAgrees, IInv, CopyAgrees, Busy, TypeInv, TypeOK
  <2>2. WholeJob(Outcome)
    <3>1. CASE err = "none"
      BY <2>1, <3>1 DEF Outcome, WholeJob, Job, Terminal
    <3>2. CASE err # "none"
      BY <2>1, <3>2 DEF Outcome, WholeJob, Job, Terminal
    <3> QED  BY <3>1, <3>2
  <2>3. \A j \in JobIds : jobs'[j] = Outcome \/ jobs'[j] = jobs[j]
    BY <1>12 DEF Finish, TypeInv, TypeOK
  <2>4. StoredAreWhole'
    BY <2>2, <2>3 DEF OInv, StoredAreWhole
  <2> QED
    BY <1>12, <2>4 DEF Finish, OInv, CopyIsWhole, ErrAgrees, Busy
<1>13. CASE OtherStep
  <2>1. \/ Load \/ SnapshotFails
        \/ RefuseParameters \/ AnalyzeAtOnce \/ MatrixExpires \/ MatrixDone
        \/ /\ UNCHANGED <<jobs, job, err>>
           /\ \/ UNCHANGED worker
              \/ worker' \in {"select", "stopped", "load"}
              \/ worker \in {"snapshot", "progress"} /\ worker' \in {"progress", "analyze"}
    BY <1>13
       DEF OtherStep, CreateDataset, ImportGraph, AcceptRequest, Enqueue, QueueFull, RejectJob,
           Receive, StopWorker, SnapshotTaken, AnalyzePair, InMatrixLoop, Deadline,
           ProcessStep, Signal, ServerFailed, Drained, DrainTimeout, Exit, vars, workerVars
  <2> QED  BY <1>1, <1>3, <1>9, <1>11, <2>1
<1> QED  BY <1>2, <1>5, <1>7, <1>8, <1>12, <1>13, StepKinds

(* What a client that polls a finished job reads is whole: a full result   *)
(* and no error, or an error and no result, with its completion time.      *)
THEOREM OutcomesStayWhole == Spec => []OutcomesAreWhole
<1>1. Spec => []OInv
  BY OInit, OStep, PTL DEF Spec
<1>2. OInv => OutcomesAreWhole
  <2> SUFFICES ASSUME OInv, NEW j \in JobIds, WholeJob(jobs[j]), jobs[j] \in Job
               PROVE  OutcomesAreWhole!(j)
    BY DEF OInv, StoredAreWhole, OutcomesAreWhole, IInv, TypeInv, TypeOK
  <2> QED  BY DEF WholeJob, Job, Terminal
<1> QED  BY <1>1, <1>2, PTL

-------------------------------------------------------------------------------
(* AnalysisJobs implements JobLifecycle.                                   *)

LEMMA LifecycleInit == Init => Lifecycle!Init
  BY DEF Init, Lifecycle!Init, Absent

LEMMA LifecycleStep ==
    ASSUME IInv, [Next]_vars
    PROVE  [Lifecycle!Next]_(Lifecycle!vars)
<1> DEFINE Status == [j \in JobIds |-> jobs[j].status]
           Service == CASE phase = "serving" -> "open"
                        [] phase \in {"draining", "closing"} -> "stopping"
                        [] phase = "exited" -> "stopped"
                        [] phase = "aborted" -> "aborted"
<1>1. Alive <=> Service \in {"open", "stopping"}
  BY DEF Alive, IInv, TypeInv, TypeOK
<1>2. ASSUME NEW j, NEW from, NEW s, Moves(j, from, {s})
      PROVE  Status' = [Status EXCEPT ![j] = s]
  BY <1>2 DEF Moves
<1>3. ASSUME NEW h \in Handlers, NEW id \in JobIds, NEW r \in Requests, CreateJob(h, id, r)
      PROVE  Lifecycle!Next
  <2>1. Moves(id, {"absent"}, {"queued"})
    BY <1>3, CreateMoves
  <2>2. Status' = [Status EXCEPT ![id] = "queued"]
    BY <1>2, <2>1
  <2>3. Lifecycle!Record(id)
    BY <1>1, <1>3, <2>1, <2>2 DEF CreateJob, Moves, Lifecycle!Record, Lifecycle!Alive
  <2> QED  BY <2>3 DEF Lifecycle!Next
<1>4. CASE Announce
  <2>1. current \in accepted /\ RunningJobs = {} /\ Moves(current, {"queued"}, {"running"})
    BY <1>4, AnnounceMoves
  <2>2. Status' = [Status EXCEPT ![current] = "running"]
    BY <1>2, <2>1
  <2>3. PICK j \in JobIds : j = current
    BY <2>1 DEF Moves
  <2>4. Lifecycle!Start(j)
    BY <1>1, <2>3, <1>4, <2>1, <2>2
       DEF Announce, handlerVars, Moves, RunningJobs, Lifecycle!Start, Lifecycle!Alive,
           Lifecycle!Idle
  <2>5. Lifecycle!Next
    BY <2>3, <2>4 DEF Lifecycle!Next
  <2> QED  BY <2>5
<1>5. CASE RecordProgress \/ Publish
  <2>1. Moves(current, {"running"}, {"running"})
    BY <1>5, StoreMoves
  <2>2. Status' = Status
    BY <2>1 DEF Moves
  <2> QED
    BY <1>5, <2>2 DEF RecordProgress, Publish, handlerVars, Lifecycle!vars
<1>6. CASE Finish
  <2>1. Moves(current, {"running"}, Terminal)
    BY <1>6, FinishMoves
  <2>2. PICK outcome \in Terminal : Status' = [Status EXCEPT ![current] = outcome]
    BY <2>1 DEF Moves
  <2>3. PICK j \in JobIds : j = current
    BY <2>1 DEF Moves
  <2>4. Lifecycle!Finish(j)
    BY <1>1, <2>3, <1>6, <2>1, <2>2
       DEF Finish, handlerVars, Moves, Terminal, Lifecycle!Finish, Lifecycle!Alive,
           Lifecycle!Terminal
  <2>5. Lifecycle!Next
    BY <2>3, <2>4 DEF Lifecycle!Next
  <2> QED  BY <2>5
<1>7. ASSUME NEW h \in Handlers, Enqueue(h) PROVE Lifecycle!Next
  <2>1. pending[h] \in JobIds /\ jobs[pending[h]].status = "queued"
    BY <1>7 DEF Enqueue, IInv, TypeInv, HandlersHold, HandlersOffer
  <2>2. Lifecycle!Promise(pending[h])
    BY <1>1, <1>7, <2>1 DEF Enqueue, Lifecycle!Promise, Lifecycle!Alive
  <2> QED  BY <2>1, <2>2 DEF Lifecycle!Next
<1>8. CASE ProcessStep
  <2>1. Status' = Status /\ accepted' = accepted
    BY <1>8
       DEF ProcessStep, Signal, ServerFailed, Drained, DrainTimeout, Exit, handlerVars
  <2>2. CASE Signal
    <3>1. Lifecycle!Stop
      BY <2>1, <2>2 DEF Signal, Lifecycle!Stop
    <3> QED  BY <3>1 DEF Lifecycle!Next
  <2>3. CASE ServerFailed
    <3>1. Lifecycle!Abort
      BY <2>1, <2>3 DEF ServerFailed, Lifecycle!Abort
    <3> QED  BY <3>1 DEF Lifecycle!Next
  <2>4. CASE Drained \/ DrainTimeout
    BY <2>1, <2>4 DEF Drained, DrainTimeout, Lifecycle!vars
  <2>5. CASE Exit
    <3>1. RunningJobs = {}
      BY <2>5 DEF Exit, IInv, RunningIsTheWorkers
    <3>2. Lifecycle!Exit
      BY <2>1, <2>5, <3>1 DEF Exit, RunningJobs, Lifecycle!Exit, Lifecycle!Idle
    <3> QED  BY <3>2 DEF Lifecycle!Next
  <2> QED  BY <1>8, <2>2, <2>3, <2>4, <2>5 DEF ProcessStep
<1>9. ASSUME UNCHANGED <<jobs, accepted, phase>>
      PROVE  UNCHANGED Lifecycle!vars
  BY <1>9 DEF Lifecycle!vars
<1>10. CASE OtherStep
  <2>1. \/ UNCHANGED <<jobs, accepted, phase>>
        \/ \E h \in Handlers : Enqueue(h)
        \/ ProcessStep
    BY <1>10
       DEF OtherStep, CreateDataset, ImportGraph, AcceptRequest, QueueFull, RejectJob,
           Receive, StopWorker, Load, SnapshotTaken, SnapshotFails, RefuseParameters,
           AnalyzeAtOnce, AnalyzePair, MatrixExpires, MatrixDone, InMatrixLoop, Analyzed,
           Deadline, vars, handlerVars, workerVars
  <2> QED  BY <1>7, <1>8, <1>9, <2>1
<1> QED  BY <1>3, <1>4, <1>5, <1>6, <1>10, StepKinds

(* Every behaviour of the service, its queue, its worker and its shutdown  *)
(* is one the abstract life of jobs allows.                                *)
THEOREM ImplementsLifecycle == Spec => LifecycleSpec
<1>1. IInv /\ [Next]_vars => [Lifecycle!Next]_(Lifecycle!vars)
  BY LifecycleStep
<1> QED
  BY LifecycleInit, <1>1, Inductive, PTL DEF Spec, LifecycleSpec, Lifecycle!Spec

===============================================================================
