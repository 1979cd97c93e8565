------------------------------ MODULE WorkerPool ------------------------------
(***************************************************************************)
(* Pool: tasks submitted by any number of goroutines, a bounded channel, a *)
(* fixed number of workers, and a Close that races the submissions.        *)
(*                                                                         *)
(* Close closes two channels one after the other: the one that says the    *)
(* pool is closed and the one that carries the tasks.  Submit looks at the *)
(* first alone and then selects over both; a send that a select tries on a *)
(* closed channel panics, and a panic ends the process.                    *)
(***************************************************************************)
EXTENDS Naturals, Sequences, FiniteSets, Functions

CONSTANTS
    Tasks,      \* one submission, on a goroutine of its own, for each
    Workers,    \* the pool's goroutines
    QueueCap,   \* capacity of the channel of tasks
    NoTask,     \* what an idle worker has
    Gone        \* what a worker that has returned has

ASSUME QueueCapAssumption == QueueCap \in Nat \ {0}
ASSUME WorkersAssumption == Workers # {} /\ IsFiniteSet(Workers)
ASSUME NoTaskAssumption == NoTask \notin Tasks /\ Gone \notin Tasks /\ NoTask # Gone

VARIABLES
    task,       \* the state of each submission and of its task
    queue,      \* the channel of tasks
    worker,     \* what each worker is running
    closer,     \* how far Close has come
    crashed     \* a send on a closed channel has panicked

poolVars == <<task, queue, worker, closer, crashed>>

PoolInit ==
    /\ task = [t \in Tasks |-> "new"]
    /\ queue = <<>>
    /\ worker = [w \in Workers |-> NoTask]
    /\ closer = "open"
    /\ crashed = FALSE

PoolClosed == closer # "open"
QueueClosed == closer \in {"waiting", "returned"}

-------------------------------------------------------------------------------
(* Submit.  A submitter that waits when the pool is marked closed is woken *)
(* by it; the model lets it take any case of the select that is ready, as  *)
(* one that comes to the select later can.                                 *)

CheckClosed(t) ==
    /\ task[t] = "new"
    /\ task' = [task EXCEPT ![t] = IF PoolClosed THEN "refused" ELSE "select"]
    /\ UNCHANGED <<queue, worker, closer, crashed>>

(* Fault: the channel is offered a task again after it took it.             *)
FaultOffering(t) == task[t] \in {"select", "queued"}

(* The goroutine is in the second select.                                  *)
Offering(t) == task[t] = "select"

Send(t) ==
    /\ Offering(t)
    /\ ~ QueueClosed
    /\ Len(queue) < QueueCap
    /\ queue' = Append(queue, t)
    /\ task' = [task EXCEPT ![t] = "queued"]
    /\ UNCHANGED <<worker, closer, crashed>>

SendRefused(t) ==
    /\ task[t] = "select"
    /\ PoolClosed
    /\ task' = [task EXCEPT ![t] = "refused"]
    /\ UNCHANGED <<queue, worker, closer, crashed>>

SendPanics(t) ==
    /\ task[t] = "select"
    /\ QueueClosed
    /\ crashed' = TRUE
    /\ UNCHANGED <<task, queue, worker, closer>>

-------------------------------------------------------------------------------
(* worker: a range over the channel, which goes on after its close until   *)
(* the channel is empty                                                    *)

Take(w) ==
    /\ worker[w] = NoTask
    /\ queue # <<>>
    /\ worker' = [worker EXCEPT ![w] = Head(queue)]
    /\ task' = [task EXCEPT ![Head(queue)] = "running"]
    /\ queue' = Tail(queue)
    /\ UNCHANGED <<closer, crashed>>

(* Fault: a task that fails takes its worker along.                         *)
FaultAfterTask == Gone

(* The worker goes on, whatever the task returned.                         *)
AfterTask == NoTask

TaskReturns(w) ==
    /\ worker[w] \in Tasks
    /\ task' = [task EXCEPT ![worker[w]] = "done"]
    /\ worker' = [worker EXCEPT ![w] = AfterTask]
    /\ UNCHANGED <<queue, closer, crashed>>

(* Fault: a closed channel ends the range with tasks in it.                 *)
FaultRangeEnds == QueueClosed

RangeEnds == QueueClosed /\ queue = <<>>

WorkerReturns(w) ==
    /\ worker[w] = NoTask
    /\ RangeEnds
    /\ worker' = [worker EXCEPT ![w] = Gone]
    /\ UNCHANGED <<task, queue, closer, crashed>>

-------------------------------------------------------------------------------
(* Close                                                                   *)

ClosePool ==
    /\ closer = "open"
    /\ closer' = "flagged"
    /\ UNCHANGED <<task, queue, worker, crashed>>

CloseQueue ==
    /\ closer = "flagged"
    /\ closer' = "waiting"
    /\ UNCHANGED <<task, queue, worker, crashed>>

CloseReturns ==
    /\ closer = "waiting"
    /\ \A w \in Workers : worker[w] = Gone
    /\ closer' = "returned"
    /\ UNCHANGED <<task, queue, worker, crashed>>

-------------------------------------------------------------------------------
Submit(t) == CheckClosed(t) \/ Send(t) \/ SendRefused(t) \/ SendPanics(t)

Work(w) == Take(w) \/ TaskReturns(w) \/ WorkerReturns(w)

FinishClose == CloseQueue \/ CloseReturns

PoolNext ==
    /\ ~ crashed
    /\ \/ \E t \in Tasks : Submit(t)
       \/ \E w \in Workers : Work(w)
       \/ ClosePool
       \/ FinishClose

PoolSpec == PoolInit /\ [][PoolNext]_poolVars

-------------------------------------------------------------------------------
(* Properties                                                              *)

PoolTypeOK ==
    /\ task \in [Tasks -> {"new", "select", "queued", "running", "done", "refused"}]
    /\ queue \in Seq(Tasks)
    /\ worker \in [Workers -> Tasks \union {NoTask, Gone}]
    /\ closer \in {"open", "flagged", "waiting", "returned"}
    /\ crashed \in BOOLEAN

(* An accepted task is in the channel or with exactly one worker until it  *)
(* is done: Close neither loses one nor makes one run twice.               *)
TasksAreInOnePlace ==
    /\ PoolTypeOK
    /\ IsInjective(queue)
    /\ Range(queue) = {t \in Tasks : task[t] = "queued"}
    /\ \A t \in Tasks :
          task[t] = "running" <=> \E w \in Workers : worker[w] = t
    /\ \A v, w \in Workers : v # w /\ worker[v] \in Tasks => worker[v] # worker[w]

(* pool.go lines 11 and 63, "executes tasks with a fixed number of         *)
(* goroutines", "Close stops accepting tasks and waits for queued tasks to *)
(* finish": each accepted task runs once, no more at a time than there are *)
(* workers, only a pool that is closing refuses one, and Close returns     *)
(* after the last.                                                         *)
Promise == INSTANCE TaskPool WITH
    Size <- Cardinality(Workers),
    state <- [t \in Tasks |-> IF task[t] = "select" THEN "new"
                              ELSE IF task[t] = "queued" THEN "accepted"
                              ELSE task[t]],
    pool <- IF closer = "open" THEN "open"
            ELSE IF closer = "returned" THEN "closed"
            ELSE "closing"

TaskPoolSpec == Promise!Spec

(* pool.go line 48, "Submit ... returns an error after the pool is         *)
(* closed": it never panics.                                               *)
SubmitReturnsAnError == ~ crashed

===============================================================================
