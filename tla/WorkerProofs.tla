------------------------------ MODULE WorkerProofs -----------------------------
(***************************************************************************)
(* Proofs about the background work: WorkerPool, for any tasks, any finite *)
(* number of workers and any capacity of the channel, JobScheduler, for    *)
(* any limit, number of slots and pushes, and Checkpoint, for any matrix   *)
(* and number of restarts.                                                 *)
(***************************************************************************)
EXTENDS WorkerPool, JobScheduler, Checkpoint, CollectionLemmas, FiniteSetTheorems

-------------------------------------------------------------------------------
(* Where every task is.  TasksAreInOnePlace is inductive as it stands; the *)
(* promise needs beside it that a worker which has returned left nothing   *)
(* behind: it returned when the channel was closed and empty, and a closed *)
(* channel stays both.                                                     *)

GoneLeaveNothing ==
    \A w \in Workers : worker[w] = Gone => QueueClosed /\ queue = <<>>

PoolInv == TasksAreInOnePlace /\ GoneLeaveNothing

LEMMA PoolInvInit == PoolInit => PoolInv
<1> SUFFICES ASSUME PoolInit PROVE PoolInv
  OBVIOUS
<1>1. IsInjective(queue) /\ Range(queue) = {}
  BY DEF PoolInit, IsInjective, Range
<1>2. PoolTypeOK
  <2>1. queue \in Seq(Tasks)
    BY DEF PoolInit
  <2> QED  BY <2>1 DEF PoolInit, PoolTypeOK
<1>3. \A t \in Tasks : task[t] = "new"
  BY DEF PoolInit
<1>4. \A w \in Workers : worker[w] = NoTask
  BY DEF PoolInit
<1>5. TasksAreInOnePlace
  BY <1>1, <1>2, <1>3, <1>4, NoTaskAssumption DEF TasksAreInOnePlace
<1>6. GoneLeaveNothing
  BY <1>4, NoTaskAssumption DEF GoneLeaveNothing
<1> QED  BY <1>5, <1>6 DEF PoolInv

(* A step moves at most one task: these are the moves.                     *)
SubmitterMoves(t, to) ==
    /\ t \in Tasks
    /\ task[t] \in {"new", "select"}
    /\ task' = [task EXCEPT ![t] = to]
    /\ to \in {"select", "refused"}
    /\ UNCHANGED <<queue, worker, closer, crashed>>

LEMMA SubmitterKeeps ==
    ASSUME PoolInv, NEW t, NEW to, SubmitterMoves(t, to) PROVE PoolInv'
<1> USE DEF SubmitterMoves, PoolInv, TasksAreInOnePlace, PoolTypeOK
<1>1. PoolTypeOK' /\ IsInjective(queue')
  OBVIOUS
<1>2. \A u \in Tasks : /\ task'[u] = "queued" <=> task[u] = "queued"
                       /\ task'[u] = "running" <=> task[u] = "running"
  OBVIOUS
<1>3. TasksAreInOnePlace'
  BY <1>1, <1>2
<1>4. GoneLeaveNothing'
  BY DEF GoneLeaveNothing, QueueClosed
<1> QED  BY <1>3, <1>4

LEMMA PoolInvStep == PoolInv /\ [PoolNext]_poolVars => PoolInv'
<1> SUFFICES ASSUME PoolInv, [PoolNext]_poolVars PROVE PoolInv'
  OBVIOUS
<1> USE DEF PoolInv, TasksAreInOnePlace, PoolTypeOK
<1>1. ASSUME NEW t \in Tasks, CheckClosed(t) \/ SendRefused(t) PROVE PoolInv'
  <2>1. SubmitterMoves(t, "select") \/ SubmitterMoves(t, "refused")
    BY <1>1 DEF CheckClosed, SendRefused, SubmitterMoves
  <2> QED  BY <2>1, SubmitterKeeps
<1>2. ASSUME NEW t \in Tasks, Send(t) PROVE PoolInv'
  <2>1. t \notin Range(queue)
    BY <1>2 DEF Send, Offering
  <2>2. /\ IsInjective(queue')
        /\ Range(queue') = Range(queue) \union {t}
        /\ queue' \in Seq(Tasks)
    BY <1>2, <2>1, AppendNew DEF Send
  <2>3. /\ task'[t] = "queued" /\ task[t] = "select"
        /\ \A u \in Tasks \ {t} : task'[u] = task[u]
        /\ task' \in [Tasks -> {"new", "select", "queued", "running", "done", "refused"}]
        /\ UNCHANGED <<worker, closer, crashed>>
    BY <1>2 DEF Send, Offering
  <2>4. TasksAreInOnePlace'
    BY <2>2, <2>3
  <2>5. GoneLeaveNothing'
    BY <1>2, <2>3 DEF GoneLeaveNothing, Send
  <2> QED  BY <2>4, <2>5
<1>3. ASSUME NEW t \in Tasks, SendPanics(t) PROVE PoolInv'
  BY <1>3 DEF SendPanics, GoneLeaveNothing, QueueClosed
<1>4. ASSUME NEW w \in Workers, Take(w) PROVE PoolInv'
  <2> DEFINE t == Head(queue)
  <2>1. /\ t \in Tasks /\ t \in Range(queue)
        /\ queue' \in Seq(Tasks)
        /\ IsInjective(queue')
        /\ Range(queue') = Range(queue) \ {t}
    BY <1>4, HeadTailTypes, TailOfInjective DEF Take
  <2>2. /\ task[t] = "queued" /\ task'[t] = "running"
        /\ \A u \in Tasks \ {t} : task'[u] = task[u]
        /\ task' \in [Tasks -> {"new", "select", "queued", "running", "done", "refused"}]
        /\ worker[w] = NoTask /\ worker'[w] = t
        /\ \A v \in Workers \ {w} : worker'[v] = worker[v]
        /\ worker' \in [Workers -> Tasks \union {NoTask, Gone}]
        /\ UNCHANGED <<closer, crashed>>
    BY <1>4, <2>1 DEF Take
  <2>3. \A v \in Workers : worker[v] # t
    BY <2>1, <2>2
  <2> HIDE DEF t
  <2>4. TasksAreInOnePlace'
    <3>1. \A u \in Tasks : task'[u] = "running" <=> \E v \in Workers : worker'[v] = u
      BY <2>1, <2>2, <2>3, NoTaskAssumption
    <3>2. \A v, x \in Workers : v # x /\ worker'[v] \in Tasks => worker'[v] # worker'[x]
      BY <2>2, <2>3, NoTaskAssumption
    <3> QED  BY <2>1, <2>2, <3>1, <3>2
  <2>5. GoneLeaveNothing'
    <3>1. \A v \in Workers : worker[v] # Gone
      BY <1>4 DEF GoneLeaveNothing, Take
    <3> QED  BY <2>1, <2>2, <3>1, NoTaskAssumption DEF GoneLeaveNothing
  <2> QED  BY <2>4, <2>5
<1>5. ASSUME NEW w \in Workers, TaskReturns(w) PROVE PoolInv'
  <2> DEFINE t == worker[w]
  <2>1. /\ t \in Tasks /\ task[t] = "running" /\ task'[t] = "done"
        /\ \A u \in Tasks \ {t} : task'[u] = task[u]
        /\ task' \in [Tasks -> {"new", "select", "queued", "running", "done", "refused"}]
        /\ worker'[w] = NoTask
        /\ \A v \in Workers \ {w} : worker'[v] = worker[v] /\ worker[v] # t
        /\ worker' \in [Workers -> Tasks \union {NoTask, Gone}]
        /\ UNCHANGED <<queue, closer, crashed>>
    BY <1>5 DEF TaskReturns, AfterTask
  <2>2. \A u \in Tasks : task'[u] = "running" <=> \E v \in Workers : worker'[v] = u
    BY <2>1, NoTaskAssumption
  <2>3. \A v, x \in Workers : v # x /\ worker'[v] \in Tasks => worker'[v] # worker'[x]
    BY <2>1, NoTaskAssumption
  <2>4. Range(queue') = {u \in Tasks : task'[u] = "queued"}
    BY <2>1
  <2>5. TasksAreInOnePlace'
    BY <2>1, <2>2, <2>3, <2>4
  <2>6. GoneLeaveNothing'
    BY <2>1, NoTaskAssumption DEF GoneLeaveNothing, QueueClosed
  <2> QED  BY <2>5, <2>6
<1>6. ASSUME NEW w \in Workers, WorkerReturns(w) PROVE PoolInv'
  <2>1. /\ worker[w] = NoTask /\ worker'[w] = Gone
        /\ \A v \in Workers \ {w} : worker'[v] = worker[v]
        /\ worker' \in [Workers -> Tasks \union {NoTask, Gone}]
        /\ QueueClosed /\ queue = <<>>
        /\ UNCHANGED <<task, queue, closer, crashed>>
    BY <1>6 DEF WorkerReturns, RangeEnds
  <2>2. TasksAreInOnePlace'
    BY <2>1, NoTaskAssumption
  <2>3. GoneLeaveNothing'
    BY <2>1 DEF GoneLeaveNothing, QueueClosed
  <2> QED  BY <2>2, <2>3
<1>7. CASE ClosePool \/ FinishClose
  BY <1>7 DEF ClosePool, FinishClose, CloseQueue, CloseReturns, GoneLeaveNothing, QueueClosed
<1>8. CASE UNCHANGED poolVars
  BY <1>8 DEF poolVars, GoneLeaveNothing, QueueClosed
<1> QED
  BY <1>1, <1>2, <1>3, <1>4, <1>5, <1>6, <1>7, <1>8 DEF PoolNext, Submit, Work

LEMMA PoolInductive == PoolSpec => []PoolInv
  BY PoolInvInit, PoolInvStep, PTL DEF PoolSpec

(* An accepted task is in the channel or with one worker until it is done. *)
THEOREM NoTaskIsLostOrRunTwice == PoolSpec => []TasksAreInOnePlace
<1>1. PoolInv => TasksAreInOnePlace
  BY DEF PoolInv
<1> QED  BY <1>1, PoolInductive, PTL

-------------------------------------------------------------------------------
(* WorkerPool implements TaskPool.                                         *)

RunningTasks == {t \in Tasks : task[t] = "running"}

(* The running tasks are as many as some set of busy workers, so with one  *)
(* worker idle they are fewer than the workers.                            *)
LEMMA IdleWorkerBounds ==
    ASSUME PoolInv, NEW w \in Workers, worker[w] = NoTask
    PROVE  Cardinality(RunningTasks) < Cardinality(Workers)
<1> USE DEF PoolInv, TasksAreInOnePlace, PoolTypeOK, RunningTasks
<1> DEFINE Others == Workers \ {w}
           runner == [t \in RunningTasks |-> CHOOSE v \in Workers : worker[v] = t]
<1>1. \A t \in RunningTasks : runner[t] \in Workers /\ worker[runner[t]] = t
  OBVIOUS
<1>2. \A t \in RunningTasks : runner[t] \in Others
  BY <1>1, NoTaskAssumption
<1>3. runner \in [RunningTasks -> Others]
  BY <1>2
<1>4. \A t, u \in RunningTasks : runner[t] = runner[u] => t = u
  BY <1>1
<1> HIDE DEF runner
<1>5. runner \in Injection(RunningTasks, Others)
  BY <1>3, <1>4 DEF Injection, IsInjective
<1>6. IsFiniteSet(Others) /\ Cardinality(Others) = Cardinality(Workers) - 1
  BY FS_RemoveElement, WorkersAssumption
<1>7. IsFiniteSet(RunningTasks) /\ Cardinality(RunningTasks) <= Cardinality(Others)
  BY <1>5, <1>6, FS_Injection
<1>8. Cardinality(Workers) \in Nat /\ Cardinality(RunningTasks) \in Nat
  BY <1>7, FS_CardinalityType, WorkersAssumption
<1> QED  BY <1>6, <1>7, <1>8

LEMMA PromiseInit == PoolInit => Promise!Init
  BY DEF PoolInit, Promise!Init

LEMMA PromiseStep ==
    ASSUME PoolInv, [PoolNext]_poolVars
    PROVE  [Promise!Next]_(Promise!vars)
<1> USE DEF PoolInv, TasksAreInOnePlace, PoolTypeOK
<1> DEFINE State == [t \in Tasks |-> IF task[t] = "select" THEN "new"
                                     ELSE IF task[t] = "queued" THEN "accepted"
                                     ELSE task[t]]
           PoolState == IF closer = "open" THEN "open"
                        ELSE IF closer = "returned" THEN "closed"
                        ELSE "closing"
<1>1. ASSUME NEW t \in Tasks, NEW from, NEW to,
             State[t] = from,
             State' = [State EXCEPT ![t] = to],
             UNCHANGED closer
      PROVE  Promise!Move(t, from, to)
  BY <1>1 DEF Promise!Move
<1>2. ASSUME NEW t \in Tasks, CheckClosed(t) PROVE [Promise!Next]_(Promise!vars)
  <2>1. CASE PoolClosed
    <3>1. State[t] = "new" /\ State' = [State EXCEPT ![t] = "refused"] /\ UNCHANGED closer
      BY <1>2, <2>1 DEF CheckClosed
    <3>2. Promise!Refuse(t)
      BY <1>1, <2>1, <3>1 DEF Promise!Refuse, PoolClosed
    <3> QED  BY <3>2 DEF Promise!Next
  <2>2. CASE ~ PoolClosed
    <3>1. State' = State /\ PoolState' = PoolState
      BY <1>2, <2>2 DEF CheckClosed
    <3> QED  BY <3>1 DEF Promise!vars
  <2> QED  BY <2>1, <2>2
<1>3. ASSUME NEW t \in Tasks, SendRefused(t) PROVE Promise!Next
  <2>1. State[t] = "new" /\ State' = [State EXCEPT ![t] = "refused"] /\ UNCHANGED closer
    BY <1>3 DEF SendRefused
  <2>2. Promise!Refuse(t)
    BY <1>1, <1>3, <2>1 DEF Promise!Refuse, PoolClosed, SendRefused
  <2> QED  BY <2>2 DEF Promise!Next
<1>4. ASSUME NEW t \in Tasks, Send(t) PROVE Promise!Next
  <2>1. State[t] = "new" /\ State' = [State EXCEPT ![t] = "accepted"] /\ UNCHANGED closer
    BY <1>4 DEF Send, Offering
  <2>2. Promise!Accept(t)
    BY <1>1, <1>4, <2>1 DEF Promise!Accept, QueueClosed, Send
  <2> QED  BY <2>2 DEF Promise!Next
<1>5. ASSUME NEW w \in Workers, Take(w) PROVE Promise!Next
  <2>1. PICK t \in Tasks : t = Head(queue) /\ task[t] = "queued"
    BY <1>5, TailOfInjective, HeadTailTypes DEF Take
  <2>2. State[t] = "accepted" /\ State' = [State EXCEPT ![t] = "running"] /\ UNCHANGED closer
    BY <1>5, <2>1 DEF Take
  <2>3. Promise!In("running") = RunningTasks
    BY DEF Promise!In, RunningTasks
  <2>4. Cardinality(Promise!In("running")) < Cardinality(Workers)
    BY <1>5, <2>3, IdleWorkerBounds DEF Take
  <2>5. Promise!Move(t, "accepted", "running")
    BY <1>1, <2>2
  <2>6. Promise!Start(t)
    <3>1. Promise!Cardinality(Promise!In("running")) = Cardinality(Promise!In("running"))
      BY DEF Promise!Cardinality, Cardinality
    <3> QED  BY <2>4, <2>5, <3>1 DEF Promise!Start
  <2> QED  BY <2>6 DEF Promise!Next
<1>6. ASSUME NEW w \in Workers, TaskReturns(w) PROVE Promise!Next
  <2>1. PICK t \in Tasks : t = worker[w] /\ task[t] = "running"
    BY <1>6 DEF TaskReturns
  <2>2. State[t] = "running" /\ State' = [State EXCEPT ![t] = "done"] /\ UNCHANGED closer
    BY <1>6, <2>1 DEF TaskReturns
  <2>3. Promise!Finish(t)
    BY <1>1, <2>2 DEF Promise!Finish
  <2> QED  BY <2>3 DEF Promise!Next
<1>7. CASE ClosePool
  <2>1. Promise!BeginClose
    BY <1>7 DEF ClosePool, Promise!BeginClose
  <2> QED  BY <2>1 DEF Promise!Next
<1>8. CASE CloseReturns
  <2>1. PICK w \in Workers : worker[w] = Gone
    BY <1>8, WorkersAssumption DEF CloseReturns
  <2>2. queue = <<>>
    BY <2>1 DEF GoneLeaveNothing
  <2>3. Range(queue) = {}
    BY <2>2 DEF Range
  <2>4. \A t \in Tasks : task[t] \notin {"queued", "running"}
    BY <1>8, <2>3, NoTaskAssumption DEF CloseReturns
  <2>5. Promise!In("accepted") \union Promise!In("running") = {}
    BY <2>4 DEF Promise!In
  <2>6. Promise!Close
    BY <1>8, <2>5 DEF CloseReturns, Promise!Close
  <2> QED  BY <2>6 DEF Promise!Next
<1>9. ASSUME UNCHANGED task, PoolState' = PoolState PROVE UNCHANGED Promise!vars
  BY <1>9 DEF Promise!vars
<1>10. CASE \/ \E t \in Tasks : SendPanics(t)
            \/ \E w \in Workers : WorkerReturns(w)
            \/ CloseQueue
            \/ UNCHANGED poolVars
  <2>1. UNCHANGED task /\ PoolState' = PoolState
    BY <1>10 DEF SendPanics, WorkerReturns, CloseQueue, poolVars
  <2> QED  BY <1>9, <2>1
<1> QED
  BY <1>2, <1>3, <1>4, <1>5, <1>6, <1>7, <1>8, <1>10 DEF PoolNext, Submit, Work, FinishClose

(* Whatever Submit, Close and the workers do in whatever order, the pool   *)
(* keeps its promise: each accepted task runs once, no more at a time than *)
(* there are workers, and none is left when Close returns.                 *)
THEOREM KeepsThePromise == PoolSpec => TaskPoolSpec
<1>1. PoolInv /\ [PoolNext]_poolVars => [Promise!Next]_(Promise!vars)
  BY PromiseStep
<1> QED
  BY PromiseInit, <1>1, PoolInductive, PTL DEF PoolSpec, TaskPoolSpec, Promise!Spec

-------------------------------------------------------------------------------
(* The queue                                                               *)

(* A queue whose order is that of the sort, and of the pushes where the    *)
(* sort leaves it open.                                                    *)
Ordered(list) ==
    \A i, j \in 1 .. Len(list) : i < j =>
        \/ Before(list[i], list[j])
        \/ ~ Before(list[j], list[i]) /\ list[i].nth < list[j].nth

(* A strict order in which what is not before a third is in its place.     *)
LEMMA BeforeIsWeakOrder ==
    ASSUME NEW a \in Envelopes, NEW b \in Envelopes, NEW c \in Envelopes, ~ Before(c, b),
           Before(a, b) \/ ~ Before(b, a)
    PROVE  ~ Before(c, a)
<1>1. /\ a.priority \in Nat /\ b.priority \in Nat /\ c.priority \in Nat
      /\ a.at \in Nat /\ b.at \in Nat /\ c.at \in Nat
  BY PrioritiesAssumption, InstantsAssumption DEF Envelopes
<1> QED  BY <1>1 DEF Before

(* Where the sort leaves a new envelope: after the p that it is not before.*)
LEMMA PlaceOfNew ==
    ASSUME NEW list \in Seq(Envelopes), NEW env \in Envelopes, Ordered(list)
    PROVE  \E p \in 0 .. Len(list) :
              /\ Sorted(list, env) = InsertAt(list, p + 1, env)
              /\ \A i \in 1 .. Len(list) : i <= p <=> ~ Before(env, list[i])
<1> DEFINE n == Len(list)
           ahead == {i \in DOMAIN list : ~ Before(env, list[i])}
           p == Max(ahead \union {0})
<1>1. n \in Nat /\ DOMAIN list = 1 .. n
  OBVIOUS
<1>2. ahead \union {0} \subseteq 0 .. n /\ ahead \union {0} # {}
  BY <1>1
<1>3. p \in ahead \union {0} /\ \A i \in ahead \union {0} : i <= p
  BY <1>1, <1>2, GreatestNumber
<1>4. Sorted(list, env) = InsertAt(list, p + 1, env)
  BY DEF Sorted
<1> HIDE DEF p
<1>5. p \in 0 .. n
  BY <1>2, <1>3
<1>6. ASSUME NEW i \in 1 .. n, i <= p PROVE ~ Before(env, list[i])
  <2>1. CASE i = p
    BY <1>3, <2>1
  <2>2. CASE i < p
    <3>1. p \in 1 .. n /\ ~ Before(env, list[p])
      BY <1>1, <1>3, <1>5, <2>2
    <3>2. list[i] \in Envelopes /\ list[p] \in Envelopes
      BY <1>1, <3>1
    <3>3. Before(list[i], list[p]) \/ ~ Before(list[p], list[i])
      BY <1>1, <2>2, <3>1 DEF Ordered
    <3> QED  BY <3>1, <3>2, <3>3, BeforeIsWeakOrder
  <2> QED  BY <1>5, <1>6, <2>1, <2>2
<1>7. ASSUME NEW i \in 1 .. n, ~ Before(env, list[i]) PROVE i <= p
  BY <1>1, <1>3, <1>7
<1> QED  BY <1>4, <1>5, <1>6, <1>7

-------------------------------------------------------------------------------
(* The scheduler.  Every envelope pushed is queued, in Run's hand, with a  *)
(* goroutine that has yet to process it, processed or dropped.             *)

EarlierPushes == \A i \in 1 .. Len(items) : items[i].nth <= pushes

Starting == goroutines["start"]
Processing == goroutines["process"]
Ending == goroutines["end"]
Releasing == goroutines["release"]

SlotsAreTaken ==
    /\ slots = Starting + Processing + Ending + Releasing
    /\ slots <= Slots
    /\ active = Processing + Ending

InHand == IF run = "slot" THEN 1 ELSE 0

EnvelopesAreCounted ==
    /\ pushes = processed + dropped + Len(items) + InHand
                + Starting + Processing
    /\ run = "slot" => hand \in Envelopes
    /\ dropped <= 1
    /\ run \in {"pop", "empty", "slot"} => dropped = 0
    /\ run = "returned" => Starting = 0 /\ Processing = 0

SchedulerInv ==
    /\ SchedulerTypeOK
    /\ QueueIsOrdered
    /\ SeenIsWhatIsQueued
    /\ EarlierPushes
    /\ SlotsAreTaken
    /\ EnvelopesAreCounted

QueueInv == QueueIsOrdered /\ SeenIsWhatIsQueued /\ EarlierPushes

LEMMA SchedulerInvInit == SchedulerInit => SchedulerInv
<1> SUFFICES ASSUME SchedulerInit PROVE SchedulerInv
  OBVIOUS
<1>1. Len(items) = 0 /\ items \in Seq(Envelopes)
  BY DEF SchedulerInit
<1>2. QueueIsOrdered /\ EarlierPushes /\ SeenIsWhatIsQueued
  BY <1>1, LimitAssumption
     DEF SchedulerInit, QueueIsOrdered, EarlierPushes, SeenIsWhatIsQueued
<1>3. /\ goroutines \in [Steps -> Nat]
      /\ Starting = 0 /\ Processing = 0 /\ Ending = 0 /\ Releasing = 0
  BY DEF SchedulerInit, Steps, Starting, Processing, Ending, Releasing
<1>4. /\ seen = {} /\ run = "pop" /\ hand = NoEnvelope /\ slots = 0 /\ active = 0
      /\ cancelled = FALSE /\ pushes = 0 /\ processed = 0 /\ dropped = 0
  BY DEF SchedulerInit
<1>5. SlotsAreTaken /\ EnvelopesAreCounted
  BY <1>1, <1>3, <1>4, SlotsAssumption DEF SlotsAreTaken, EnvelopesAreCounted, InHand
<1>6. SchedulerTypeOK
  <2>1. pushes \in 0 .. MaxPushes /\ processed \in 0 .. pushes
    BY <1>4, MaxPushesAssumption
  <2>2. /\ seen \subseteq Jobs /\ run \in {"pop", "empty", "slot", "wait", "returned"}
        /\ hand \in Envelopes \union {NoEnvelope} /\ slots \in Nat /\ active \in Nat
        /\ cancelled \in BOOLEAN /\ dropped \in Nat
    BY <1>4
  <2> QED  BY <1>1, <1>3, <2>1, <2>2 DEF SchedulerTypeOK
<1> QED  BY <1>2, <1>5, <1>6 DEF SchedulerInv

LEMMA PushKeepsQueue ==
    ASSUME SchedulerInv, NEW env \in Envelopes, Push(env)
    PROVE  QueueInv' /\ Len(items') = Len(items) + 1 /\ items' \in Seq(Envelopes)
<1> DEFINE n == Len(items)
<1>1. items \in Seq(Envelopes) /\ n \in Nat /\ Ordered(items) /\ pushes \in Nat
  BY DEF SchedulerInv, SchedulerTypeOK, QueueIsOrdered, Ordered
<1>2. PICK p \in 0 .. n :
         /\ Sorted(items, env) = InsertAt(items, p + 1, env)
         /\ \A i \in 1 .. n : i <= p <=> ~ Before(env, items[i])
  BY <1>1, PlaceOfNew
<1>3. items' = InsertAt(items, p + 1, env) /\ env.nth = pushes + 1 /\ pushes' = pushes + 1
  BY <1>2 DEF Push
<1>4. /\ items' \in Seq(Envelopes)
      /\ Len(items') = n + 1
      /\ \A i \in 1 .. p : items'[i] = items[i]
      /\ items'[p + 1] = env
      /\ \A i \in (p + 2) .. (n + 1) : items'[i] = items[i - 1]
  <2>1. p \in 0 .. Len(items)
    OBVIOUS
  <2>2. items \in Seq(Envelopes)
    BY <1>1
  <2>3. IsInsertion(Envelopes, InsertAt(items, p + 1, env), items, p, env)
    BY <2>1, <2>2, Inserted, Zenon
  <2> QED  BY <1>3, <2>3, Zenon DEF IsInsertion
<1> HIDE DEF n
<1>5. PICK new : new = items'
  OBVIOUS
<1>6. ASSUME NEW i \in 1 .. (n + 1)
      PROVE  \/ i \in 1 .. p /\ i \in 1 .. n /\ new[i] = items[i]
             \/ i = p + 1 /\ new[i] = env
             \/ i \in (p + 2) .. (n + 1) /\ i - 1 \in (p + 1) .. n /\ i - 1 \in 1 .. n /\ new[i] = items[i - 1]
  <2>1. \/ i \in 1 .. p /\ i \in 1 .. n
        \/ i = p + 1
        \/ i \in (p + 2) .. (n + 1) /\ i - 1 \in (p + 1) .. n /\ i - 1 \in 1 .. n
    BY <1>1
  <2> QED  BY <1>4, <1>5, <2>1, Zenon
<1>7. \A i \in 1 .. n : items[i].nth <= pushes /\ items[i].nth \in Nat
  <2>1. \A i \in 1 .. n : items[i] \in Envelopes
    BY <1>1 DEF n
  <2> QED  BY <2>1, MaxPushesAssumption DEF SchedulerInv, EarlierPushes, Envelopes, n
<1>8. EarlierPushes'
  <2>1. \A i \in 1 .. (n + 1) : new[i].nth <= pushes + 1
    BY <1>1, <1>3, <1>6, <1>7
  <2> QED  BY <1>3, <1>4, <1>5, <2>1 DEF EarlierPushes
<1>9. ASSUME NEW i \in 1 .. (n + 1), NEW j \in 1 .. (n + 1), i < j
      PROVE  \/ Before(new[i], new[j])
             \/ ~ Before(new[j], new[i]) /\ new[i].nth < new[j].nth
  <2>1. \A k, l \in 1 .. n : k < l =>
           \/ Before(items[k], items[l])
           \/ ~ Before(items[l], items[k]) /\ items[k].nth < items[l].nth
    BY <1>1 DEF Ordered, n
  <2>2. CASE i \in 1 .. p
    <3>1. i \in 1 .. n /\ new[i] = items[i]
      BY <1>1, <1>6, <2>2
    <3>2. CASE j = p + 1
      <4>1. ~ Before(env, items[i]) /\ items[i].nth < env.nth
        BY <1>1, <1>2, <1>3, <1>7, <2>2, <3>1
      <4> QED  BY <1>6, <3>1, <3>2, <4>1
    <3>3. CASE j \in 1 .. n /\ new[j] = items[j]
      BY <1>9, <2>1, <3>1, <3>3
    <3>4. CASE j - 1 \in 1 .. n /\ new[j] = items[j - 1] /\ j \in (p + 2) .. (n + 1)
      <4>1. i < j - 1
        BY <1>1, <2>2, <3>4
      <4> QED  BY <2>1, <3>1, <3>4, <4>1
    <3> QED  BY <1>6, <3>2, <3>3, <3>4
  <2>3. CASE i = p + 1
    <3>1. new[i] = env /\ j - 1 \in 1 .. n /\ j - 1 \in (p + 1) .. n /\ new[j] = items[j - 1]
      BY <1>1, <1>6, <1>9, <2>3
    <3>2. Before(env, items[j - 1])
      <4>1. ~ (j - 1 <= p)
        BY <1>1, <3>1
      <4> QED  BY <1>2, <3>1, <4>1
    <3> QED  BY <3>1, <3>2
  <2>4. CASE i \in (p + 2) .. (n + 1)
    <3>1. /\ i - 1 \in 1 .. n /\ new[i] = items[i - 1]
          /\ j - 1 \in 1 .. n /\ new[j] = items[j - 1]
          /\ i - 1 < j - 1
      BY <1>1, <1>6, <1>9, <2>4
    <3> QED  BY <2>1, <3>1
  <2> QED  BY <1>6, <2>2, <2>3, <2>4
<1>10. QueueIsOrdered'
  BY <1>4, <1>5, <1>9 DEF QueueIsOrdered
<1>11. /\ seen = {items[i].job : i \in 1 .. n} /\ seen' = seen \union {env.job}
       /\ env.job \notin seen /\ n < Limit
       /\ \A i, j \in 1 .. n : i # j => items[i].job # items[j].job
  BY DEF SchedulerInv, SeenIsWhatIsQueued, Push, Fits, n
<1>12. \A i \in 1 .. n : items[i].job \in seen
  BY <1>11
<1>13. seen' = {new[i].job : i \in 1 .. (n + 1)}
  <2>1. ASSUME NEW i \in 1 .. (n + 1) PROVE new[i].job \in seen'
    BY <1>6, <1>11, <1>12
  <2>2. ASSUME NEW j \in seen' PROVE \E i \in 1 .. (n + 1) : new[i].job = j
    <3>1. CASE j = env.job
      <4>1. p + 1 \in 1 .. (n + 1)
        BY <1>1
      <4> QED  BY <1>4, <1>5, <3>1, <4>1
    <3>2. ASSUME NEW i \in 1 .. n, items[i].job = j PROVE \E k \in 1 .. (n + 1) : new[k].job = j
      <4>1. CASE i \in 1 .. p
        <5>1. i \in 1 .. (n + 1)
          BY <1>1
        <5> QED  BY <1>4, <1>5, <3>2, <4>1, <5>1
      <4>2. CASE i \in (p + 1) .. n
        <5>1. i + 1 \in (p + 2) .. (n + 1) /\ i + 1 \in 1 .. (n + 1) /\ (i + 1) - 1 = i
          BY <1>1, <4>2
        <5> QED  BY <1>4, <1>5, <3>2, <5>1
      <4> QED  BY <1>1, <4>1, <4>2
    <3> QED  BY <1>11, <3>1, <3>2
  <2> QED  BY <2>1, <2>2
<1>14. ASSUME NEW i \in 1 .. (n + 1), NEW j \in 1 .. (n + 1), i < j
       PROVE  new[i].job # new[j].job
  <2>1. ASSUME NEW k \in 1 .. n, NEW l \in 1 .. n, k # l PROVE items[k].job # items[l].job
    BY <1>11, <2>1
  <2>2. CASE i \in 1 .. p
    <3>1. i \in 1 .. n /\ new[i] = items[i]
      BY <1>1, <1>6, <2>2
    <3>2. CASE j = p + 1
      BY <1>6, <1>11, <1>12, <3>1, <3>2
    <3>3. CASE j \in 1 .. n /\ new[j] = items[j]
      BY <1>14, <2>1, <3>1, <3>3
    <3>4. CASE j - 1 \in 1 .. n /\ new[j] = items[j - 1] /\ j \in (p + 2) .. (n + 1)
      <4>1. i # j - 1
        BY <1>1, <2>2, <3>4
      <4> QED  BY <2>1, <3>1, <3>4, <4>1
    <3> QED  BY <1>6, <3>2, <3>3, <3>4
  <2>3. CASE i = p + 1
    <3>1. new[i] = env /\ j - 1 \in 1 .. n /\ new[j] = items[j - 1]
      BY <1>1, <1>6, <1>14, <2>3
    <3> QED  BY <1>11, <1>12, <3>1
  <2>4. CASE i \in (p + 2) .. (n + 1)
    <3>1. /\ i - 1 \in 1 .. n /\ new[i] = items[i - 1]
          /\ j - 1 \in 1 .. n /\ new[j] = items[j - 1]
          /\ i - 1 # j - 1
      BY <1>1, <1>6, <1>14, <2>4
    <3> QED  BY <2>1, <3>1
  <2> QED  BY <1>6, <2>2, <2>3, <2>4
<1>15. \A i, j \in 1 .. (n + 1) : i # j => new[i].job # new[j].job
  <2>1. \A i, j \in 1 .. (n + 1) : i # j => i < j \/ j < i
    BY <1>1
  <2> QED  BY <1>14, <2>1
<1>16. SeenIsWhatIsQueued'
  <2>1. n + 1 <= Limit
    BY <1>1, <1>11, LimitAssumption
  <2> QED  BY <1>4, <1>5, <1>13, <1>15, <2>1 DEF SeenIsWhatIsQueued
<1> QED  BY <1>4, <1>8, <1>10, <1>16 DEF QueueInv, n

LEMMA PopKeepsQueue ==
    ASSUME SchedulerInv, Pop
    PROVE  /\ QueueInv' /\ Len(items') = Len(items) - 1 /\ items' \in Seq(Envelopes)
           /\ hand' \in Envelopes
<1> DEFINE n == Len(items)
<1>1. /\ items \in Seq(Envelopes) /\ n \in Nat \ {0} /\ pushes \in Nat
      /\ items' = Tail(items) /\ hand' = items[1] /\ seen' = seen \ {items[1].job}
      /\ UNCHANGED pushes
  BY DEF SchedulerInv, SchedulerTypeOK, Pop, history
<1>2. /\ items' \in Seq(Envelopes) /\ Len(items') = n - 1
      /\ \A i \in 1 .. (n - 1) : items'[i] = items[i + 1]
      /\ items[1] \in Envelopes
  BY <1>1
<1> HIDE DEF n
<1>3. \A i \in 1 .. (n - 1) : i + 1 \in 1 .. n /\ i + 1 # 1
  BY <1>1
<1>4. EarlierPushes'
  BY <1>1, <1>2, <1>3 DEF SchedulerInv, EarlierPushes, n
<1>5. QueueIsOrdered'
  <2>1. \A i, j \in 1 .. (n - 1) : i < j => i + 1 < j + 1
    BY <1>1
  <2> QED  BY <1>2, <1>3, <2>1 DEF SchedulerInv, QueueIsOrdered, n
<1>6. /\ seen = {items[i].job : i \in 1 .. n} /\ n <= Limit
      /\ \A i, j \in 1 .. n : i # j => items[i].job # items[j].job
  BY DEF SchedulerInv, SeenIsWhatIsQueued, n
<1>7. seen' = {items'[i].job : i \in 1 .. (n - 1)}
  <2>1. ASSUME NEW i \in 1 .. (n - 1) PROVE items'[i].job \in seen'
    <3>1. 1 \in 1 .. n
      BY <1>1
    <3> QED  BY <1>1, <1>2, <1>3, <1>6, <3>1
  <2>2. ASSUME NEW j \in seen' PROVE \E i \in 1 .. (n - 1) : items'[i].job = j
    <3>1. PICK k \in 1 .. n : items[k].job = j /\ k # 1
      BY <1>1, <1>6
    <3>2. k - 1 \in 1 .. (n - 1) /\ (k - 1) + 1 = k
      BY <1>1, <3>1
    <3> QED  BY <1>2, <3>1, <3>2
  <2> QED  BY <2>1, <2>2
<1>8. \A i, j \in 1 .. (n - 1) : i # j => items'[i].job # items'[j].job
  <2>1. \A i, j \in 1 .. (n - 1) : i # j => i + 1 # j + 1
    BY <1>1
  <2> QED  BY <1>2, <1>3, <1>6, <2>1
<1>9. SeenIsWhatIsQueued'
  BY <1>1, <1>2, <1>6, <1>7, <1>8, LimitAssumption DEF SeenIsWhatIsQueued
<1> QED  BY <1>1, <1>2, <1>4, <1>5, <1>9 DEF QueueInv, n

(* The steps that leave the queue alone.                                   *)
LEMMA QueueUnchanged ==
    ASSUME SchedulerInv, UNCHANGED jobQueue, UNCHANGED pushes PROVE QueueInv'
  BY DEF SchedulerInv, jobQueue, QueueInv, QueueIsOrdered, SeenIsWhatIsQueued, EarlierPushes

LEMMA SchedulerInvStep == SchedulerInv /\ [SchedulerNext]_schedulerVars => SchedulerInv'
<1> SUFFICES ASSUME SchedulerInv, [SchedulerNext]_schedulerVars PROVE SchedulerInv'
  OBVIOUS
<1>1. /\ SchedulerTypeOK /\ SlotsAreTaken /\ EnvelopesAreCounted
      /\ Len(items) \in Nat /\ goroutines \in [Steps -> Nat]
      /\ slots \in Nat /\ active \in Nat /\ pushes \in Nat /\ processed \in Nat /\ dropped \in Nat
  BY DEF SchedulerInv, SchedulerTypeOK
<1>2. Starting \in Nat /\ Processing \in Nat /\ Ending \in Nat /\ Releasing \in Nat
  BY <1>1 DEF Steps, Starting, Processing, Ending, Releasing
<1>3. goroutines' = goroutines => UNCHANGED <<Starting, Processing, Ending, Releasing>>
  BY DEF Starting, Processing, Ending, Releasing
<1> USE <1>3, <1>1, <1>2, SlotsAssumption
<1>4. ASSUME NEW env \in Envelopes, Push(env) PROVE SchedulerInv'
  <2>1. QueueInv' /\ Len(items') = Len(items) + 1 /\ items' \in Seq(Envelopes)
    BY <1>4, PushKeepsQueue
  <2>2. /\ pushes' = pushes + 1 /\ pushes' \in 0 .. MaxPushes /\ env.job \in Jobs
        /\ seen' = seen \union {env.job}
        /\ UNCHANGED <<run, hand, slots, goroutines, active, cancelled, processed, dropped>>
    BY <1>4, MaxPushesAssumption DEF Push, inProcess, Envelopes
  <2>3. SlotsAreTaken'
    BY <2>2 DEF SlotsAreTaken
  <2>4. EnvelopesAreCounted'
    BY <2>1, <2>2 DEF EnvelopesAreCounted, InHand
  <2>5. SchedulerTypeOK'
    BY <2>1, <2>2 DEF SchedulerTypeOK
  <2> QED  BY <2>1, <2>3, <2>4, <2>5 DEF SchedulerInv, QueueInv
<1>5. CASE Pop
  <2>1. /\ QueueInv' /\ Len(items') = Len(items) - 1 /\ items' \in Seq(Envelopes)
        /\ hand' \in Envelopes
    BY <1>5, PopKeepsQueue
  <2>2. /\ run = "pop" /\ run' = "slot" /\ seen' \subseteq seen
        /\ UNCHANGED <<slots, goroutines, active, cancelled, pushes, processed, dropped>>
    BY <1>5 DEF Pop, inProcess, history
  <2>3. SlotsAreTaken'
    BY <2>2 DEF SlotsAreTaken
  <2>4. EnvelopesAreCounted'
    BY <2>1, <2>2 DEF EnvelopesAreCounted, InHand
  <2>5. SchedulerTypeOK'
    BY <2>1, <2>2 DEF SchedulerTypeOK
  <2> QED  BY <2>1, <2>3, <2>4, <2>5 DEF SchedulerInv, QueueInv
<1>6. CASE FindEmpty \/ LookAgain \/ Stop \/ Return \/ Cancel
  <2>1. /\ UNCHANGED <<items, seen, hand, slots, goroutines, active, pushes, processed, dropped>>
        /\ cancelled' \in BOOLEAN
        /\ \/ run' = run
           \/ run = "pop" /\ run' = "empty"
           \/ run = "empty" /\ run' \in {"pop", "wait"}
           \/ run = "wait" /\ run' = "returned" /\ Starting = 0 /\ Processing = 0
    BY <1>6
       DEF FindEmpty, LookAgain, Stop, Return, AllDone, Cancel, jobQueue, inProcess, history, SchedulerTypeOK,
           Steps, Starting, Processing
  <2>2. QueueInv'
    BY <2>1, QueueUnchanged DEF jobQueue
  <2>3. SlotsAreTaken'
    BY <2>1 DEF SlotsAreTaken
  <2>4. EnvelopesAreCounted'
    BY <2>1 DEF EnvelopesAreCounted, InHand
  <2>5. SchedulerTypeOK'
    BY <2>1 DEF SchedulerTypeOK
  <2> QED  BY <2>2, <2>3, <2>4, <2>5 DEF SchedulerInv, QueueInv
<1>7. CASE StopWithEnvelope
  <2>1. /\ run = "slot" /\ run' = "wait" /\ dropped' = dropped + 1 /\ hand' = NoEnvelope
        /\ UNCHANGED <<items, seen, slots, goroutines, active, cancelled, pushes, processed>>
    BY <1>7 DEF StopWithEnvelope, jobQueue, inProcess
  <2>2. QueueInv'
    BY <2>1, QueueUnchanged DEF jobQueue
  <2>3. SlotsAreTaken'
    BY <2>1 DEF SlotsAreTaken
  <2>4. EnvelopesAreCounted'
    BY <2>1 DEF EnvelopesAreCounted, InHand
  <2>5. SchedulerTypeOK'
    BY <2>1 DEF SchedulerTypeOK
  <2> QED  BY <2>2, <2>3, <2>4, <2>5 DEF SchedulerInv, QueueInv
<1>8. CASE Dispatch
  <2>1. /\ run = "slot" /\ run' = "pop" /\ slots < Slots /\ slots' = slots + 1
        /\ hand' = NoEnvelope
        /\ goroutines' = [goroutines EXCEPT !["start"] = @ + 1]
        /\ UNCHANGED <<items, seen, active, cancelled, pushes, processed, dropped>>
    BY <1>8 DEF Dispatch, jobQueue, history
  <2>2. /\ goroutines' \in [Steps -> Nat]
        /\ Starting' = Starting + 1
        /\ UNCHANGED <<Processing, Ending, Releasing>>
    BY <2>1 DEF Steps, Starting, Processing, Ending, Releasing
  <2>3. QueueInv'
    BY <2>1, QueueUnchanged DEF jobQueue
  <2>4. SlotsAreTaken'
    BY <2>1, <2>2 DEF SlotsAreTaken
  <2>5. EnvelopesAreCounted'
    BY <2>1, <2>2 DEF EnvelopesAreCounted, InHand
  <2>6. SchedulerTypeOK'
    BY <2>1, <2>2 DEF SchedulerTypeOK
  <2> QED  BY <2>3, <2>4, <2>5, <2>6 DEF SchedulerInv, QueueInv
<1>9. CASE BeginJob
  <2>1. /\ Starting > 0 /\ goroutines' = [goroutines EXCEPT !["start"] = @ - 1, !["process"] = @ + 1]
        /\ active' = active + 1
        /\ UNCHANGED <<items, seen, run, hand, slots, cancelled, pushes, dropped, processed>>
    BY <1>9 DEF BeginJob, Move, Starting, jobQueue
  <2>2. /\ goroutines' \in [Steps -> Nat]
        /\ Starting' = Starting - 1 /\ Processing' = Processing + 1
        /\ UNCHANGED <<Ending, Releasing>>
        /\ QueueInv'
    <3>1. QueueInv'
      BY <2>1, QueueUnchanged DEF jobQueue
    <3> QED  BY <2>1, <3>1 DEF Steps, Starting, Processing, Ending, Releasing
  <2>3. SlotsAreTaken'
    BY <2>1, <2>2 DEF SlotsAreTaken
  <2>4. EnvelopesAreCounted'
    BY <2>1, <2>2 DEF EnvelopesAreCounted, InHand
  <2>5. SchedulerTypeOK'
    BY <2>1, <2>2 DEF SchedulerTypeOK
  <2> QED  BY <2>2, <2>3, <2>4, <2>5 DEF SchedulerInv, QueueInv
<1>10. CASE ProcessJob
  <2>1. /\ Processing > 0 /\ goroutines' = [goroutines EXCEPT !["process"] = @ - 1, !["end"] = @ + 1]
        /\ processed' = processed + 1
        /\ UNCHANGED <<items, seen, run, hand, slots, cancelled, pushes, dropped, active>>
    BY <1>10 DEF ProcessJob, Move, Processing, jobQueue
  <2>2. /\ goroutines' \in [Steps -> Nat]
        /\ Processing' = Processing - 1 /\ Ending' = Ending + 1
        /\ UNCHANGED <<Starting, Releasing>>
        /\ QueueInv'
    <3>1. QueueInv'
      BY <2>1, QueueUnchanged DEF jobQueue
    <3> QED  BY <2>1, <3>1 DEF Steps, Starting, Processing, Ending, Releasing
  <2>3. SlotsAreTaken'
    BY <2>1, <2>2 DEF SlotsAreTaken
  <2>4. EnvelopesAreCounted'
    BY <2>1, <2>2 DEF EnvelopesAreCounted, InHand
  <2>5. processed' \in 0 .. pushes'
    <3>1. InHand \in Nat
      BY DEF InHand
    <3> QED  BY <2>1, <2>2, <3>1 DEF EnvelopesAreCounted
  <2>6. SchedulerTypeOK'
    BY <2>1, <2>2, <2>5 DEF SchedulerTypeOK
  <2> QED  BY <2>2, <2>3, <2>4, <2>6 DEF SchedulerInv, QueueInv
<1>11. CASE EndJob
  <2>1. /\ Ending > 0 /\ goroutines' = [goroutines EXCEPT !["end"] = @ - 1, !["release"] = @ + 1]
        /\ active' = active - 1
        /\ UNCHANGED <<items, seen, run, hand, slots, cancelled, pushes, dropped, processed>>
    BY <1>11 DEF EndJob, Move, Ending, jobQueue
  <2>2. /\ goroutines' \in [Steps -> Nat]
        /\ Ending' = Ending - 1 /\ Releasing' = Releasing + 1
        /\ UNCHANGED <<Starting, Processing>>
        /\ QueueInv'
    <3>1. QueueInv'
      BY <2>1, QueueUnchanged DEF jobQueue
    <3> QED  BY <2>1, <3>1 DEF Steps, Starting, Processing, Ending, Releasing
  <2>3. SlotsAreTaken' /\ active' \in Nat
    BY <2>1, <2>2 DEF SlotsAreTaken
  <2>4. EnvelopesAreCounted'
    BY <2>1, <2>2 DEF EnvelopesAreCounted, InHand
  <2>5. SchedulerTypeOK'
    BY <2>1, <2>2, <2>3 DEF SchedulerTypeOK
  <2> QED  BY <2>2, <2>3, <2>4, <2>5 DEF SchedulerInv, QueueInv
<1>12. CASE Release
  <2>1. /\ Releasing > 0 /\ slots' = slots - 1
        /\ goroutines' = [goroutines EXCEPT !["release"] = @ - 1]
        /\ UNCHANGED <<items, seen, run, hand, active, cancelled, pushes, processed, dropped>>
    BY <1>12 DEF Release, Releasing, jobQueue, history
  <2>2. /\ goroutines' \in [Steps -> Nat]
        /\ Releasing' = Releasing - 1
        /\ UNCHANGED <<Starting, Processing, Ending>>
    BY <2>1 DEF Steps, Starting, Processing, Ending, Releasing
  <2>3. QueueInv'
    BY <2>1, QueueUnchanged DEF jobQueue
  <2>4. SlotsAreTaken' /\ slots' \in Nat
    BY <2>1, <2>2 DEF SlotsAreTaken
  <2>5. EnvelopesAreCounted'
    BY <2>1, <2>2 DEF EnvelopesAreCounted, InHand
  <2>6. SchedulerTypeOK'
    BY <2>1, <2>2, <2>4 DEF SchedulerTypeOK
  <2> QED  BY <2>3, <2>4, <2>5, <2>6 DEF SchedulerInv, QueueInv
<1>13. CASE UNCHANGED schedulerVars
  <2>1. UNCHANGED <<items, seen, run, hand, slots, goroutines, active, cancelled, pushes, processed, dropped>>
    BY <1>13 DEF schedulerVars, jobQueue, inProcess, history
  <2>2. QueueInv'
    BY <2>1, QueueUnchanged DEF jobQueue
  <2>3. SlotsAreTaken' /\ EnvelopesAreCounted' /\ SchedulerTypeOK'
    BY <2>1 DEF SlotsAreTaken, EnvelopesAreCounted, InHand, SchedulerTypeOK
  <2> QED  BY <2>2, <2>3 DEF SchedulerInv, QueueInv
<1> QED
  BY <1>4, <1>5, <1>6, <1>7, <1>8, <1>9, <1>10, <1>11, <1>12, <1>13
     DEF SchedulerNext, Run, Goroutine

LEMMA SchedulerInvariant == SchedulerSpec => []SchedulerInv
<1> QED  BY SchedulerInvInit, SchedulerInvStep, PTL DEF SchedulerSpec

(* Queue and Scheduler: whatever is pushed and popped, the queue is in the *)
(* order of priority, time and push and within its limit, Push refuses     *)
(* the ids that are queued and no other, and no more jobs are in process   *)
(* than there are slots.                                                   *)
THEOREM SchedulerStaysSound == SchedulerSpec => []SchedulerIsSound
<1>1. SchedulerInv => SchedulerIsSound
  <2> SUFFICES ASSUME SchedulerInv PROVE SlotsBoundJobs
    BY DEF SchedulerInv, SchedulerIsSound
  <2>1. Starting \in Nat /\ Processing \in Nat /\ Ending \in Nat /\ Releasing \in Nat
    BY DEF SchedulerInv, SchedulerTypeOK, Steps, Starting, Processing, Ending, Releasing
  <2>2. active = Processing + Ending /\ active <= Slots
    BY <2>1, SlotsAssumption DEF SchedulerInv, SlotsAreTaken
  <2> QED  BY <2>2 DEF SlotsBoundJobs, Processing, Ending
<1> QED  BY <1>1, SchedulerInvariant, PTL

(* Scheduler.Run returns with every envelope ever pushed processed or      *)
(* still queued, but for at most the one that a cancellation took out of   *)
(* its hand.                                                               *)
THEOREM RunAccountsForEnvelopes == SchedulerSpec => []RunLosesAtMostOne
<1>1. SchedulerInv => RunLosesAtMostOne
  <2> SUFFICES ASSUME SchedulerInv, run = "returned"
               PROVE  pushes = processed + Len(items) + dropped /\ dropped <= 1
    BY DEF RunLosesAtMostOne
  <2>1. Len(items) \in Nat /\ processed \in Nat /\ dropped \in Nat
    BY DEF SchedulerInv, SchedulerTypeOK
  <2> QED  BY <2>1 DEF SchedulerInv, EnvelopesAreCounted, InHand
<1> QED  BY <1>1, SchedulerInvariant, PTL

-------------------------------------------------------------------------------
(* The checkpoint.  What has been persisted never runs ahead of what has   *)
(* been computed, however often a caller starts again from it.             *)

CheckpointInv ==
    /\ checkpoint \in [last : 0 .. Total, completed : 0 .. Total]
    /\ saved \in [last : 0 .. Total, completed : 0 .. Total, float : BOOLEAN]
    /\ at \in 1 .. (Total + 1)
    /\ 1 .. (at - 1) \subseteq computed
    /\ 1 .. checkpoint.last \subseteq computed
    /\ 1 .. saved.last \subseteq computed

LEMMA CheckpointInvInit == CheckpointInit => CheckpointInv
  BY TotalAssumption DEF CheckpointInit, CheckpointInv, Empty, Persisted

LEMMA CheckpointInvStep == CheckpointInv /\ [CheckpointNext]_checkpointVars => CheckpointInv'
<1> SUFFICES ASSUME CheckpointInv, [CheckpointNext]_checkpointVars PROVE CheckpointInv'
  OBVIOUS
<1> USE TotalAssumption
<1>1. CASE Advance
  <2>1. checkpoint.completed \in 0 .. Total
    BY DEF CheckpointInv
  <2>2. Count(checkpoint.completed) \in 0 .. Total
    <3> DEFINE both == {checkpoint.completed + 1, Total}
    <3>1. both \subseteq Nat /\ both # {}
      BY <2>1
    <3>2. Min(both) \in both /\ \A x \in both : Min(both) <= x
      BY <3>1, LeastNumber
    <3>3. Min(both) \in Nat /\ Min(both) <= Total
      BY <3>1, <3>2
    <3> QED  BY <3>3 DEF Count
  <2> HIDE DEF Count
  <2>3. /\ checkpoint' = [last |-> at, completed |-> Count(checkpoint.completed)]
        /\ at' = at + 1 /\ at \in 1 .. Total
        /\ computed' = computed \union {at}
        /\ UNCHANGED saved
    BY <1>1 DEF Advance, CheckpointInv
  <2>4. 1 .. at \subseteq computed'
    BY <2>3 DEF CheckpointInv
  <2> QED  BY <2>2, <2>3, <2>4 DEF CheckpointInv
<1>2. CASE Persist
  BY <1>2 DEF Persist, Persisted, CheckpointInv
<1>3. CASE Restart
  BY <1>3 DEF Restart, Restored, Cursor, CheckpointInv
<1>4. CASE UNCHANGED checkpointVars
  BY <1>4 DEF checkpointVars, CheckpointInv
<1> QED  BY <1>1, <1>2, <1>3, <1>4 DEF CheckpointNext

(* Checkpoint: wherever a caller stops and whatever it had persisted, the  *)
(* pairs before the one it resumes at have all been computed, and the      *)
(* count stays within the matrix.                                          *)
THEOREM NothingIsSkipped == CheckpointSpec => []ResumeSkipsNothing
<1>1. CheckpointInv => ResumeSkipsNothing
  BY DEF CheckpointInv, ResumeSkipsNothing
<1> QED  BY <1>1, CheckpointInvInit, CheckpointInvStep, PTL DEF CheckpointSpec

================================================================================
