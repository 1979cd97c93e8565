----------------------------- MODULE JobScheduler -----------------------------
(***************************************************************************)
(* The priority queue of package job and the Scheduler that drains it: one *)
(* loop that pops an envelope and only then waits for one of a fixed       *)
(* number of slots, and one goroutine per job.                             *)
(*                                                                         *)
(* Queue has no lock.  Nothing in the repository pushes while a Scheduler  *)
(* runs, so the model takes a caller that does as one that keeps Push and  *)
(* Pop apart.  Envelopes are pushed with any priority and any EnqueuedAt,  *)
(* which callers choose; MaxPushes bounds how often.                       *)
(***************************************************************************)
EXTENDS Naturals, SequencesExt

CONSTANTS
    Jobs,       \* job ids
    Priorities, \* PriorityLow, PriorityNormal, PriorityHigh are 0, 1, 2
    Instants,   \* the times an envelope may carry
    Limit,      \* of the queue
    Slots,      \* how many jobs may be in process at once
    MaxPushes,  \* bound: pushes that succeed
    NoEnvelope  \* what Run has in hand between two envelopes

ASSUME PrioritiesAssumption == Priorities \subseteq Nat
ASSUME InstantsAssumption == Instants \subseteq Nat
ASSUME LimitAssumption == Limit \in Nat \ {0}
ASSUME SlotsAssumption == Slots \in Nat \ {0}
ASSUME MaxPushesAssumption == MaxPushes \in Nat

VARIABLES
    items,      \* Queue.items; "nth" tells a push from every other
    seen,       \* Queue.seen
    run,        \* where Run is
    hand,       \* the envelope it has popped
    slots,      \* how many slots of the semaphore are taken
    goroutines, \* how many of the jobs' goroutines are at each step
    active,     \* Scheduler.active
    cancelled,  \* the context is done
    pushes,     \* history: how many pushes succeeded
    processed,  \* history: how many calls of process have returned
    dropped     \* history: how many envelopes were popped and not processed

jobQueue == <<items, seen>>
inProcess == <<slots, goroutines, active>>
history == <<pushes, processed, dropped>>
schedulerVars == <<jobQueue, run, hand, inProcess, cancelled, history>>

Envelopes == [job : Jobs, priority : Priorities, at : Instants, nth : 1 .. MaxPushes]

Steps == {"start", "process", "end", "release"}

SchedulerInit ==
    /\ items = <<>>
    /\ seen = {}
    /\ run = "pop"
    /\ hand = NoEnvelope
    /\ slots = 0
    /\ goroutines = [step \in Steps |-> 0]
    /\ active = 0
    /\ cancelled = FALSE
    /\ pushes = 0
    /\ processed = 0
    /\ dropped = 0

-------------------------------------------------------------------------------
(* Queue                                                                   *)

(* The order of the sort.                                                  *)
Before(a, b) ==
    \/ a.priority > b.priority
    \/ a.priority = b.priority /\ a.at < b.at

(* Stable: a new envelope goes behind those it is not before.              *)
Sorted(list, env) ==
    LET ahead == {i \in DOMAIN list : ~ Before(env, list[i])}
    IN InsertAt(list, Max(ahead \union {0}) + 1, env)

(* Fault: the limit is checked too late.                                    *)
FaultFits(env) == env.job \notin seen /\ Len(items) <= Limit

Fits(env) == env.job \notin seen /\ Len(items) < Limit

(* Push refuses a queued id and a full queue, and then changes nothing.    *)
Push(env) ==
    /\ env.nth = pushes + 1
    /\ Fits(env)
    /\ items' = Sorted(items, env)
    /\ seen' = seen \union {env.job}
    /\ pushes' = pushes + 1
    /\ UNCHANGED <<run, hand, inProcess, cancelled, processed, dropped>>

-------------------------------------------------------------------------------
(* Run.  When it finds nothing to pop it waits for 20 ms or for the end of *)
(* the context, whatever is pushed meanwhile.                              *)

Pop ==
    /\ run = "pop"
    /\ items # <<>>
    /\ hand' = Head(items)
    /\ items' = Tail(items)
    /\ seen' = seen \ {Head(items).job}
    /\ run' = "slot"
    /\ UNCHANGED <<inProcess, cancelled, history>>

FindEmpty ==
    /\ run = "pop"
    /\ items = <<>>
    /\ run' = "empty"
    /\ UNCHANGED <<jobQueue, hand, inProcess, cancelled, history>>

(* The 20 ms are over.                                                     *)
LookAgain ==
    /\ run = "empty"
    /\ run' = "pop"
    /\ UNCHANGED <<jobQueue, hand, inProcess, cancelled, history>>

Stop ==
    /\ run = "empty"
    /\ cancelled
    /\ run' = "wait"
    /\ UNCHANGED <<jobQueue, hand, inProcess, cancelled, history>>

(* The envelope popped is in nobody's hands any more.                      *)
StopWithEnvelope ==
    /\ run = "slot"
    /\ cancelled
    /\ hand' = NoEnvelope
    /\ dropped' = dropped + 1
    /\ run' = "wait"
    /\ UNCHANGED <<jobQueue, inProcess, cancelled, pushes, processed>>

Dispatch ==
    /\ run = "slot"
    /\ slots < Slots
    /\ slots' = slots + 1
    /\ goroutines' = [goroutines EXCEPT !["start"] = @ + 1]
    /\ hand' = NoEnvelope
    /\ run' = "pop"
    /\ UNCHANGED <<jobQueue, active, cancelled, history>>

(* Fault: only the jobs whose process runs are waited for.                  *)
FaultAllDone == active = 0

(* wg.Wait() is over.                                                      *)
AllDone == \A step \in Steps : goroutines[step] = 0

Return ==
    /\ run = "wait"
    /\ AllDone
    /\ run' = "returned"
    /\ UNCHANGED <<jobQueue, hand, inProcess, cancelled, history>>

-------------------------------------------------------------------------------
(* The goroutines of the jobs                                              *)

Move(from, to) ==
    /\ goroutines[from] > 0
    /\ goroutines' = [goroutines EXCEPT ![from] = @ - 1, ![to] = @ + 1]
    /\ UNCHANGED <<jobQueue, run, hand, slots, cancelled, pushes, dropped>>

BeginJob ==
    /\ Move("start", "process")
    /\ active' = active + 1
    /\ UNCHANGED processed

ProcessJob ==
    /\ Move("process", "end")
    /\ processed' = processed + 1
    /\ UNCHANGED active

EndJob ==
    /\ Move("end", "release")
    /\ active' = active - 1
    /\ UNCHANGED processed

(* The deferred calls: the slot is given back, then wg.Done().             *)
Release ==
    /\ goroutines["release"] > 0
    /\ goroutines' = [goroutines EXCEPT !["release"] = @ - 1]
    /\ slots' = slots - 1
    /\ UNCHANGED <<jobQueue, run, hand, active, cancelled, history>>

Cancel ==
    /\ ~ cancelled
    /\ cancelled' = TRUE
    /\ UNCHANGED <<jobQueue, run, hand, inProcess, history>>

-------------------------------------------------------------------------------
Run == Pop \/ FindEmpty \/ LookAgain \/ Stop \/ StopWithEnvelope \/ Dispatch \/ Return

Goroutine == BeginJob \/ ProcessJob \/ EndJob \/ Release

SchedulerNext ==
    \/ \E env \in Envelopes : Push(env)
    \/ Run
    \/ Goroutine
    \/ Cancel

SchedulerSpec == SchedulerInit /\ [][SchedulerNext]_schedulerVars

-------------------------------------------------------------------------------
(* Properties                                                              *)

SchedulerTypeOK ==
    /\ items \in Seq(Envelopes)
    /\ seen \subseteq Jobs
    /\ run \in {"pop", "empty", "slot", "wait", "returned"}
    /\ hand \in Envelopes \union {NoEnvelope}
    /\ slots \in Nat
    /\ goroutines \in [Steps -> Nat]
    /\ active \in Nat
    /\ cancelled \in BOOLEAN
    /\ pushes \in 0 .. MaxPushes
    /\ processed \in 0 .. pushes
    /\ dropped \in Nat

(* queue.go lines 27 and 62: priority first, then the time an envelope     *)
(* carries, then the order of the pushes, however pushes and pops mix.     *)
QueueIsOrdered ==
    \A i, j \in 1 .. Len(items) : i < j =>
        \/ Before(items[i], items[j])
        \/ ~ Before(items[j], items[i]) /\ items[i].nth < items[j].nth

(* The ids that Push refuses are those of the queue, and the queue has     *)
(* each once and never more than its limit.                                *)
SeenIsWhatIsQueued ==
    /\ seen = {items[i].job : i \in 1 .. Len(items)}
    /\ \A i, j \in 1 .. Len(items) : i # j => items[i].job # items[j].job
    /\ Len(items) <= Limit

(* No more jobs are processed at once than there are slots, and Active()   *)
(* counts the goroutines between their two updates of it.                  *)
SlotsBoundJobs ==
    /\ active = goroutines["process"] + goroutines["end"]
    /\ active <= Slots

(* The queue and the slots are sound all along, with types right.          *)
SchedulerIsSound == SchedulerTypeOK /\ QueueIsOrdered /\ SeenIsWhatIsQueued /\ SlotsBoundJobs

(* scheduler.go line 34, "returns when all in-flight jobs finish": after   *)
(* Run every envelope was processed or is queued, but for at most one that *)
(* the cancellation took out of Run's hand.                                *)
RunLosesAtMostOne ==
    run = "returned" =>
        /\ pushes = processed + Len(items) + dropped
        /\ dropped <= 1

===============================================================================
