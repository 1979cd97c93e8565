------------------------------ MODULE Dispatcher ------------------------------
(***************************************************************************)
(* Dispatcher.Run: one goroutine hands the inputs to a fixed number of     *)
(* workers over a channel without buffer, and the context may be cancelled *)
(* at any moment.  What the function does with an input, and whether it    *)
(* fails, is up to the module that uses this one (BatchValidation).        *)
(*                                                                         *)
(* The semaphore has as many slots as there are workers, so a worker       *)
(* always finds one; the select around it still sees the cancellation.     *)
(***************************************************************************)
EXTENDS Naturals, Sequences, FiniteSets

CONSTANTS
    Asked,      \* the inputs, in order
    Workers,    \* the worker goroutines
    NoInput     \* what a worker between two inputs has

N == Len(Asked)
Inputs == 1..N

ASSUME AskedAssumption == N \in Nat
ASSUME WorkersAssumption == Workers # {} /\ IsFiniteSet(Workers)
ASSUME NoInputAssumption == NoInput \notin Inputs

VARIABLES
    next,       \* the input to hand out next
    scheduler,  \* "sending", "closed" (the channel is) or "returned"
    worker,     \* where each worker is
    input,      \* the input each worker holds
    cancelled,  \* the context is done
    success,    \* Run's count of successful calls
    firstErr,   \* Run has an error to return
    outcome,    \* history: how the call for each input ended
    late        \* history: the inputs whose calls began after the cancellation

run == <<next, scheduler, cancelled>>
tally == <<success, firstErr, outcome>>
dispatcherVars == <<run, worker, input, tally, late>>

DispatcherInit ==
    /\ next = 1
    /\ scheduler = "sending"
    /\ worker = [w \in Workers |-> "receive"]
    /\ input = [w \in Workers |-> NoInput]
    /\ cancelled = FALSE
    /\ success = 0
    /\ firstErr = FALSE
    /\ outcome = [i \in Inputs |-> "none"]
    /\ late = {}

Goto(w, place) == worker' = [worker EXCEPT ![w] = place]

-------------------------------------------------------------------------------
(* The scheduling goroutine                                                *)

(* The loop over the inputs.  When the context is done and a worker waits, *)
(* the select takes either case.                                           *)
HandOut(w) ==
    /\ scheduler = "sending"
    /\ next <= N
    /\ worker[w] = "receive"
    /\ input' = [input EXCEPT ![w] = next]
    /\ next' = next + 1
    /\ Goto(w, "acquire")
    /\ UNCHANGED <<scheduler, cancelled, tally, late>>

(* Fault: the loop sends without looking at the context.                    *)
FaultDone == next > N

(* The loop ends, or the select takes ctx.Done().                          *)
Done == next > N \/ cancelled

StopSending ==
    /\ scheduler = "sending"
    /\ Done
    /\ scheduler' = "closed"
    /\ UNCHANGED <<next, cancelled, worker, input, tally, late>>

(* wg.Wait()                                                               *)
Return ==
    /\ scheduler = "closed"
    /\ \A w \in Workers : worker[w] = "returned"
    /\ scheduler' = "returned"
    /\ UNCHANGED <<next, cancelled, worker, input, tally, late>>

-------------------------------------------------------------------------------
(* The workers                                                             *)

Acquire(w) ==
    /\ worker[w] = "acquire"
    /\ Goto(w, "call")
    /\ late' = IF cancelled THEN late \union {input[w]} ELSE late
    /\ UNCHANGED <<run, input, tally>>

(* The input is dropped without a trace.                                   *)
Drop(w) ==
    /\ worker[w] = "acquire"
    /\ cancelled
    /\ Goto(w, "returned")
    /\ input' = [input EXCEPT ![w] = NoInput]
    /\ UNCHANGED <<run, tally, late>>

(* fn returns.                                                             *)
Call(w, result) ==
    /\ worker[w] = "call"
    /\ outcome' = [outcome EXCEPT ![input[w]] = result]
    /\ Goto(w, "record")
    /\ UNCHANGED <<run, input, success, firstErr, late>>

(* Fault: the mutex is not held; two workers read the same count.           *)
FaultCounted == {success, success + 1}

Counted == {success + 1}

(* Fault: an error is kept only as long as nothing has succeeded.           *)
FaultFails == success = 0

(* Every error is one to return, the first is the one returned.            *)
Fails == TRUE

(* Under Run's mutex.                                                      *)
Record(w) ==
    /\ worker[w] = "record"
    /\ IF outcome[input[w]] = "ok"
       THEN success' \in Counted /\ UNCHANGED firstErr
       ELSE firstErr' = (firstErr \/ Fails) /\ UNCHANGED success
    /\ Goto(w, "check")
    /\ input' = [input EXCEPT ![w] = NoInput]
    /\ UNCHANGED <<run, outcome, late>>

Check(w) ==
    /\ worker[w] = "check"
    /\ Goto(w, IF cancelled THEN "returned" ELSE "receive")
    /\ UNCHANGED <<run, input, tally, late>>

(* The channel is closed, and a channel without buffer is then empty.      *)
EndOfInputs(w) ==
    /\ worker[w] = "receive"
    /\ scheduler = "closed"
    /\ Goto(w, "returned")
    /\ UNCHANGED <<run, input, tally, late>>

(* The client goes away, or the server shuts down.                         *)
Cancel ==
    /\ ~ cancelled
    /\ scheduler # "returned"
    /\ cancelled' = TRUE
    /\ UNCHANGED <<next, scheduler, worker, input, tally, late>>

-------------------------------------------------------------------------------
Schedule == (\E w \in Workers : HandOut(w)) \/ StopSending \/ Return

(* What a worker does outside fn.                                          *)
Loop(w) == Acquire(w) \/ Drop(w) \/ Record(w) \/ Check(w) \/ EndOfInputs(w)

DispatcherNext ==
    \/ Schedule
    \/ \E w \in Workers : Loop(w) \/ \E result \in {"ok", "error"} : Call(w, result)
    \/ Cancel

DispatcherSpec == DispatcherInit /\ [][DispatcherNext]_dispatcherVars

-------------------------------------------------------------------------------
(* Properties                                                              *)

DispatcherTypeOK ==
    /\ next \in 1..(N + 1)
    /\ scheduler \in {"sending", "closed", "returned"}
    /\ worker \in [Workers -> {"receive", "acquire", "call", "record", "check", "returned"}]
    /\ input \in [Workers -> Inputs \union {NoInput}]
    /\ cancelled \in BOOLEAN
    /\ success \in 0..N
    /\ firstErr \in BOOLEAN
    /\ outcome \in [Inputs -> {"none", "ok", "error"}]
    /\ late \subseteq Inputs

Ended(result) == {i \in Inputs : outcome[i] = result}

(* dispatcher.go lines 21-22, "Run invokes fn for every input ... and      *)
(* returns the number of successful invocations.  Cancellation stops       *)
(* scheduling": no two workers hold one input, no input is called for a    *)
(* second time, each worker begins at most one call after a cancellation,  *)
(* and Run returns with a count and an error that tell what happened,      *)
(* having left out nothing unless it was cancelled.                        *)
RunAccountsForInputs ==
    /\ DispatcherTypeOK
    /\ \A v, w \in Workers : v # w /\ input[v] # NoInput => input[v] # input[w]
    /\ \A w \in Workers : worker[w] \in {"acquire", "call"} => outcome[input[w]] = "none"
    /\ Cardinality(late) <= Cardinality(Workers)
    /\ scheduler = "returned" =>
          /\ success = Cardinality(Ended("ok"))
          /\ firstErr <=> Ended("error") # {}
          /\ cancelled \/ Ended("none") = {}

===============================================================================
