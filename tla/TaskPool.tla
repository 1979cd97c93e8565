------------------------------- MODULE TaskPool -------------------------------
(***************************************************************************)
(* What a pool of workers promises, without its channels: an accepted task *)
(* runs once, as many at a time as there are workers, and when Close       *)
(* returns all have run.  WorkerPool is shown to implement this module.    *)
(***************************************************************************)
EXTENDS Naturals, FiniteSets

CONSTANTS
    Tasks,      \* one submission for each
    Size        \* the number of workers

VARIABLES
    state,      \* "new", "accepted", "running", "done" or "refused"
    pool        \* "open", "closing" or "closed"

vars == <<state, pool>>

In(s) == {t \in Tasks : state[t] = s}

Init ==
    /\ state = [t \in Tasks |-> "new"]
    /\ pool = "open"

Move(t, from, to) ==
    /\ state[t] = from
    /\ state' = [state EXCEPT ![t] = to]
    /\ UNCHANGED pool

(* Submit returns nil.  One that overlaps Close may still be in time.      *)
Accept(t) == pool # "closed" /\ Move(t, "new", "accepted")

(* Submit returns an error.                                                *)
Refuse(t) == pool # "open" /\ Move(t, "new", "refused")

Start(t) == Cardinality(In("running")) < Size /\ Move(t, "accepted", "running")

Finish(t) == Move(t, "running", "done")

BeginClose ==
    /\ pool = "open"
    /\ pool' = "closing"
    /\ UNCHANGED state

(* Close returns.                                                          *)
Close ==
    /\ pool = "closing"
    /\ In("accepted") \union In("running") = {}
    /\ pool' = "closed"
    /\ UNCHANGED state

Next ==
    \/ \E t \in Tasks : Accept(t) \/ Refuse(t) \/ Start(t) \/ Finish(t)
    \/ BeginClose
    \/ Close

Spec == Init /\ [][Next]_vars

===============================================================================
