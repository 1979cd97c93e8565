------------------------------ MODULE Checkpoint ------------------------------
(***************************************************************************)
(* The checkpoint of a matrix job: Advance, Persist, Restore and Cursor,   *)
(* under a caller that uses them as their comments say.  Nothing in the    *)
(* repository calls them yet.                                              *)
(*                                                                         *)
(* The pairs are numbered in the order they are computed; 0 is the empty   *)
(* origin.  A persisted count is an int until the map has been through     *)
(* JSON, and a float64 after.                                              *)
(***************************************************************************)
EXTENDS Naturals, FiniteSetsExt

CONSTANTS
    Total,      \* the pairs of the matrix
    MaxRestarts \* bound: restarts of the caller

ASSUME TotalAssumption == Total \in Nat \ {0}
ASSUME MaxRestartsAssumption == MaxRestarts \in Nat

VARIABLES
    checkpoint, \* the pair computed last and the count
    saved,      \* the map of the last Persist and the type of its count
    at,         \* the pair the caller computes next
    computed,   \* history: the pairs computed so far
    restarts

checkpointVars == <<checkpoint, saved, at, computed, restarts>>

Empty == [last |-> 0, completed |-> 0]

(* The map Persist makes, before and after it goes through JSON.           *)
Persisted(c, float) == [last |-> c.last, completed |-> c.completed, float |-> float]

CheckpointInit ==
    /\ checkpoint = Empty
    /\ saved = Persisted(Empty, TRUE)
    /\ at = 1
    /\ computed = {}
    /\ restarts = 0

-------------------------------------------------------------------------------
(* Fault: the count is not held back at the total.                          *)
FaultCount(completed) == completed + 1

Count(completed) == Min({completed + 1, Total})

Advance ==
    /\ at <= Total
    /\ checkpoint' = [last |-> at, completed |-> Count(checkpoint.completed)]
    /\ computed' = computed \union {at}
    /\ at' = at + 1
    /\ UNCHANGED <<saved, restarts>>

(* The map goes through JSON, or is kept as it is.                         *)
Persist ==
    /\ \E float \in BOOLEAN : saved' = Persisted(checkpoint, float)
    /\ UNCHANGED <<checkpoint, at, computed, restarts>>

(* Restore looks for a float64 and leaves the count at zero when there is  *)
(* another number.                                                         *)
Restored ==
    [last |-> saved.last, completed |-> IF saved.float THEN saved.completed ELSE 0]

(* Cursor gives the pair computed last as the next one.                    *)
Cursor(c) == c.last

(* The caller starts again: "an empty origin means the job starts from the *)
(* beginning".                                                             *)
Restart ==
    /\ restarts < MaxRestarts
    /\ restarts' = restarts + 1
    /\ checkpoint' = Restored
    /\ at' = IF Cursor(Restored) = 0 THEN 1 ELSE Cursor(Restored)
    /\ UNCHANGED <<saved, computed>>

CheckpointNext == Advance \/ Persist \/ Restart

CheckpointSpec == CheckpointInit /\ [][CheckpointNext]_checkpointVars

-------------------------------------------------------------------------------
(* Properties                                                              *)

(* checkpoint.go line 10, "a resumable cursor": wherever the caller was    *)
(* stopped and whatever it had persisted, no pair before the next one has  *)
(* been left out; and the count, which a resume at the pair computed last  *)
(* increments once more, stays within the matrix.                          *)
ResumeSkipsNothing ==
    /\ 1 .. (at - 1) \subseteq computed
    /\ checkpoint.completed \in 0 .. Total

===============================================================================
