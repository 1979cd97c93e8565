--------------------------- MODULE TrafficAnalytics ---------------------------
(***************************************************************************)
(* The observations a TrafficIndex keeps of one edge and the events a      *)
(* WindowCounter keeps of one key.  Each method is one step under its      *)
(* lock, and edges and keys are independent.  Nothing uses them yet.       *)
(*                                                                         *)
(* Abstracted: a speed is zero or not, and what Estimate and Summary       *)
(* compute from the observations they pick.                                *)
(***************************************************************************)
EXTENDS Naturals, SequencesExt

CONSTANTS
    KeepLast,   \* the limit of the index (at least 100 in the code)
    Moments,    \* the times observations and events may carry
    MaxRecords  \* bound: observations recorded, events recorded

ASSUME KeepLastAssumption == KeepLast \in Nat \ {0}
ASSUME MomentsAssumption == Moments \subseteq Nat \ {0}
ASSUME MaxRecordsAssumption == MaxRecords \in Nat

VARIABLES
    observations,   \* TrafficIndex.values of the edge
    reported,       \* history: every observation recorded
    events,         \* WindowCounter.events of the key, by their places in counted
    counted,        \* history: the time of every event recorded
    removed,        \* history: the sum of what Prune returned
    horizon         \* history: the latest time Prune was called with

indexVars == <<observations, reported>>
counterVars == <<events, counted, removed, horizon>>
trafficVars == <<indexVars, counterVars>>

TrafficInit ==
    /\ observations = <<>>
    /\ reported = <<>>
    /\ events = {}
    /\ counted = <<>>
    /\ removed = 0
    /\ horizon = 0

-------------------------------------------------------------------------------
(* TrafficIndex                                                            *)

(* Fault: the last arrivals are dropped.                                    *)
FaultLastOf(list) == SubSeq(list, 1, Min({Len(list), KeepLast}))

(* What is over the limit leaves, in the order of arrival.                 *)
LastOf(list) == SubSeq(list, Max({1, Len(list) - KeepLast + 1}), Len(list))

RecordObservation(o) ==
    /\ Len(reported) < MaxRecords
    /\ observations' = LastOf(Append(observations, o))
    /\ reported' = Append(reported, o)
    /\ UNCHANGED counterVars

(* The position Latest picks at a time, 0 for none: of the latest, the     *)
(* first.                                                                  *)
Latest(list, at) ==
    LET known == {i \in 1 .. Len(list) : list[i].at <= at}
        newest == {i \in known : \A j \in known : list[j].at <= list[i].at}
    IN IF known = {} THEN 0 ELSE Min(newest)

(* Estimate uses the speed observed, unless there is none or it is zero.   *)
Estimate(list, at) ==
    LET i == Latest(list, at) IN
    IF i = 0 THEN "base" ELSE IF list[i].moving THEN <<"observed", list[i].at>> ELSE "base"

-------------------------------------------------------------------------------
(* WindowCounter                                                           *)

RecordEvent(at) ==
    /\ Len(counted) < MaxRecords
    /\ events' = events \union {Len(counted) + 1}
    /\ counted' = Append(counted, at)
    /\ UNCHANGED <<indexVars, removed, horizon>>

Count(places, from, to) == Cardinality({i \in places : from <= counted[i] /\ counted[i] <= to})

(* Fault: an event at the very time leaves too.                             *)
FaultKeptEvents(before) == {i \in events : counted[i] > before}

KeptEvents(before) == {i \in events : counted[i] >= before}

PruneEvents(before) ==
    /\ events' = KeptEvents(before)
    /\ removed' = removed + Cardinality(events) - Cardinality(KeptEvents(before))
    /\ horizon' = Max({horizon, before})
    /\ UNCHANGED <<indexVars, counted>>

TrafficNext ==
    \/ \E o \in [at : Moments, moving : BOOLEAN] : RecordObservation(o)
    \/ \E at \in Moments : RecordEvent(at) \/ PruneEvents(at)

TrafficSpec == TrafficInit /\ [][TrafficNext]_trafficVars

-------------------------------------------------------------------------------
(* Properties                                                              *)

InOrder(list) == \A i, j \in 1 .. Len(list) : i < j => list[i].at <= list[j].at

(* TrafficIndex keeps a bounded number of observations: as long as they    *)
(* arrive in the order of their times, every estimate from the time of the *)
(* oldest kept on is the one all that was ever reported would give, but    *)
(* for reports of one instant cut by the limit.  A report that arrives     *)
(* late can push out a newer one.                                          *)
LatestIsNewest ==
    InOrder(reported) =>
        \A at \in Moments :
            LET kept == Latest(observations, at)
                all == Latest(reported, at)
            IN kept # 0 =>
                  /\ all # 0
                  /\ observations[kept].at = reported[all].at
                  /\ observations[1].at < observations[kept].at =>
                        Estimate(observations, at) = Estimate(reported, at)

(* However records and prunes mix, no event is lost or counted twice: what *)
(* Prune returned adds up with what is kept, and every window that begins  *)
(* after the pruned past counts exactly what was recorded in it.           *)
CountsAreExact ==
    /\ Len(counted) = Cardinality(events) + removed
    /\ \A from, to \in Moments :
          from >= horizon => Count(events, from, to) = Count(1 .. Len(counted), from, to)

===============================================================================
