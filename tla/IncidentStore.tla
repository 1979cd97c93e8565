---------------------------- MODULE IncidentStore -----------------------------
(***************************************************************************)
(* Incidents of one dataset and the requests that change them at the same  *)
(* time: creation, activation under If-Match, and the sweep that resolves  *)
(* what has expired.  Every method of the store is one atomic step; a      *)
(* request that lists and then updates is not.                             *)
(*                                                                         *)
(* Abstracted: edges, speed factors, descriptions and priorities, which no *)
(* request changes after creation; a window is the instant it ends.  The   *)
(* sweep goes through its list in any order: the list is sorted by         *)
(* priority, and incidents of one priority come in the map's order.        *)
(***************************************************************************)
EXTENDS Naturals

CONSTANTS
    Incidents,      \* incident ids
    Handlers,       \* the goroutines requests run on
    Instants,       \* when windows end and what instants sweeps are asked for
    ClaimedVersions,\* what clients write in the "version" field of a new incident
    MaxVersion,     \* bound: no incident is updated beyond this version
    NoIncident      \* no id

ASSUME InstantsAssumption == Instants \subseteq Nat \ {0}
ASSUME ClaimedAssumption == ClaimedVersions \subseteq Nat
ASSUME MaxVersionAssumption == MaxVersion \in Nat \ {0}
ASSUME NoIncidentAssumption == NoIncident \notin Incidents

VARIABLES
    store,      \* the incidents of Store; version 0 is "not there"
    shown,      \* history: the [status, version] pairs replies have shown
    pc,         \* where each handler is
    target,     \* activation: the incident
    seen,       \* activation: what the client saw; its version is If-Match
    item,       \* activation: the listed incident, made active
    changed,    \* sweep: listed incidents, made resolved, still to be stored
    ids,        \* sweep: the ids ResolveExpired returned
    written,    \* sweep, history: the ids it has stored
    answer      \* how the handler's last request was answered

activation == <<target, seen, item>>
sweep == <<changed, ids, written>>
vars == <<store, shown, pc, target, seen, item, changed, ids, written, answer>>

-------------------------------------------------------------------------------
Statuses == {"draft", "active", "resolved", "revoked"}

NoEnd == 0      \* the zero time: the window has no end
Versions == 0..MaxVersion

Incident == [status : Statuses, version : Versions, ends : Instants \union {NoEnd}]

Missing == [status |-> "draft", version |-> 0, ends |-> NoEnd]

Seen(record) == [status |-> record.status, version |-> record.version]

AllowedTransitions(from) ==
    CASE from = "draft" -> {"active", "revoked"}
      [] from = "active" -> {"resolved", "revoked"}
      [] from = "resolved" -> {"active"}
      [] from = "revoked" -> {"draft"}

Expired(record, at) == record.ends # NoEnd /\ record.ends < at

(* The candidates of ResolveExpired; Transition allows the change of each. *)
ToResolve(at) ==
    {i \in Incidents : /\ store[i].version # 0
                       /\ store[i].status = "active"
                       /\ "resolved" \in AllowedTransitions(store[i].status)
                       /\ Expired(store[i], at)}

Resolved(record) == [record EXCEPT !.status = "resolved"]

(* Fault: UpdateIncident does not compare versions.                        *)
FaultIsCurrent(i, expected) == TRUE

IsCurrent(i, expected) == store[i].version = expected

(* Fault: UpdateIncident keeps the version.                                *)
FaultBumped(version) == version

Bumped(version) == version + 1

(* UpdateIncident: the caller's record replaces the stored one when the    *)
(* stored version is the expected one, and gets the next version.          *)
Updates(i, record, expected) ==
    LET new == [record EXCEPT !.version = Bumped(store[i].version)] IN
    /\ IsCurrent(i, expected)
    /\ store[i].version < MaxVersion
    /\ store' = [store EXCEPT ![i] = new]
    /\ shown' = [shown EXCEPT ![i] = @ \union {Seen(new)}]

Init ==
    /\ store = [i \in Incidents |-> Missing]
    /\ shown = [i \in Incidents |-> {}]
    /\ pc = [h \in Handlers |-> "idle"]
    /\ target = [h \in Handlers |-> NoIncident]
    /\ seen = [h \in Handlers |-> Seen(Missing)]
    /\ item = [h \in Handlers |-> Missing]
    /\ changed = [h \in Handlers |-> {}]
    /\ ids = [h \in Handlers |-> {}]
    /\ written = [h \in Handlers |-> {}]
    /\ answer = [h \in Handlers |-> "none"]

-------------------------------------------------------------------------------
(* POST /incidents.  The body names the status and a version; the store    *)
(* starts at version 1 and the reply repeats the body.                     *)
CreateIncident(i, status, ends, claimed) ==
    LET new == [status |-> status, version |-> 1, ends |-> ends] IN
    /\ store[i].version = 0
    /\ store' = [store EXCEPT ![i] = new]
    /\ shown' = [shown EXCEPT ![i] = {Seen(new), Seen([new EXCEPT !.version = claimed])}]
    /\ UNCHANGED <<pc, activation, sweep, answer>>

(* POST /incidents/{id}/activate: the incident is looked up in a listing.  *)
(* A client sends the version of a state it was shown.                     *)
ListForActivation(h, i, state) ==
    /\ pc[h] = "idle"
    /\ store[i].version # 0
    /\ state \in shown[i]
    /\ target' = [target EXCEPT ![h] = i]
    /\ seen' = [seen EXCEPT ![h] = state]
    /\ item' = [item EXCEPT ![h] = [store[i] EXCEPT !.status = "active"]]
    /\ pc' = [pc EXCEPT ![h] = "activate"]
    /\ answer' = [answer EXCEPT ![h] = "none"]
    /\ UNCHANGED <<store, shown, sweep>>

(* The request is over and its locals are gone.                            *)
Reply(h, text) ==
    /\ pc' = [pc EXCEPT ![h] = "idle"]
    /\ answer' = [answer EXCEPT ![h] = text]
    /\ target' = [target EXCEPT ![h] = NoIncident]
    /\ seen' = [seen EXCEPT ![h] = Seen(Missing)]
    /\ item' = [item EXCEPT ![h] = Missing]
    /\ changed' = [changed EXCEPT ![h] = {}]
    /\ ids' = [ids EXCEPT ![h] = {}]
    /\ written' = [written EXCEPT ![h] = {}]

Activate(h) ==
    /\ pc[h] = "activate"
    /\ Updates(target[h], item[h], seen[h].version)
    /\ Reply(h, "ok")

ActivateConflict(h) ==
    /\ pc[h] = "activate"
    /\ ~ IsCurrent(target[h], seen[h].version)
    /\ Reply(h, "conflict")
    /\ UNCHANGED <<store, shown>>

(* POST /incidents/resolve-expired: list, and decide on the listing.       *)
BeginSweep(h, at) ==
    /\ pc[h] = "idle"
    /\ ids' = [ids EXCEPT ![h] = ToResolve(at)]
    /\ changed' = [changed EXCEPT ![h] =
                      {[id |-> i, record |-> Resolved(store[i])] : i \in ToResolve(at)}]
    /\ written' = [written EXCEPT ![h] = {}]
    /\ pc' = [pc EXCEPT ![h] = "sweep"]
    /\ answer' = [answer EXCEPT ![h] = "none"]
    /\ UNCHANGED <<store, shown, activation>>

StoreResolved(h, c) ==
    /\ pc[h] = "sweep"
    /\ c \in changed[h]
    /\ Updates(c.id, c.record, c.record.version)
    /\ changed' = [changed EXCEPT ![h] = @ \ {c}]
    /\ written' = [written EXCEPT ![h] = @ \union {c.id}]
    /\ UNCHANGED <<pc, activation, ids, answer>>

(* The first conflict ends the sweep with an error; what it has stored     *)
(* stays.                                                                  *)
SweepConflict(h, c) ==
    /\ pc[h] = "sweep"
    /\ c \in changed[h]
    /\ ~ IsCurrent(c.id, c.record.version)
    /\ Reply(h, "conflict")
    /\ UNCHANGED <<store, shown>>

(* Fault: the last of the list is left out.                                *)
FaultAllStored(h) == \E c \in changed[h] : changed[h] = {c}

AllStored(h) == changed[h] = {}

SweepDone(h) ==
    /\ pc[h] = "sweep"
    /\ AllStored(h)
    /\ Reply(h, "ok")
    /\ UNCHANGED <<store, shown>>

Next ==
    \/ \E i \in Incidents, s \in Statuses, e \in Instants \union {NoEnd},
          v \in ClaimedVersions : CreateIncident(i, s, e, v)
    \/ \E h \in Handlers :
          \/ \E i \in Incidents : \E state \in shown[i] : ListForActivation(h, i, state)
          \/ Activate(h)
          \/ ActivateConflict(h)
          \/ \E at \in Instants : BeginSweep(h, at)
          \/ \E c \in changed[h] : StoreResolved(h, c) \/ SweepConflict(h, c)
          \/ SweepDone(h)

Spec == Init /\ [][Next]_vars

-------------------------------------------------------------------------------
(* Properties                                                              *)

(* Every variable has its type.                                            *)
TypeOK ==
    /\ store \in [Incidents -> Incident]
    /\ shown \in [Incidents -> SUBSET [status : Statuses, version : Nat]]
    /\ pc \in [Handlers -> {"idle", "activate", "sweep"}]
    /\ target \in [Handlers -> Incidents \union {NoIncident}]
    /\ seen \in [Handlers -> [status : Statuses, version : Nat]]
    /\ item \in [Handlers -> Incident]
    /\ changed \in [Handlers -> SUBSET [id : Incidents, record : Incident]]
    /\ ids \in [Handlers -> SUBSET Incidents]
    /\ written \in [Handlers -> SUBSET Incidents]
    /\ answer \in [Handlers -> {"none", "ok", "conflict"}]

(* README.md line 45, "optimistic-lock activation with If-Match": an       *)
(* activation that succeeds replaces the state its client was shown, not   *)
(* one another request has put there since.                                *)
ActivationReplacesWhatWasSeen ==
    [][\A h \in Handlers : pc[h] = "activate" /\ answer'[h] = "ok"
          => Seen(store[target[h]]) = seen[h]]_vars

(* If-Match can tell any two states apart: an incident never changes       *)
(* without its version going up.                                           *)
VersionTellsStatesApart ==
    /\ TypeOK
    /\ \A i \in Incidents : \A a \in shown[i] :
          a.version = store[i].version => a = Seen(store[i])

(* A sweep answered with success has stored every id it reports.           *)
SweepReportsWhatItStored ==
    [][\A h \in Handlers : pc[h] = "sweep" /\ answer'[h] = "ok"
          => ids[h] = written[h]]_vars

(* state.go line 22, "AllowedTransitions returns the legal outgoing        *)
(* statuses for an incident": a stored incident changes its status only    *)
(* along those.                                                            *)
TransitionsAreLegal ==
    [][\A i \in Incidents :
          store[i].version # 0 /\ store'[i].status # store[i].status
          => store'[i].status \in AllowedTransitions(store[i].status)]_vars

===============================================================================
