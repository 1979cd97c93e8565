---------------------------- MODULE IncidentProofs ----------------------------
(***************************************************************************)
(* Proofs about the incidents of a dataset: the requests that change them, *)
(* for any incidents, handlers and instants and any number of versions,    *)
(* and the answers given about them, for any incidents and listings.       *)
(***************************************************************************)
EXTENDS IncidentService, CollectionLemmas

-------------------------------------------------------------------------------
(* Types                                                                   *)

(* An activation is about an incident, and the locals of a request that is *)
(* under way have not been answered.                                       *)
TargetsAreIncidents == \A h \in Handlers : pc[h] = "activate" => target[h] \in Incidents

Unanswered == \A h \in Handlers : pc[h] # "idle" => answer[h] = "none"

TypeInv == TypeOK /\ TargetsAreIncidents /\ Unanswered

States == [status : Statuses, version : Nat]

LEMMA IncidentTypes ==
    /\ Missing \in Incident
    /\ \A r \in Incident : Seen(r) \in States /\ r.version \in Nat
    /\ \A r \in Incident : Resolved(r) \in Incident /\ Resolved(r).version = r.version
    /\ \A r \in Incident : [r EXCEPT !.status = "active"] \in Incident
    /\ \A r \in Incident, v \in Versions : [r EXCEPT !.version = v] \in Incident
<1> USE MaxVersionAssumption DEF Incident, Statuses, Versions, NoEnd
<1>1. Missing \in Incident
  BY DEF Missing
<1>2. \A r \in Incident : Seen(r) \in States /\ r.version \in Nat
  BY DEF Seen, States
<1>3. \A r \in Incident : Resolved(r) \in Incident /\ Resolved(r).version = r.version
  BY DEF Resolved
<1>4. \A r \in Incident : [r EXCEPT !.status = "active"] \in Incident
  OBVIOUS
<1>5. \A r \in Incident, v \in Versions : [r EXCEPT !.version = v] \in Incident
  OBVIOUS
<1> QED  BY <1>1, <1>2, <1>3, <1>4, <1>5

LEMMA TypeInit == Init => TypeInv
  BY IncidentTypes DEF Init, TypeInv, TypeOK, TargetsAreIncidents, Unanswered, States

(* What UpdateIncident leaves in the store and in the history.             *)
LEMMA UpdateFacts ==
    ASSUME TypeInv, NEW i \in Incidents, NEW r \in Incident, NEW e, Updates(i, r, e)
    PROVE  /\ store[i].version = e
           /\ store'[i] = [r EXCEPT !.version = store[i].version + 1]
           /\ store'[i] \in Incident
           /\ store'[i].version = store[i].version + 1
           /\ store' \in [Incidents -> Incident]
           /\ \A j \in Incidents \ {i} : store'[j] = store[j] /\ shown'[j] = shown[j]
           /\ shown'[i] = shown[i] \union {Seen(store'[i])}
           /\ shown' \in [Incidents -> SUBSET States]
<1> DEFINE new == [r EXCEPT !.version = store[i].version + 1]
<1>1. store \in [Incidents -> Incident] /\ shown \in [Incidents -> SUBSET States]
  BY DEF TypeInv, TypeOK, States
<1>2. store[i].version \in Nat /\ store[i].version < MaxVersion /\ store[i].version = e
  BY <1>1, IncidentTypes DEF Updates, IsCurrent
<1>3. store[i].version + 1 \in Versions
  BY <1>2, MaxVersionAssumption DEF Versions
<1>4. new \in Incident /\ new.version = store[i].version + 1
  BY <1>3, IncidentTypes DEF Incident
<1>5. Seen(new) \in States
  BY <1>4, IncidentTypes
<1>6. store' = [store EXCEPT ![i] = new] /\ shown' = [shown EXCEPT ![i] = @ \union {Seen(new)}]
  BY DEF Updates, Bumped
<1> HIDE DEF new
<1>7. store'[i] = new
  BY <1>1, <1>6
<1> QED  BY <1>1, <1>2, <1>4, <1>5, <1>6, <1>7 DEF new

LEMMA ReplyTypes ==
    ASSUME TypeInv, NEW h \in Handlers, NEW text \in {"ok", "conflict"}, Reply(h, text),
           store' \in [Incidents -> Incident], shown' \in [Incidents -> SUBSET States]
    PROVE  TypeInv'
  BY IncidentTypes DEF Reply, TypeInv, TypeOK, TargetsAreIncidents, Unanswered, States

LEMMA TypeStep == TypeInv /\ [Next]_vars => TypeInv'
<1> SUFFICES ASSUME TypeInv, [Next]_vars PROVE TypeInv'
  OBVIOUS
<1> USE DEF TypeInv, TypeOK, TargetsAreIncidents, Unanswered, States
<1>1. ASSUME NEW i \in Incidents, NEW s \in Statuses, NEW e \in Instants \union {NoEnd},
             NEW v \in ClaimedVersions, CreateIncident(i, s, e, v)
      PROVE  TypeInv'
  <2> DEFINE new == [status |-> s, version |-> 1, ends |-> e]
  <2>1. new \in Incident
    BY MaxVersionAssumption DEF Incident, Versions
  <2>2. Seen(new) \in States /\ Seen([new EXCEPT !.version = v]) \in States
    BY ClaimedAssumption DEF Seen
  <2>3. store' = [store EXCEPT ![i] = new]
        /\ shown' = [shown EXCEPT ![i] = {Seen(new), Seen([new EXCEPT !.version = v])}]
    BY <1>1 DEF CreateIncident
  <2> HIDE DEF new
  <2>4. store' \in [Incidents -> Incident] /\ shown' \in [Incidents -> SUBSET States]
    BY <2>1, <2>2, <2>3
  <2> QED  BY <1>1, <2>4 DEF CreateIncident, activation, sweep
<1>2. ASSUME NEW h \in Handlers, NEW i \in Incidents, NEW state \in shown[i],
             ListForActivation(h, i, state)
      PROVE  TypeInv'
  BY <1>2, IncidentTypes DEF ListForActivation, sweep
<1>3. ASSUME NEW h \in Handlers, Activate(h) PROVE TypeInv'
  <2>1. /\ target[h] \in Incidents /\ item[h] \in Incident
        /\ Updates(target[h], item[h], seen[h].version)
    BY <1>3 DEF Activate
  <2>2. store' \in [Incidents -> Incident] /\ shown' \in [Incidents -> SUBSET States]
    BY <2>1, UpdateFacts
  <2> QED  BY <1>3, <2>2, ReplyTypes DEF Activate
<1>4. ASSUME NEW h \in Handlers, UNCHANGED <<store, shown>>,
             Reply(h, "ok") \/ Reply(h, "conflict")
      PROVE  TypeInv'
  BY <1>4, ReplyTypes
<1>5. ASSUME NEW h \in Handlers,
             ActivateConflict(h) \/ SweepDone(h) \/ \E c \in changed[h] : SweepConflict(h, c)
      PROVE  TypeInv'
  BY <1>4, <1>5 DEF ActivateConflict, SweepDone, SweepConflict
<1>6. ASSUME NEW h \in Handlers, NEW at \in Instants, BeginSweep(h, at) PROVE TypeInv'
  <2>1. ToResolve(at) \subseteq Incidents
    BY DEF ToResolve
  <2>2. {[id |-> i, record |-> Resolved(store[i])] : i \in ToResolve(at)}
          \subseteq [id : Incidents, record : Incident]
    BY <2>1, IncidentTypes
  <2> QED  BY <1>6, <2>1, <2>2 DEF BeginSweep, activation
<1>7. ASSUME NEW h \in Handlers, NEW c \in changed[h], StoreResolved(h, c) PROVE TypeInv'
  <2>1. /\ c.id \in Incidents /\ c.record \in Incident
        /\ Updates(c.id, c.record, c.record.version)
    BY <1>7 DEF StoreResolved
  <2>2. store' \in [Incidents -> Incident] /\ shown' \in [Incidents -> SUBSET States]
    BY <2>1, UpdateFacts
  <2> QED  BY <1>7, <2>1, <2>2 DEF StoreResolved, activation
<1>8. CASE UNCHANGED vars
  BY <1>8 DEF vars, activation, sweep
<1> QED  BY <1>1, <1>2, <1>3, <1>5, <1>6, <1>7, <1>8 DEF Next

-------------------------------------------------------------------------------
(* What a sweep reports.  What it has stored and what it still has to      *)
(* store are together what it will report.                                 *)

SweepAccounts ==
    \A h \in Handlers : pc[h] = "sweep" => ids[h] = written[h] \union {c.id : c \in changed[h]}

SweepInv == TypeInv /\ SweepAccounts

LEMMA SweepInit == Init => SweepInv
  BY TypeInit DEF Init, SweepInv, SweepAccounts

LEMMA SweepStep == SweepInv /\ [Next]_vars => SweepInv'
<1> SUFFICES ASSUME SweepInv, [Next]_vars PROVE SweepAccounts'
  BY TypeStep DEF SweepInv
<1> USE DEF SweepInv, SweepAccounts
<1>1. TypeOK
  BY DEF TypeInv
<1>2. ASSUME UNCHANGED sweep, \A g \in Handlers : pc'[g] = "sweep" => pc[g] = "sweep"
      PROVE  SweepAccounts'
  BY <1>2 DEF sweep
<1>3. ASSUME NEW h \in Handlers, NEW text, Reply(h, text) PROVE SweepAccounts'
  BY <1>1, <1>3 DEF Reply, TypeOK
<1>4. ASSUME NEW h \in Handlers, NEW at \in Instants, BeginSweep(h, at) PROVE SweepAccounts'
  <2> DEFINE list == {[id |-> i, record |-> Resolved(store[i])] : i \in ToResolve(at)}
  <2>1. {c.id : c \in list} = ToResolve(at)
    <3>1. \A i \in ToResolve(at) : \E c \in list : c.id = i
      <4> TAKE i \in ToResolve(at)
      <4>1. [id |-> i, record |-> Resolved(store[i])] \in list
        OBVIOUS
      <4> QED  BY <4>1
    <3>2. \A c \in list : c.id \in ToResolve(at)
      OBVIOUS
    <3> HIDE DEF list
    <3> QED  BY <3>1, <3>2
  <2> QED  BY <1>1, <1>4, <2>1 DEF BeginSweep, TypeOK
<1>5. ASSUME NEW h \in Handlers, NEW c \in changed[h], StoreResolved(h, c)
      PROVE  SweepAccounts'
  <2>1. /\ changed'[h] = changed[h] \ {c}
        /\ written'[h] = written[h] \union {c.id}
        /\ ids' = ids /\ pc' = pc
        /\ \A g \in Handlers \ {h} : changed'[g] = changed[g] /\ written'[g] = written[g]
    BY <1>1, <1>5 DEF StoreResolved, TypeOK
  <2>2. {d.id : d \in changed[h]} = {d.id : d \in changed'[h]} \union {c.id}
    BY <2>1
  <2> QED  BY <2>1, <2>2
<1>6. ASSUME NEW h \in Handlers, NEW i \in Incidents, NEW state, ListForActivation(h, i, state)
      PROVE  SweepAccounts'
  BY <1>1, <1>2, <1>6 DEF ListForActivation, TypeOK
<1> QED
  BY <1>2, <1>3, <1>4, <1>5, <1>6
     DEF Next, CreateIncident, Activate, ActivateConflict, SweepConflict, SweepDone, vars, sweep

(* A request under way is answered "ok" by the last step of its own only.  *)
LEMMA OkSteps ==
    ASSUME TypeInv, [Next]_vars, NEW h \in Handlers, pc[h] # "idle", answer'[h] = "ok"
    PROVE  Activate(h) \/ SweepDone(h)
<1> USE DEF TypeInv, TypeOK, Unanswered
<1>1. answer[h] = "none"
  OBVIOUS
<1>2. ASSUME UNCHANGED answer PROVE FALSE
  BY <1>1, <1>2
<1>3. ASSUME NEW g \in Handlers, NEW text, answer' = [answer EXCEPT ![g] = text]
      PROVE  g = h /\ text = "ok"
  BY <1>1, <1>3
<1>4. ASSUME NEW g \in Handlers, Activate(g) \/ SweepDone(g) PROVE g = h
  BY <1>3, <1>4 DEF Activate, SweepDone, Reply
<1>5. ASSUME NEW g \in Handlers,
             \/ \E i \in Incidents : \E state \in shown[i] : ListForActivation(g, i, state)
             \/ \E at \in Instants : BeginSweep(g, at)
             \/ ActivateConflict(g)
             \/ \E c \in changed[g] : SweepConflict(g, c)
      PROVE  FALSE
  <2>1. answer' = [answer EXCEPT ![g] = "none"] \/ answer' = [answer EXCEPT ![g] = "conflict"]
    BY <1>5 DEF ListForActivation, BeginSweep, ActivateConflict, SweepConflict, Reply
  <2> QED  BY <1>3, <2>1
<1>6. ASSUME \/ \E i \in Incidents, s \in Statuses, e \in Instants \union {NoEnd},
                   v \in ClaimedVersions : CreateIncident(i, s, e, v)
             \/ \E g \in Handlers : \E c \in changed[g] : StoreResolved(g, c)
             \/ UNCHANGED vars
      PROVE  FALSE
  BY <1>2, <1>6 DEF CreateIncident, StoreResolved, vars
<1> QED  BY <1>4, <1>5, <1>6 DEF Next

(* A sweep answered with success has stored every id it reports, whatever  *)
(* other requests did to the incidents while it went through its list.     *)
THEOREM SweepsReportWhatTheyStored == Spec => SweepReportsWhatItStored
<1> DEFINE Reported == \A h \in Handlers : pc[h] = "sweep" /\ answer'[h] = "ok"
                          => ids[h] = written[h]
<1>1. Spec => []SweepInv
  BY SweepInit, SweepStep, PTL DEF Spec
<1>2. ASSUME SweepInv, [Next]_vars PROVE Reported
  <2> SUFFICES ASSUME NEW h \in Handlers, pc[h] = "sweep", answer'[h] = "ok"
               PROVE  ids[h] = written[h]
    OBVIOUS
  <2>1. Activate(h) \/ SweepDone(h)
    BY <1>2, OkSteps DEF SweepInv
  <2>2. changed[h] = {}
    BY <2>1 DEF Activate, SweepDone, AllStored
  <2> QED  BY <1>2, <2>2 DEF SweepInv, SweepAccounts
<1>3. SweepInv /\ [Next]_vars => [Reported]_vars
  BY <1>2
<1> QED  BY <1>1, <1>3, PTL DEF Spec, SweepReportsWhatItStored

-------------------------------------------------------------------------------
(* What If-Match compares.  A reply to a creation repeats the version its  *)
(* body claims, so a client that claims a version the incident has yet to  *)
(* reach is shown one that a later state will have; a client that leaves   *)
(* the field out, or sends the right value, is not.                        *)
HonestClaims == ClaimedVersions \subseteq {0, 1}

(* Nothing was shown with a version beyond the one stored.                 *)
ShownIsPast == \A i \in Incidents : \A a \in shown[i] : a.version <= store[i].version

(* An activation under way compares with a state that was shown.           *)
SeenWasShown ==
    \A h \in Handlers : pc[h] = "activate" =>
        /\ store[target[h]].version # 0
        /\ seen[h] \in shown[target[h]]

VersionInv ==
    /\ TypeInv
    /\ ShownIsPast
    /\ SeenWasShown
    /\ VersionTellsStatesApart

LEMMA VersionInit == Init => VersionInv
  BY TypeInit
     DEF Init, VersionInv, ShownIsPast, SeenWasShown, VersionTellsStatesApart, TypeInv

LEMMA VersionUpdate ==
    ASSUME VersionInv, NEW i \in Incidents, NEW r \in Incident, NEW e, Updates(i, r, e), TypeInv'
    PROVE  /\ ShownIsPast' /\ VersionTellsStatesApart'
           /\ \A j \in Incidents : store[j].version # 0 => store'[j].version # 0
           /\ \A j \in Incidents : shown[j] \subseteq shown'[j]
<1> DEFINE v == store[i].version
<1>1. /\ store'[i].version = v + 1
      /\ \A j \in Incidents \ {i} : store'[j] = store[j] /\ shown'[j] = shown[j]
      /\ shown'[i] = shown[i] \union {Seen(store'[i])}
      /\ v \in Nat
  BY UpdateFacts, IncidentTypes DEF VersionInv, TypeInv, TypeOK
<1>2. \A a \in shown[i] : a.version \in Nat /\ a.version <= v
  BY DEF VersionInv, TypeInv, TypeOK, ShownIsPast
<1>3. Seen(store'[i]).version = v + 1
  BY <1>1 DEF Seen
<1>4. \A a \in shown'[i] : a.version <= v + 1 /\ (a.version = v + 1 => a = Seen(store'[i]))
  BY <1>1, <1>2, <1>3
<1>5. ShownIsPast'
  BY <1>1, <1>4 DEF ShownIsPast, VersionInv
<1>6. VersionTellsStatesApart'
  <2>1. \A j \in Incidents : \A a \in shown'[j] :
           a.version = store'[j].version => a = Seen(store'[j])
    BY <1>1, <1>4 DEF VersionInv, VersionTellsStatesApart
  <2> QED  BY <2>1 DEF VersionTellsStatesApart, TypeInv
<1> QED  BY <1>1, <1>5, <1>6

LEMMA VersionStep == HonestClaims /\ VersionInv /\ [Next]_vars => VersionInv'
<1> SUFFICES ASSUME HonestClaims, VersionInv, [Next]_vars PROVE VersionInv'
  OBVIOUS
<1>1. TypeInv /\ TypeInv' /\ TypeOK /\ TypeOK'
  BY TypeStep DEF VersionInv, TypeInv
<1> USE <1>1 DEF VersionInv
<1>2. ASSUME UNCHANGED <<store, shown>> PROVE ShownIsPast' /\ VersionTellsStatesApart'
  BY <1>2 DEF ShownIsPast, VersionTellsStatesApart, Seen
<1>3. ASSUME \A j \in Incidents : store[j].version # 0 =>
                 store'[j].version # 0 /\ shown[j] \subseteq shown'[j],
             \A g \in Handlers : pc'[g] = "activate" =>
                 pc[g] = "activate" /\ target'[g] = target[g] /\ seen'[g] = seen[g]
      PROVE  SeenWasShown'
  BY <1>3 DEF SeenWasShown, TypeInv, TargetsAreIncidents
<1>4. ASSUME NEW h \in Handlers, NEW text, Reply(h, text)
      PROVE  \A g \in Handlers : pc'[g] = "activate" =>
                pc[g] = "activate" /\ target'[g] = target[g] /\ seen'[g] = seen[g]
  BY <1>4 DEF Reply, TypeOK
<1>5. ASSUME NEW i \in Incidents, NEW s \in Statuses, NEW e \in Instants \union {NoEnd},
             NEW c \in ClaimedVersions, CreateIncident(i, s, e, c)
      PROVE  VersionInv'
  <2> DEFINE new == [status |-> s, version |-> 1, ends |-> e]
  <2>1. /\ store[i].version = 0
        /\ store'[i] = new /\ shown'[i] = {Seen(new), Seen([new EXCEPT !.version = c])}
        /\ \A j \in Incidents \ {i} : store'[j] = store[j] /\ shown'[j] = shown[j]
        /\ UNCHANGED <<pc, target, seen>>
    BY <1>5 DEF CreateIncident, activation, TypeOK
  <2>2. \A a \in shown'[i] : a.version <= 1 /\ (a.version = 1 => a = Seen(new))
    BY <2>1 DEF HonestClaims, Seen
  <2>3. ShownIsPast'
    BY <2>1, <2>2 DEF ShownIsPast
  <2>4. VersionTellsStatesApart'
    BY <2>1, <2>2 DEF VersionTellsStatesApart
  <2>5. SeenWasShown'
    BY <1>3, <2>1
  <2> QED  BY <2>3, <2>4, <2>5
<1>6. ASSUME NEW h \in Handlers, NEW i \in Incidents, NEW state \in shown[i],
             ListForActivation(h, i, state)
      PROVE  VersionInv'
  <2>1. SeenWasShown'
    BY <1>6 DEF ListForActivation, SeenWasShown, TypeOK
  <2> QED  BY <1>2, <1>6, <2>1 DEF ListForActivation
<1>7. ASSUME NEW h \in Handlers, Activate(h) PROVE VersionInv'
  <2>1. /\ target[h] \in Incidents /\ item[h] \in Incident
        /\ Updates(target[h], item[h], seen[h].version)
    BY <1>7 DEF Activate, TypeInv, TypeOK, TargetsAreIncidents
  <2> QED  BY <1>3, <1>4, <1>7, <2>1, VersionUpdate DEF Activate
<1>8. ASSUME NEW h \in Handlers, UNCHANGED <<store, shown>>,
             Reply(h, "ok") \/ Reply(h, "conflict")
      PROVE  VersionInv'
  BY <1>2, <1>3, <1>4, <1>8
<1>9. ASSUME NEW h \in Handlers,
             ActivateConflict(h) \/ SweepDone(h) \/ \E c \in changed[h] : SweepConflict(h, c)
      PROVE  VersionInv'
  BY <1>8, <1>9 DEF ActivateConflict, SweepDone, SweepConflict
<1>10. ASSUME NEW h \in Handlers, NEW at \in Instants, BeginSweep(h, at) PROVE VersionInv'
  <2>1. \A g \in Handlers : pc'[g] = "activate" =>
           pc[g] = "activate" /\ target'[g] = target[g] /\ seen'[g] = seen[g]
    BY <1>10 DEF BeginSweep, activation, TypeOK
  <2> QED  BY <1>2, <1>3, <1>10, <2>1 DEF BeginSweep
<1>11. ASSUME NEW h \in Handlers, NEW c \in changed[h], StoreResolved(h, c) PROVE VersionInv'
  <2>1. /\ c.id \in Incidents /\ c.record \in Incident
        /\ Updates(c.id, c.record, c.record.version)
        /\ UNCHANGED <<pc, target, seen>>
    BY <1>11 DEF StoreResolved, activation, TypeOK
  <2> QED  BY <1>3, <2>1, VersionUpdate
<1>12. CASE UNCHANGED vars
  <2>1. UNCHANGED <<store, shown, pc, target, seen>>
    BY <1>12 DEF vars
  <2> QED  BY <1>2, <1>3, <2>1
<1> QED  BY <1>5, <1>6, <1>7, <1>9, <1>10, <1>11, <1>12 DEF Next

LEMMA VersionInductive == HonestClaims => (Spec => []VersionInv)
<1> SUFFICES ASSUME HonestClaims PROVE Spec => []VersionInv
  OBVIOUS
<1>1. VersionInv /\ [Next]_vars => VersionInv'
  BY VersionStep
<1> QED  BY VersionInit, <1>1, PTL DEF Spec

(* If-Match can tell any two states of an incident apart.                  *)
THEOREM VersionsDoTell == HonestClaims => (Spec => []VersionTellsStatesApart)
<1> SUFFICES ASSUME HonestClaims PROVE Spec => []VersionTellsStatesApart
  OBVIOUS
<1>1. VersionInv => VersionTellsStatesApart
  BY DEF VersionInv
<1> QED  BY <1>1, VersionInductive, PTL

(* An activation that succeeds replaces the state its client was shown.    *)
THEOREM ActivationsReplaceWhatWasSeen == HonestClaims => (Spec => ActivationReplacesWhatWasSeen)
<1> SUFFICES ASSUME HonestClaims PROVE Spec => ActivationReplacesWhatWasSeen
  OBVIOUS
<1> DEFINE Replaced == \A h \in Handlers : pc[h] = "activate" /\ answer'[h] = "ok"
                          => Seen(store[target[h]]) = seen[h]
<1>1. ASSUME VersionInv, [Next]_vars PROVE Replaced
  <2> SUFFICES ASSUME NEW h \in Handlers, pc[h] = "activate", answer'[h] = "ok"
               PROVE  Seen(store[target[h]]) = seen[h]
    OBVIOUS
  <2>1. Activate(h)
    BY <1>1, OkSteps DEF VersionInv, SweepDone
  <2>2. /\ target[h] \in Incidents /\ seen[h] \in shown[target[h]]
        /\ store[target[h]].version = seen[h].version
    BY <1>1, <2>1
       DEF VersionInv, SeenWasShown, TypeInv, TargetsAreIncidents, Activate, Updates, IsCurrent
  <2> QED  BY <1>1, <2>2 DEF VersionInv, VersionTellsStatesApart
<1>2. VersionInv /\ [Next]_vars => [Replaced]_vars
  BY <1>1
<1> QED  BY <1>2, VersionInductive, PTL DEF Spec, ActivationReplacesWhatWasSeen

-------------------------------------------------------------------------------
(* The answers about incidents                                             *)

(* The helpers that IncidentResolver takes from the libraries are those    *)
(* the lemmas are about.                                                   *)
LEMMA ResolverNames ==
    /\ \A S : A!Cardinality(S) = Cardinality(S)
    /\ \A S, T : A!Bijection(S, T) = Bijection(S, T)
    /\ \A S : A!Min(S) = Min(S)
<1>1. \A S : A!Cardinality(S) = Cardinality(S)
  BY Zenon DEF A!Cardinality, Cardinality
<1>2. \A S, T : A!Bijection(S, T) = Bijection(S, T)
  BY Zenon DEF A!Bijection, Bijection, A!Injection, Injection, A!IsInjective, IsInjective,
     A!Surjection, Surjection
<1>3. \A S : A!Min(S) = Min(S)
  BY Zenon DEF A!Min, Min
<1> QED  BY <1>1, <1>2, <1>3

Dated(items, n) ==
    DOMAIN items = 1 .. n /\ \A i \in 1 .. n : items[i].priority \in Int /\ items[i].created \in Nat

(* Which item the sort puts ahead of which.                                *)
Ahead(items, i, j) ==
    \/ A!Before(items[i], items[j])
    \/ ~ A!Before(items[j], items[i]) /\ i < j

PlaceOf(items, j) == 1 + Cardinality({i \in DOMAIN items : Ahead(items, i, j)})

LEMMA AheadIsAnOrder ==
    ASSUME NEW n \in Nat, NEW items, Dated(items, n)
    PROVE  /\ \A i \in 1 .. n : ~ Ahead(items, i, i)
           /\ \A i, j \in 1 .. n : i # j => Ahead(items, i, j) \/ Ahead(items, j, i)
           /\ \A i, j, k \in 1 .. n : Ahead(items, i, j) /\ Ahead(items, j, k) => Ahead(items, i, k)
           /\ \A i, j \in 1 .. n : Ahead(items, i, j) => ~ A!Before(items[j], items[i])
<1> DEFINE p(i) == items[i].priority
           c(i) == items[i].created
<1>1. \A i \in 1 .. n : p(i) \in Int /\ c(i) \in Nat
  BY DEF Dated
<1>2. \A i, j : Ahead(items, i, j) <=>
         \/ p(i) > p(j) \/ (p(i) = p(j) /\ c(i) < c(j))
         \/ ~ (p(j) > p(i) \/ (p(j) = p(i) /\ c(j) < c(i))) /\ i < j
  BY Zenon DEF Ahead, A!Before
<1>3. \A i, j : A!Before(items[j], items[i]) <=> p(j) > p(i) \/ (p(j) = p(i) /\ c(j) < c(i))
  BY Zenon DEF A!Before
<1> HIDE DEF p, c
<1>4. \A i \in 1 .. n : ~ Ahead(items, i, i)
  BY <1>1, <1>2
<1>5. \A i, j \in 1 .. n : i # j => Ahead(items, i, j) \/ Ahead(items, j, i)
  BY <1>1, <1>2
<1>6. ASSUME NEW i \in 1 .. n, NEW j \in 1 .. n, NEW k \in 1 .. n,
             Ahead(items, i, j), Ahead(items, j, k)
      PROVE  Ahead(items, i, k)
  <2>1. /\ p(i) \in Int /\ p(j) \in Int /\ p(k) \in Int
        /\ c(i) \in Nat /\ c(j) \in Nat /\ c(k) \in Nat
    BY <1>1
  <2> QED  BY <1>2, <1>6, <2>1
<1>7. \A i, j \in 1 .. n : Ahead(items, i, j) => ~ A!Before(items[j], items[i])
  BY <1>1, <1>2, <1>3
<1> QED  BY <1>4, <1>5, <1>6, <1>7

(* By counting what is ahead of it, each item gets a place of its own.     *)
LEMMA PlacesAreDistinct ==
    ASSUME NEW n \in Nat, NEW items, Dated(items, n)
    PROVE  /\ \A j \in 1 .. n : PlaceOf(items, j) \in 1 .. n
           /\ \A i, j \in 1 .. n : Ahead(items, i, j) => PlaceOf(items, i) < PlaceOf(items, j)
           /\ \A k \in 1 .. n : \E j \in 1 .. n : PlaceOf(items, j) = k
<1> DEFINE Earlier(j) == {i \in 1 .. n : Ahead(items, i, j)}
           Place(j) == PlaceOf(items, j)
<1>1. /\ \A i \in 1 .. n : ~ Ahead(items, i, i)
      /\ \A i, j \in 1 .. n : i # j => Ahead(items, i, j) \/ Ahead(items, j, i)
      /\ \A i, j, k \in 1 .. n : Ahead(items, i, j) /\ Ahead(items, j, k) => Ahead(items, i, k)
  BY AheadIsAnOrder
<1>2. IsFiniteSet(1 .. n) /\ Cardinality(1 .. n) = n
  BY FS_Interval
<1>3. \A j : /\ Earlier(j) \subseteq 1 .. n
             /\ IsFiniteSet(Earlier(j)) /\ Cardinality(Earlier(j)) \in Nat
  BY <1>2, FS_Subset, FS_CardinalityType
<1> DEFINE ahead(j) == Cardinality(Earlier(j))
<1>9. \A j : PlaceOf(items, j) = 1 + ahead(j)
  BY DEF PlaceOf, Dated
<1>4. ASSUME NEW j \in 1 .. n PROVE Place(j) \in 1 .. n
  <2>1. Earlier(j) \subseteq (1 .. n) \ {j}
    BY <1>1
  <2>2. IsFiniteSet((1 .. n) \ {j}) /\ Cardinality((1 .. n) \ {j}) = n - 1
    BY <1>2, FS_RemoveElement
  <2>3. Cardinality(Earlier(j)) <= n - 1
    BY <2>1, <2>2, FS_Subset
  <2>4. ahead(j) \in Nat /\ ahead(j) <= n - 1
    BY <1>3, <2>3
  <2> HIDE DEF ahead
  <2> QED  BY <1>9, <2>4
<1>5. ASSUME NEW i \in 1 .. n, NEW j \in 1 .. n, Ahead(items, i, j) PROVE Place(i) < Place(j)
  <2>1. Earlier(i) \subseteq Earlier(j) \ {i} /\ i \in Earlier(j)
    BY <1>1, <1>5
  <2>2. IsFiniteSet(Earlier(j) \ {i}) /\ Cardinality(Earlier(j) \ {i}) = Cardinality(Earlier(j)) - 1
    BY <1>3, <2>1, FS_RemoveElement
  <2>3. Cardinality(Earlier(i)) <= Cardinality(Earlier(j)) - 1
    BY <2>1, <2>2, FS_Subset
  <2>4. ahead(i) \in Nat /\ ahead(j) \in Nat /\ ahead(i) <= ahead(j) - 1
    BY <1>3, <2>3
  <2> HIDE DEF ahead
  <2> QED  BY <1>9, <2>4
<1> DEFINE place == [j \in 1 .. n |-> Place(j)]
<1> HIDE DEF Place
<1>6. place \in Injection(1 .. n, 1 .. n)
  <2>1. \A i, j \in 1 .. n : i # j => Place(i) # Place(j)
    BY <1>1, <1>4, <1>5
  <2> QED  BY <1>4, <2>1 DEF Injection, IsInjective
<1>7. place \in Surjection(1 .. n, 1 .. n)
  <2> HIDE DEF place
  <2> QED  BY <1>2, <1>6, FS_Injection
<1>8. \A k \in 1 .. n : \E j \in 1 .. n : Place(j) = k
  BY <1>7 DEF Surjection
<1> QED  BY <1>4, <1>5, <1>8 DEF Place

(* The sort keeps the items and leaves none before one that should precede *)
(* it.                                                                     *)
LEMMA SortIsRight ==
    ASSUME NEW n \in Nat, NEW items, Dated(items, n)
    PROVE  LET out == A!SortByPriority(items) IN
           /\ DOMAIN out = 1 .. n
           /\ \A k \in 1 .. n : \E j \in 1 .. n : out[k] = items[j]
           /\ \A j \in 1 .. n : \E k \in 1 .. n : out[k] = items[j]
           /\ \A i, j \in 1 .. n : i < j => ~ A!Before(out[j], out[i])
<1> DEFINE Place(j) == PlaceOf(items, j)
           at(k) == CHOOSE j \in DOMAIN items : Place(j) = k
           out == [k \in DOMAIN items |-> items[at(k)]]
<1>1. A!SortByPriority(items) = out
  BY Zenon DEF A!SortByPriority, A!Cardinality, Cardinality, Ahead, PlaceOf
<1> HIDE DEF Place
<1>8. DOMAIN items = 1 .. n
  BY DEF Dated
<1>2. /\ \A j \in 1 .. n : Place(j) \in 1 .. n
      /\ \A i, j \in 1 .. n : Ahead(items, i, j) => Place(i) < Place(j)
      /\ \A k \in 1 .. n : \E j \in 1 .. n : Place(j) = k
  BY PlacesAreDistinct DEF Place
<1>3. \A k \in 1 .. n : at(k) \in 1 .. n /\ Place(at(k)) = k
  BY <1>2, <1>8
<1>4. \A j \in 1 .. n : at(Place(j)) = j
  <2> SUFFICES ASSUME NEW j \in 1 .. n, NEW i \in 1 .. n, Place(i) = Place(j) PROVE i = j
    BY <1>2, <1>3, <1>8
  <2>1. i # j => Ahead(items, i, j) \/ Ahead(items, j, i)
    BY AheadIsAnOrder
  <2> QED  BY <1>2, <2>1
<1> HIDE DEF at
<1>5. ASSUME NEW i \in 1 .. n, NEW j \in 1 .. n, i < j PROVE ~ A!Before(out[j], out[i])
  <2>1. at(i) \in 1 .. n /\ at(j) \in 1 .. n /\ at(i) # at(j) /\ ~ Ahead(items, at(j), at(i))
    BY <1>2, <1>3, <1>5
  <2>2. Ahead(items, at(i), at(j))
    BY <2>1, AheadIsAnOrder
  <2> QED  BY <1>8, <2>1, <2>2, AheadIsAnOrder
<1>6. \A k \in 1 .. n : out[k] = items[at(k)] /\ at(k) \in 1 .. n
  BY <1>3, <1>8
<1>7. \A j \in 1 .. n : Place(j) \in 1 .. n /\ out[Place(j)] = items[j]
  BY <1>2, <1>4, <1>8
<1> QED  BY <1>1, <1>5, <1>6, <1>7, <1>8

LEMMA ListingIs ==
    ASSUME listed \subseteq Candidates, IsFiniteSet(listed), NEW items \in A!Listings
    PROVE  LET n == Cardinality(listed) IN
           /\ n \in Nat /\ Dated(items, n)
           /\ \A k \in 1 .. n : items[k] \in listed
           /\ \A i \in listed : \E k \in 1 .. n : items[k] = i
           /\ \A j, k \in 1 .. n : items[j] = items[k] => j = k
           /\ \A j, k \in 1 .. n : j < k => items[j].priority >= items[k].priority
<1> DEFINE n == Cardinality(listed)
<1>1. n \in Nat
  BY FS_CardinalityType
<1>2. /\ items \in Bijection(1 .. n, listed)
      /\ \A j, k \in 1 .. n : j < k => items[j].priority >= items[k].priority
  BY ResolverNames DEF A!Listings
<1> HIDE DEF n
<1>3. /\ items \in [1 .. n -> listed]
      /\ \A i \in listed : \E k \in 1 .. n : items[k] = i
      /\ \A j, k \in 1 .. n : items[j] = items[k] => j = k
  BY <1>2 DEF Bijection, Injection, IsInjective, Surjection
<1>4. \A k \in 1 .. n : items[k] \in listed /\ items[k] \in Candidates
  BY <1>3
<1>5. Dated(items, n)
  BY <1>3, <1>4, AnswersAssumption DEF Dated, A!ResolverAssumption
<1> QED  BY <1>1, <1>2, <1>3, <1>4, <1>5 DEF n

(* The incidents that route search applies to an edge.                     *)
Rivals(edge, at) == A!Affecting([incidents |-> listed], [id |-> edge], at)

LEMMA RivalsAre ==
    ASSUME NEW edge, NEW at, NEW i
    PROVE  i \in Rivals(edge, at) <=> i \in listed /\ A!InForce(i, at) /\ edge \in i.edges
  BY DEF Rivals, A!Affecting, A!InForce

(* The first of the items in force on an edge, whatever list they are in.  *)
LEMMA FirstOfActive ==
    ASSUME NEW n \in Nat, NEW items, DOMAIN items = 1 .. n, NEW edge, NEW at
    PROVE  LET active == A!ActiveFor(items, edge, at)
               On(k) == A!InForce(items[k], at) /\ edge \in items[k].edges IN
           /\ DOMAIN active = {k \in 1 .. n : On(k)}
           /\ DOMAIN active # {} =>
                 \E m \in 1 .. n : /\ On(m) /\ A!FirstOf(active) = items[m]
                                   /\ \A k \in 1 .. n : On(k) => m <= k
<1> DEFINE On(k) == A!InForce(items[k], at) /\ edge \in items[k].edges
           active == A!ActiveFor(items, edge, at)
           places == {k \in 1 .. n : On(k)}
<1>1. active = [k \in places |-> items[k]]
  BY DEF A!ActiveFor
<1> HIDE DEF active
<1>2. DOMAIN active = places
  BY <1>1
<1>3. ASSUME places # {} PROVE \E m \in 1 .. n : /\ On(m) /\ A!FirstOf(active) = items[m]
                                                 /\ \A k \in 1 .. n : On(k) => m <= k
  <2>1. Min(places) \in places /\ \A k \in places : Min(places) <= k
    <3> HIDE DEF On
    <3>1. places \subseteq Nat
      OBVIOUS
    <3> HIDE DEF places
    <3> QED  BY <1>3, <3>1, LeastNumber
  <2>2. A!FirstOf(active) = items[Min(places)]
    BY <1>1, <1>2, <2>1, ResolverNames DEF A!FirstOf
  <2> QED  BY <2>1, <2>2
<1> QED  BY <1>2, <1>3 DEF active

LEMMA SortedIsListed ==
    ASSUME listed \subseteq Candidates, IsFiniteSet(listed), NEW items \in A!Listings
    PROVE  LET out == A!SortByPriority(items)
               n == Cardinality(listed) IN
           /\ n \in Nat /\ DOMAIN out = 1 .. n
           /\ \A k \in 1 .. n : out[k] \in listed
           /\ \A i \in listed : \E k \in 1 .. n : out[k] = i
           /\ \A j, k \in 1 .. n : j < k => ~ A!Before(out[k], out[j])
<1> DEFINE n == Cardinality(listed)
           out == A!SortByPriority(items)
<1>1. /\ n \in Nat /\ Dated(items, n)
      /\ \A k \in 1 .. n : items[k] \in listed
      /\ \A i \in listed : \E k \in 1 .. n : items[k] = i
  BY ListingIs
<1>2. /\ DOMAIN out = 1 .. n
      /\ \A k \in 1 .. n : \E j \in 1 .. n : out[k] = items[j]
      /\ \A j \in 1 .. n : \E k \in 1 .. n : out[k] = items[j]
      /\ \A i, j \in 1 .. n : i < j => ~ A!Before(out[j], out[i])
  BY <1>1, SortIsRight
<1> HIDE DEF n, out
<1>3. /\ \A k \in 1 .. n : out[k] \in listed
      /\ \A i \in listed : \E k \in 1 .. n : out[k] = i
  BY <1>1, <1>2
<1> QED  BY <1>1, <1>2, <1>3 DEF n, out

(* The dominant incident of an edge, found in any listing.                 *)
LEMMA DominantIs ==
    ASSUME listed \subseteq Candidates, IsFiniteSet(listed),
           NEW items \in A!Listings, NEW edge, NEW at
    PROVE  LET found == A!Dominant(items, edge, at)
               others == A!ActiveFor(items, edge, at) IN
           /\ found = {} <=> Rivals(edge, at) = {}
           /\ found \subseteq Rivals(edge, at)
           /\ \A d \in found :
                 /\ \A i \in Rivals(edge, at) : /\ i.priority <= d.priority
                                                /\ i.priority = d.priority => d.created <= i.created
                 /\ DOMAIN others # {} /\ A!FirstOf(others).priority = d.priority
<1> DEFINE n == Cardinality(listed)
           out == A!SortByPriority(items)
           sortedOn == A!ActiveFor(out, edge, at)
           others == A!ActiveFor(items, edge, at)
           found == A!Dominant(items, edge, at)
           On(i) == A!InForce(i, at) /\ edge \in i.edges
<1>1. /\ n \in Nat /\ Dated(items, n)
      /\ \A k \in 1 .. n : items[k] \in listed
      /\ \A i \in listed : \E k \in 1 .. n : items[k] = i
      /\ \A j, k \in 1 .. n : j < k => items[j].priority >= items[k].priority
  BY ListingIs
<1>2. /\ DOMAIN out = 1 .. n
      /\ \A k \in 1 .. n : out[k] \in listed
      /\ \A i \in listed : \E k \in 1 .. n : out[k] = i
      /\ \A j, k \in 1 .. n : j < k => ~ A!Before(out[k], out[j])
  BY SortedIsListed
<1>3. found = IF DOMAIN sortedOn = {} THEN {} ELSE {A!FirstOf(sortedOn)}
  BY DEF A!Dominant
<1> HIDE DEF n, out, found
<1>4. /\ DOMAIN sortedOn = {k \in 1 .. n : On(out[k])}
      /\ DOMAIN sortedOn # {} =>
            \E m \in 1 .. n : /\ On(out[m]) /\ A!FirstOf(sortedOn) = out[m]
                              /\ \A k \in 1 .. n : On(out[k]) => m <= k
  BY <1>1, <1>2, FirstOfActive
<1>5. /\ DOMAIN others = {k \in 1 .. n : On(items[k])}
      /\ DOMAIN others # {} =>
            \E m \in 1 .. n : /\ On(items[m]) /\ A!FirstOf(others) = items[m]
                              /\ \A k \in 1 .. n : On(items[k]) => m <= k
  BY <1>1, FirstOfActive DEF Dated
<1>6. \A i : i \in Rivals(edge, at) <=> i \in listed /\ On(i)
  BY RivalsAre
<1>7. \A i \in listed : i.priority \in Int /\ i.created \in Nat
  BY AnswersAssumption DEF A!ResolverAssumption
<1> HIDE DEF On, sortedOn, others
<1>8. DOMAIN sortedOn = {} <=> Rivals(edge, at) = {}
  BY <1>2, <1>4, <1>6
<1>9. ASSUME NEW d \in found
      PROVE  /\ d \in Rivals(edge, at)
             /\ \A i \in Rivals(edge, at) : /\ i.priority <= d.priority
                                            /\ i.priority = d.priority => d.created <= i.created
             /\ DOMAIN others # {} /\ A!FirstOf(others).priority = d.priority
  <2>1. PICK m \in 1 .. n : /\ On(out[m]) /\ d = out[m]
                            /\ \A k \in 1 .. n : On(out[k]) => m <= k
    BY <1>3, <1>4, <1>9
  <2>2. d \in Rivals(edge, at) /\ d \in listed
    BY <1>2, <1>6, <2>1
  <2>3. ASSUME NEW i \in Rivals(edge, at)
        PROVE  /\ i.priority <= d.priority
               /\ i.priority = d.priority => d.created <= i.created
    <3>1. PICK k \in 1 .. n : out[k] = i /\ m <= k
      BY <1>2, <1>6, <2>1
    <3>2. i = d \/ ~ A!Before(i, d)
      BY <1>1, <1>2, <2>1, <3>1
    <3>3. i \in listed
      BY <1>6
    <3> QED  BY <1>7, <2>2, <3>2, <3>3 DEF A!Before
  <2>4. PICK j \in 1 .. n : items[j] = d
    BY <1>1, <2>2
  <2>5. DOMAIN others # {}
    BY <1>5, <1>6, <2>2, <2>4
  <2>6. PICK h \in 1 .. n : On(items[h]) /\ A!FirstOf(others) = items[h] /\ h <= j
    BY <1>5, <1>6, <2>2, <2>4, <2>5
  <2>7. items[h] \in Rivals(edge, at) /\ items[h] \in listed
    BY <1>1, <1>6, <2>6
  <2>8. items[h].priority >= d.priority
    BY <1>1, <1>7, <2>2, <2>4, <2>6
  <2>9. A!FirstOf(others).priority = d.priority
    BY <1>7, <2>2, <2>3, <2>6, <2>7, <2>8
  <2> QED  BY <2>2, <2>3, <2>5, <2>9
<1> QED  BY <1>3, <1>8, <1>9 DEF found, others

(* The edges on which route search applies both incidents.                 *)
BothOn(i, j, at) == {e \in EdgeIds : {i, j} \subseteq Rivals(e, at)}

LEMMA BothOnIs ==
    ASSUME listed \subseteq Candidates, NEW i \in listed, NEW j \in listed, NEW at
    PROVE  /\ BothOn(i, j, at) # {} => A!InForce(i, at) /\ A!InForce(j, at)
           /\ A!InForce(i, at) /\ A!InForce(j, at) => BothOn(i, j, at) = A!SharedEdges(i, j)
<1>1. i.edges \subseteq EdgeIds /\ j.edges \subseteq EdgeIds
  BY AnswersAssumption DEF A!ResolverAssumption
<1>2. \A e : {i, j} \subseteq Rivals(e, at) <=>
         /\ A!InForce(i, at) /\ e \in i.edges
         /\ A!InForce(j, at) /\ e \in j.edges
  BY RivalsAre
<1> QED  BY <1>1, <1>2 DEF BothOn, A!SharedEdges

IsWhole(conflicts, at) ==
    /\ \A i, j \in listed : (i # j /\ BothOn(i, j, at) # {}) =>
           \E c \in conflicts : /\ c.edges = BothOn(i, j, at)
                                /\ \A d \in conflicts : {d.left, d.right} = {i.id, j.id} <=> d = c
    /\ \A c \in conflicts :
           \E i, j \in listed : /\ i # j /\ {c.left, c.right} = {i.id, j.id}
                                /\ BothOn(i, j, at) # {}

(* Every two places are compared once, the earlier one on the left.        *)
LEMMA ConflictsAreWhole ==
    ASSUME listed \subseteq Candidates, IsFiniteSet(listed), NEW items \in A!Listings, NEW at
    PROVE  IsWhole(A!Conflicts(items, at), at)
<1> DEFINE n == Cardinality(listed)
           all == A!Conflicts(items, at)
           active == {k \in 1 .. n : A!InForce(items[k], at)}
           Of(a, b) == A!Conflict(items[a], items[b])
<1>1. /\ n \in Nat /\ DOMAIN items = 1 .. n
      /\ \A k \in 1 .. n : items[k] \in listed
      /\ \A i \in listed : \E k \in 1 .. n : items[k] = i
      /\ \A j, k \in 1 .. n : items[j] = items[k] => j = k
  BY ListingIs DEF Dated
<1> HIDE DEF n
<1>2. all = {c \in {A!Conflict(items[p[1]], items[p[2]]) : p \in A!Pairs(active)} : c.edges # {}}
  BY <1>1 DEF A!Conflicts
<1>3. \A c : c \in all <=>
         \E a, b \in active : a < b /\ c = Of(a, b) /\ c.edges # {}
  <2>1. A!Pairs(active) = {p \in active \X active : p[1] < p[2]}
    BY DEF A!Pairs
  <2> HIDE DEF all, active
  <2>2. ASSUME NEW c \in all PROVE \E a, b \in active : a < b /\ c = Of(a, b) /\ c.edges # {}
    BY <1>2, <2>1
  <2>3. ASSUME NEW a \in active, NEW b \in active, a < b, Of(a, b).edges # {} PROVE Of(a, b) \in all
    <3>1. <<a, b>> \in A!Pairs(active)
      BY <2>1, <2>3
    <3>2. A!Conflict(items[<<a, b>>[1]], items[<<a, b>>[2]]) = Of(a, b)
      OBVIOUS
    <3> QED  BY <1>2, <2>3, <3>1, <3>2
  <2> QED  BY <2>2, <2>3
<1> HIDE DEF all
<1>4. \A a, b : /\ Of(a, b).left = items[a].id /\ Of(a, b).right = items[b].id
                /\ Of(a, b).edges = A!SharedEdges(items[a], items[b])
  BY DEF A!Conflict
<1>5. \A i, j \in listed : i.id = j.id => i = j
  BY AnswersAssumption DEF A!ResolverAssumption
<1>6. \A a, b \in active : BothOn(items[a], items[b], at) = Of(a, b).edges
  BY <1>1, <1>4, BothOnIs
<1>7. \A i, j : A!SharedEdges(i, j) = A!SharedEdges(j, i) /\ BothOn(i, j, at) = BothOn(j, i, at)
  BY DEF A!SharedEdges, BothOn
<1> HIDE DEF Of
<1>8. ASSUME NEW a \in active, NEW b \in active, a < b, Of(a, b).edges # {}
      PROVE  /\ Of(a, b) \in all
             /\ \A d \in all : {d.left, d.right} = {items[a].id, items[b].id} <=> d = Of(a, b)
  <2>1. Of(a, b) \in all /\ items[a] \in listed /\ items[b] \in listed
    BY <1>1, <1>3, <1>8
  <2>2. ASSUME NEW d \in all, {d.left, d.right} = {items[a].id, items[b].id} PROVE d = Of(a, b)
    <3>1. PICK f, g \in active : f < g /\ d = Of(f, g)
      BY <1>3
    <3>2. /\ items[f] \in listed /\ items[g] \in listed
          /\ {items[f].id, items[g].id} = {items[a].id, items[b].id}
      <4>1. items[f] \in listed /\ items[g] \in listed
        BY <1>1
      <4>2. d.left = items[f].id /\ d.right = items[g].id
        BY <1>4, <3>1
      <4> QED  BY <2>2, <4>1, <4>2
    <3>3. \/ (items[f] = items[a] /\ items[g] = items[b])
          \/ (items[f] = items[b] /\ items[g] = items[a])
      BY <1>5, <2>1, <3>2
    <3>4. (f = a /\ g = b) \/ (f = b /\ g = a)
      BY <1>1, <3>3
    <3> QED  BY <1>1, <1>8, <3>1, <3>4
  <2>3. {Of(a, b).left, Of(a, b).right} = {items[a].id, items[b].id}
    BY <1>4
  <2> QED  BY <2>1, <2>2, <2>3
<1>9. ASSUME NEW i \in listed, NEW j \in listed, i # j, BothOn(i, j, at) # {}
      PROVE  \E c \in all : /\ c.edges = BothOn(i, j, at)
                            /\ \A d \in all : {d.left, d.right} = {i.id, j.id} <=> d = c
  <2>1. PICK a \in 1 .. n, b \in 1 .. n : items[a] = i /\ items[b] = j
    BY <1>1
  <2>2. a \in active /\ b \in active /\ a # b
    BY <1>9, <2>1, BothOnIs
  <2>3. CASE a < b
    <3>1. Of(a, b).edges = BothOn(i, j, at)
      BY <1>6, <2>1, <2>2
    <3>2. /\ Of(a, b) \in all
          /\ \A d \in all : {d.left, d.right} = {i.id, j.id} <=> d = Of(a, b)
      BY <1>8, <1>9, <2>1, <2>2, <2>3, <3>1
    <3> QED  BY <3>1, <3>2
  <2>4. CASE b < a
    <3>1. Of(b, a).edges = BothOn(i, j, at)
      BY <1>6, <1>7, <2>1, <2>2
    <3>2. /\ Of(b, a) \in all
          /\ \A d \in all : {d.left, d.right} = {j.id, i.id} <=> d = Of(b, a)
      BY <1>8, <1>9, <2>1, <2>2, <2>4, <3>1
    <3>3. {i.id, j.id} = {j.id, i.id}
      OBVIOUS
    <3> QED  BY <3>1, <3>2, <3>3
  <2>5. a < b \/ b < a
    BY <1>1, <2>2
  <2> QED  BY <2>3, <2>4, <2>5
<1>10. ASSUME NEW c \in all
       PROVE  \E i, j \in listed : /\ i # j /\ {c.left, c.right} = {i.id, j.id}
                                   /\ BothOn(i, j, at) # {}
  <2>1. PICK a, b \in active : a < b /\ c = Of(a, b) /\ c.edges # {}
    BY <1>3
  <2>2. items[a] \in listed /\ items[b] \in listed /\ items[a] # items[b]
    BY <1>1, <2>1
  <2> QED  BY <1>4, <1>6, <2>1, <2>2
<1> QED  BY <1>9, <1>10 DEF IsWhole, all

LEMMA WholeMeansWhole ==
    ASSUME report.at # A!Always => IsWhole(report.conflicts, report.at)
    PROVE  A!ReportIsWhole
<1> DEFINE Shared(i, j) ==
               {e \in EdgeIds : {i, j} \subseteq
                    A!Affecting([incidents |-> listed], [id |-> e], report.at)}
           Between(i, j) == {c \in report.conflicts : {c.left, c.right} = {i.id, j.id}}
<1> SUFFICES ASSUME report.at # A!Always
             PROVE  /\ \A i, j \in listed : (i # j /\ Shared(i, j) # {}) =>
                           /\ Cardinality(Between(i, j)) = 1
                           /\ \A c \in Between(i, j) : c.edges = Shared(i, j)
                    /\ \A c \in report.conflicts :
                           \E i, j \in listed : /\ i # j
                                                /\ c \in Between(i, j)
                                                /\ Shared(i, j) # {}
  BY ResolverNames, Zenon DEF A!ReportIsWhole, A!Cardinality, Cardinality
<1>1. \A i, j : Shared(i, j) = BothOn(i, j, report.at)
  BY Zenon DEF BothOn, Rivals
<1> HIDE DEF Shared
<1>2. IsWhole(report.conflicts, report.at)
  OBVIOUS
<1>3. ASSUME NEW i \in listed, NEW j \in listed, i # j, Shared(i, j) # {}
      PROVE  /\ Cardinality(Between(i, j)) = 1
             /\ \A c \in Between(i, j) : c.edges = Shared(i, j)
  <2>1. PICK c \in report.conflicts :
           /\ c.edges = Shared(i, j)
           /\ \A d \in report.conflicts : {d.left, d.right} = {i.id, j.id} <=> d = c
    BY <1>1, <1>2, <1>3 DEF IsWhole
  <2>2. Between(i, j) = {c}
    BY <2>1
  <2> HIDE DEF Between
  <2> QED  BY <2>1, <2>2, FS_Singleton
<1>4. \A c \in report.conflicts :
         \E i, j \in listed : i # j /\ c \in Between(i, j) /\ Shared(i, j) # {}
  BY <1>1, <1>2 DEF IsWhole
<1> QED  BY <1>3, <1>4

DominantInv ==
    dominant.at # A!Always =>
        LET others == A!ActiveFor(dominant.listed, dominant.edge, dominant.at) IN
        /\ dominant.found = {} <=> Rivals(dominant.edge, dominant.at) = {}
        /\ dominant.found \subseteq Rivals(dominant.edge, dominant.at)
        /\ \A d \in dominant.found :
              /\ \A i \in Rivals(dominant.edge, dominant.at) :
                    /\ i.priority <= d.priority
                    /\ i.priority = d.priority => d.created <= i.created
              /\ DOMAIN others # {} /\ A!FirstOf(others).priority = d.priority

AnswersInv ==
    /\ IsFiniteSet(listed) /\ A!TypeOK /\ DominantInv
    /\ report.at # A!Always => IsWhole(report.conflicts, report.at)

LEMMA AnswersInit == A!Init => AnswersInv
  BY FS_EmptySet DEF A!Init, A!NoAnswer, A!NoReport, A!NoDominant, AnswersInv, A!TypeOK, DominantInv

(* Answers are about the incidents as they are: a new one voids them.      *)
LEMMA CreationForgets ==
    ASSUME AnswersInv, NEW i \in Candidates, A!CreateIncident(i)
    PROVE  AnswersInv'
<1>1. /\ listed' = listed \union {i} /\ sorted' = <<>>
      /\ report' = [at |-> A!Always, conflicts |-> {}]
      /\ dominant' = [edge |-> "none", at |-> A!Always, found |-> {}, listed |-> <<>>]
  BY DEF A!CreateIncident, A!NoAnswer, A!NoReport, A!NoDominant
<1>2. IsFiniteSet(listed')
  BY <1>1, FS_AddElement DEF AnswersInv
<1> QED  BY <1>1, <1>2 DEF AnswersInv, A!TypeOK, DominantInv, A!NoAnswer

LEMMA SortingKeeps ==
    ASSUME AnswersInv, A!ListIncidentsSorted
    PROVE  AnswersInv'
<1>1. PICK items \in A!Listings : sorted' = A!SortByPriority(items)
  BY DEF A!ListIncidentsSorted
<1>2. UNCHANGED <<listed, report, dominant>> /\ listed \subseteq Candidates /\ IsFiniteSet(listed)
  BY DEF A!ListIncidentsSorted, AnswersInv, A!TypeOK
<1> DEFINE n == Cardinality(listed)
<1>3. /\ n \in Nat /\ DOMAIN sorted' = 1 .. n
      /\ \A k \in 1 .. n : sorted'[k] \in listed
      /\ \A i \in listed : \E k \in 1 .. n : sorted'[k] = i
      /\ \A j, k \in 1 .. n : j < k => ~ A!Before(sorted'[k], sorted'[j])
  BY <1>1, <1>2, SortedIsListed
<1> HIDE DEF n
<1>4. {sorted'[k] : k \in DOMAIN sorted'} = listed
  BY <1>3
<1>5. \A j, k \in DOMAIN sorted' :
         j < k => \/ sorted'[j].priority > sorted'[k].priority
                  \/ /\ sorted'[j].priority = sorted'[k].priority
                     /\ sorted'[j].created <= sorted'[k].created
  <2>1. \A i \in listed : i.priority \in Int /\ i.created \in Nat
    BY <1>2, AnswersAssumption DEF A!ResolverAssumption
  <2> QED  BY <1>3, <2>1 DEF A!Before
<1>6. A!TypeOK'
  BY <1>2, <1>4, <1>5 DEF AnswersInv, A!TypeOK
<1>7. /\ DominantInv => DominantInv'
      /\ \A conflicts, at : IsWhole(conflicts, at)' = IsWhole(conflicts, at)
  BY <1>2 DEF DominantInv, IsWhole, Rivals, BothOn
<1> QED  BY <1>2, <1>6, <1>7 DEF AnswersInv

LEMMA ReportingKeeps ==
    ASSUME AnswersInv, NEW at \in Times, A!IncidentConflicts(at)
    PROVE  AnswersInv'
<1>1. PICK items \in A!Listings : report' = [at |-> at, conflicts |-> A!Conflicts(items, at)]
  BY DEF A!IncidentConflicts
<1>2. UNCHANGED <<listed, sorted, dominant>> /\ listed \subseteq Candidates /\ IsFiniteSet(listed)
  BY DEF A!IncidentConflicts, AnswersInv, A!TypeOK
<1>3. IsWhole(A!Conflicts(items, at), at)
  BY <1>2, ConflictsAreWhole
<1>4. /\ DominantInv => DominantInv'
      /\ \A conflicts, t : IsWhole(conflicts, t)' = IsWhole(conflicts, t)
  BY <1>2 DEF DominantInv, IsWhole, Rivals, BothOn
<1>5. A!TypeOK'
  BY <1>1, <1>2 DEF AnswersInv, A!TypeOK
<1> QED  BY <1>1, <1>2, <1>3, <1>4, <1>5 DEF AnswersInv

LEMMA DominanceKeeps ==
    ASSUME AnswersInv, NEW edge \in EdgeIds, NEW at \in Times, A!AskDominant(edge, at)
    PROVE  AnswersInv'
<1>1. PICK items \in A!Listings :
         dominant' = [edge |-> edge, at |-> at,
                      found |-> A!Dominant(items, edge, at), listed |-> items]
  BY DEF A!AskDominant
<1>2. UNCHANGED <<listed, sorted, report>> /\ listed \subseteq Candidates /\ IsFiniteSet(listed)
  BY DEF A!AskDominant, AnswersInv, A!TypeOK
<1>3. /\ \A e, t : Rivals(e, t)' = Rivals(e, t)
      /\ \A conflicts, t : IsWhole(conflicts, t)' = IsWhole(conflicts, t)
  BY <1>2 DEF IsWhole, Rivals, BothOn
<1>4. DominantInv'
  BY <1>1, <1>2, <1>3, DominantIs DEF DominantInv
<1>5. A!TypeOK'
  <2>1. dominant'.found \subseteq listed
    BY <1>1, <1>2, DominantIs, RivalsAre
  <2> QED  BY <1>1, <1>2, <2>1 DEF AnswersInv, A!TypeOK
<1> QED  BY <1>2, <1>3, <1>4, <1>5 DEF AnswersInv

(* What is answered about the incidents of a dataset is right, for any     *)
(* incidents and any order in which the store lists those of one priority. *)
THEOREM AnswersInvariant == ServiceSpec => []AnswersInv
<1>1. ServiceInit => AnswersInv
  BY AnswersInit DEF ServiceInit
<1>2. AnswersInv /\ [Change \/ Ask]_<<part, vars, A!vars>> => AnswersInv'
  <2> SUFFICES ASSUME AnswersInv, [Change \/ Ask]_<<part, vars, A!vars>> PROVE AnswersInv'
    OBVIOUS
  <2>1. CASE UNCHANGED <<listed, sorted, report, dominant>>
    <3>1. /\ DominantInv => DominantInv'
          /\ \A conflicts, t : IsWhole(conflicts, t)' = IsWhole(conflicts, t)
      BY <2>1 DEF DominantInv, IsWhole, Rivals, BothOn
    <3>2. A!TypeOK'
      BY <2>1 DEF AnswersInv, A!TypeOK
    <3> QED  BY <2>1, <3>1, <3>2 DEF AnswersInv
  <2>2. CASE A!Next
    BY <2>2, CreationForgets, SortingKeeps, ReportingKeeps, DominanceKeeps DEF A!Next
  <2>3. A!Next \/ UNCHANGED <<listed, sorted, report, dominant>>
    BY DEF Change, Ask, A!vars
  <2> QED  BY <2>1, <2>2, <2>3
<1> QED  BY <1>1, <1>2, PTL DEF ServiceSpec

(* The conflict report has every two incidents that meet on an edge, once, *)
(* with all the edges they share, and nothing else.                        *)
THEOREM ReportsAreWhole == ServiceSpec => []ReportIsWhole
<1>1. AnswersInv => ReportIsWhole
  BY WholeMeansWhole DEF AnswersInv, ReportIsWhole
<1> QED  BY <1>1, AnswersInvariant, PTL

(* The dominant incident is the first by priority and age of those that    *)
(* route search applies, and the sorted listing is in that order.          *)
THEOREM DominantIsAlwaysFirst == ServiceSpec => []DominantIsFirst
<1>1. AnswersInv => DominantIsFirst
  BY DEF AnswersInv, DominantIsFirst, DominantInv, Rivals, A!DominantIsFirst
<1> QED  BY <1>1, AnswersInvariant, PTL

(* What is proved of the requests alone and of the answers alone holds of  *)
(* them together.                                                          *)
THEOREM PartsKeepTheirSpecs == ServiceSpec => Spec /\ A!Spec
<1>1. ServiceInit => Init /\ A!Init
  BY DEF ServiceInit
<1>2. [Change \/ Ask]_<<part, vars, A!vars>> => [Next]_vars /\ [A!Next]_A!vars
  BY DEF Change, Ask, A!vars
<1> QED  BY <1>1, <1>2, PTL DEF ServiceSpec, Spec, A!Spec

===============================================================================
