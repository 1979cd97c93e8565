# A verification project for the route analysis service

TLA+ models of the Go service in `src/`: how its jobs, incidents, graphs, routes, caches,
pools and quotas behave when requests, workers, timers and shutdowns interleave; TLC runs
that check them on small instances; and TLAPS proofs, for every instance, of each invariant
and action property the passing runs check and of two refinements. Line numbers are those of
the sources under `src/internal/` unless a path says otherwise.

There are no tests in the repository. What the system promises is said by its `README.md`,
by doc comments, and by what each part's callers rely on.

## 1. Inventory

One process serves HTTP. `net/http` runs each request on a goroutine of its own;
`application.Service` joins the parts below; `memory.Store` keeps everything in maps under
one read-write lock, so every method of the store is atomic and a request that calls
several of them is not. One worker goroutine runs analysis jobs. Nothing survives the
process.

| Component | State | Operations | Interacts with | What is hard | What makes it correct |
| --- | --- | --- | --- | --- | --- |
| Analysis jobs (`application/service.go`, `cmd/route-service/main.go`) | stored jobs, channel of 64 ids, the worker's copy of its job, the phase of shutdown | `CreateJob`, `worker`, `runJob`, `analyze`, `Close`, the drain in `main` | store, routing, signals | store and channel are two steps; a full channel; stop and job both ready; drain timeout with handlers running; the 30 s deadline | an accepted job is never lost, runs once, ends with a whole outcome that never changes; a shutdown ends and leaves no job half done |
| Incident store and lifecycle (`memory/store.go`, `domain/incident/state.go`, `lifecycle.go`) | incidents with status and version | create, activate with `If-Match`, sweep of the expired | store, HTTP preconditions | list, then update; a conflict in mid sweep; versions shown to clients | a write replaces what its author saw; a sweep reports what it stored; only legal transitions |
| Incident priorities and conflicts (`domain/incident/resolver.go`, `eligibility.go`) | none | sort, `Conflicts`, `Dominant`, `ActiveFor`, `EffectiveSpeedFactor` | the store's listing | listings come in map order, ties | the answers agree with what route search applies, whatever the order |
| Dataset catalogue and graph store (`memory/store.go`) | datasets, graphs with versions | `CreateDataset`, `PutGraph`, `Graph` | jobs, routes, validation | an import that fails half way, ids twice, edges to nowhere, readers meanwhile | a graph is one import, whole or not at all; its version counts imports |
| Graph validation and its batch (`domain/analytics/validation.go`, `application/batch_service.go`) | the reports of one request | `ValidateGraph`, `ValidateDataset`, `ValidateDatasetsBatch` | graph store, dispatcher | checks written twice; imports and a cancellation between two reports | what an import refuses is what a report would list; an answer with success is whole |
| Edge cost (`domain/model/types.go`, `domain/network/cost.go`, `domain/incident/eligibility.go`) | none | `Contains`, `Supports`, `Applies`, `EffectiveCost`, `CostCalculator`, `EligibilitySnapshot` | all searches | inclusive ends, zero times, first rule decides; the same cost is written several times | every way to compute it gives one cost |
| Route search, isochrones, alternatives (`domain/routing/engine.go`) | heap, best costs, labels | `Route`, `Reachable`, `KRoutes` | snapshots | time-dependent cost, heuristics that overestimate, stale heap entries | labels are real paths, routes are fastest where that can be promised, searches end |
| Connectivity (`domain/network/connectivity.go`) | labels, queue | `ComputeConnectivity` | topology | edges followed both ways | labels are the weak components |
| Node clusters (`domain/geocode/cluster.go`) | clusters so far | `ClusterNodes` | geometry | greedy, order of ids | every node in one cluster, seeds apart |
| Route cache (`application/route_service.go`, `cache/lru.go`) | map and list of the LRU | `CachedRoute`, `Get`, `Put` | store, routing | the miss, two reads and the put interleave with others and with changes of the data | the most recent keys are held; only computed answers are; a request gets its own answer |
| TTL cache (`cache/ttl.go`) | entries with expiry | `Get`, `Put`, `Prune` | none yet | `Get` judges after unlocking | a hit is live and has not been dropped |
| Worker pool (`worker/pool.go`) | channel of tasks, closed flag | `Submit`, `worker`, `Close` | none yet | send against close | `Close` waits for accepted tasks, `Submit` returns an error after it |
| Batch dispatcher (`worker/dispatcher.go`) | unbuffered channel, counters, first error | `Run` | contexts, batch validation | cancellation anywhere | every input is run at most once and accounted for; `Run` returns |
| Job queue and scheduler (`domain/job/queue.go`, `scheduler.go`) | ordered envelopes, ids seen, slots | `Push`, `Pop`, `Run` | none yet | cancellation with an envelope in hand, slots | order, no duplicates, bounded jobs, nothing but that envelope is lost |
| Job checkpoints and aggregation (`domain/job/checkpoint.go`, `result.go`) | progress of a matrix | `Advance`, `Persist`, `Restore`, `Cursor`, `AggregateMatrix` | none yet | stop and resume at any point, types changed by JSON | no pair is left out, the count stays within the matrix |
| Tenant quota (`domain/quota`) | policies, budgets, limiters | `Register`, `Authorize`, `Consume`, `Allow` | clock | times read before locks, registrations that overlap on unlocked maps, replaced policies | no limiter lets more than its limit through in a window, no budget more than twice its limit |
| Traffic and demand analytics (`domain/analytics`) | observations, events | `TrafficIndex`, `WindowCounter`; statistics | none yet | bounded lists, reports that come late, prune against record | the estimate is of the newest report, counts are exact |
| Geometry, path ranking, reports, exports | none | distances, sorting, formatting | store | floats | not stated here |
| HTTP transport, configuration, web page | none | parsing, wiring | all | none of its own | its checks are part of the operations it calls |

The hazards these bring are listed line by line in `PROJECT.json`, each with the
properties that would catch it or the reason that none does.

## 2. Modules

| Module | Models | Shape |
| --- | --- | --- |
| `JobLifecycle` | what the service promises about jobs, without queue, worker or handlers | abstract specification |
| `AnalysisJobs` | jobs from submission to result, and the shutdown of the process | one action per step between two store or channel operations |
| `IncidentStore` | creation, activation and sweep on a shared store | list and update are separate actions |
| `IncidentResolver` | the questions asked of one listing | pure operators and an action per question |
| `IncidentService` | the two of them | either the store changes or a question is asked |
| `GraphStore` | `CreateDataset`, `PutGraph` with its checks, and `ValidateGraph`'s | one action per call; the checks are operators |
| `Dispatcher` | `Run`: scheduler, workers, context | one action per channel, lock or counter operation; what a call does is left to its user |
| `BatchValidation` | `ValidateDatasetsBatch` | composes `GraphStore` and `Dispatcher` |
| `RoadNetwork` | a snapshot, edge eligibility and cost, and the reference: all arrivals without waiting | pure operators |
| `EdgeCosts` | the loops of `EffectiveCost`, `CostCalculator`, `EdgeEligibility` and `EligibilitySnapshot` | pure operators |
| `RouteSearch`, `Isochrone` | `Route`, `Reachable` | one action per heap operation or relaxed edge |
| `AlternativeRoutes` | `KRoutes` | one action per removed leg and per route kept |
| `Connectivity` | `ComputeConnectivity` | one action per turn of each loop |
| `Clusters` | `ClusterNodes` | one action per seed |
| `NetworkQueries` | the searches, components, clusters and costs of one network | `query` is chosen at the start; its module takes all the steps |
| `RouteCache` | `CachedRoute`, the LRU, and data that changes meanwhile | one action per lock |
| `TTLCache` | `Put`, `Get`, `Prune` and the clock | `Get` is two actions, `Prune` one per entry |
| `TaskPool` | what a pool promises about its tasks, without channels | abstract specification |
| `WorkerPool` | `Submit`, the workers' loop, `Close`; implements `TaskPool` | one action per channel operation |
| `JobScheduler`, `TenantQuota` | the files of those names | one action per channel, lock or map operation |
| `Checkpoint` | the checkpoint of a matrix and a caller that stops and resumes | one action per call |
| `TrafficAnalytics` | `TrafficIndex`, `WindowCounter` | one action per call: each is under one lock |
| `MCAnalysisJobs`, `MCDatasets` | instances of `AnalysisJobs` and `BatchValidation` | |
| `MCIncidents` | an instance of `IncidentService` | |
| `MCNetworks`, `MCNetworkQueries` | networks; what is asked of them, an instance of `NetworkQueries` | |
| `MCWorkers` | `WorkerPool`, `JobScheduler`, `Checkpoint` | `part`; they share nothing |
| `MCTables` | `RouteCache`, `TTLCache`, `TenantQuota`, `TrafficAnalytics` | `part`; they share nothing |
| `AnalysisJobsProofs` | theorems about `AnalysisJobs` | TLAPS |
| `IncidentProofs` | theorems about `IncidentStore`, `IncidentResolver` and `IncidentService` | TLAPS |
| `BatchValidationProofs` | theorems about `BatchValidation`, `GraphStore` and `Dispatcher` | TLAPS |
| `WorkerProofs` | theorems about `WorkerPool`, `JobScheduler` and `Checkpoint` | TLAPS |
| `TableProofs` | theorems about `RouteCache`, `TTLCache`, `TrafficAnalytics` and `TenantQuota` | TLAPS |
| `NetworkQueriesProofs` | theorems about `NetworkQueries` and the modules it composes | TLAPS |
| `RoadNetworkProofs` | lemmas about `RoadNetwork` and `EdgeCosts`; induction and recursion | TLAPS |
| `CollectionLemmas` | what the other proofs share about sequences and finite sets | TLAPS |

Modules that are used together give their parts names of their own (`StoreInit`,
`DispatcherNext`, `RoutingNext`). Components that share no state are checked in one run but
never side by side in one behaviour: their interleavings would say nothing.

How state corresponds to code is said beside each `VARIABLES` declaration; `map` in
`PROJECT.json` gives the lines of every definition. Names are the source's where it has
any. Operators named `Fault...` are not part of the models: each is the definition after
it with a plausible bug in it, and each property is known to be violated when one of them
takes that definition's place. Definitions called history record what happened and are
read by properties only.

**AnalysisJobs** in more detail, as the core of the service.

| Action | Code | |
| --- | --- | --- |
| `CreateJob`, `RejectJob` | `service.go:119-123`, `store.go:171-185` | the job is stored, or refused: unknown type, no dataset, an id that is taken |
| `Enqueue`, `QueueFull` | `service.go:124-129` | the select with a default; the second leaves the job stored |
| `Receive`, `StopWorker` | `service.go:137-147` | the worker's select; with both ready either may be taken |
| `Load`, `Announce`, `SnapshotTaken`, `SnapshotFails`, `RecordProgress`, `Publish`, `Finish` | `service.go:148-179` | `runJob`, one step per call of the store; each writes the worker's copy |
| `RefuseParameters`, `AnalyzeAtOnce`, `AnalyzePair`, `MatrixExpires`, `MatrixDone` | `service.go:180-222` | `analyze`; only the matrix loop looks at the context |
| `Deadline` | `service.go:149` | the context expires at any moment while a job runs |
| `Signal`, `ServerFailed`, `Drained`, `DrainTimeout`, `Exit` | `main.go:30-48` | the drain may end with handlers at work, which go on until the process ends |

`JobLifecycle` has five events of a job and three of the process. `AnalysisJobs`
implements it: a job's status is the stored one, a promise is a submission answered with
success, and `Lifecycle == INSTANCE JobLifecycle WITH ...` gives the mapping.

**BatchValidation** shows how modules compose. `Dispatcher` has the loop of `Run` and an
action `Call` that ends one call with or without an error. `BatchValidation` makes a call
two steps, `Validate` (which reads the graph store under its lock) and `StoreReport`
(which writes the map of results under the batch's mutex and then lets `Call` happen), and
lets `StoreNext`, other clients' creations and imports, happen between any two of them.

`TaskPool` has a state per task and one of the pool; `WorkerPool` maps onto it by forgetting
where a task is: a submitter in its select is still new, one in the channel is accepted, and
the pool is closing until `Close` has returned.

Two tables of the code are sets in the models where it keeps slices, since nothing depends
on the order of their elements. The rate limiter's timestamps (`rate_limit.go:34`) are the
grants they stand for, each with its time and a number that tells grants of one time apart;
the events of a `WindowCounter` (`heatmap.go:119`) are the places they were recorded at.
What `Allow`, `Count` and `Prune` do to the slices is to filter them and to take their
length. The LRU's list is a sequence, and its map of keys to elements is the place of a key
in it.

## 3. Runs

| Run | Instance | What it shows |
| --- | --- | --- |
| `AnalysisJobs` | 2 handlers, 2 ids, channel of 1, matrix jobs of 2 pairs and centrality jobs, well formed or not, 2 datasets | accepted jobs are exactly those in the channel or in the worker's hand until they run; no rerun; `running` is the worker's job; outcomes are whole and final; the abstract lifecycle is implemented; accepted jobs finish; a shutdown completes |
| `Incidents` | 2 handlers, 2 incidents, 3 versions; listings of up to 3 of 7 incidents in every order of equal priorities | versions tell states apart; activation replaces what the client saw; sweeps report what they stored unless they fail; conflicts and dominance agree with route search |
| `Datasets` | 2 datasets, 13 lists of nodes and edges with one or two faults, of which 11 are bodies that JSON can carry, 2 imports accepted; a batch of 3 ids, one of them twice, on 2 workers, cancelled at any moment | graphs are exactly what was imported; an import is refused if and only if a report would have issues, lengths that are not finite apart; `Run` accounts for every input; an answer with status 200 has whole reports; `Run` returns |
| `NetworkQueries` | networks of 4 or 5 nodes, costs 1 and 3, 8 sets of incidents, restrictions, 3 heuristics, 6 budgets, k up to 11; all graphs of 4 nodes; all placings of 4 nodes; up to 3 incidents on an edge | each computation agrees with its reference and ends; the five ways to compute a cost agree |
| `Workers` | pool: 5 tasks, 2 workers, channel of 2; scheduler: 3 jobs, 4 pushes, limit 2, 2 slots; checkpoint: 4 pairs, 2 restarts | a task is in one place; the pool implements `TaskPool`, so `Close` returns after every accepted task and no task runs twice; queue order, no duplicates, slots, one envelope lost at most; a resumed matrix leaves nothing out; nobody waits for ever |
| `Tables` | route cache: 2 handlers, 3 trips with and without tolls, capacity 2, 2 versions of graph and incidents; TTL cache: 2 names, 3 values, 3 instants; quota: 2 callers, 2 registrations that may overlap (a budget that binds and a rate that does not, an exemption with a rate that does), window 2, 4 instants; analytics: 4 records of 3 times, 2 observations kept | the LRU order is the order of use; entries were computed for their key; hits are live; no limiter or budget lets through more than it may in a window or in two periods, late requests apart; the newest report is used; counts are exact |
| `JobQueueFull`, `JobDeadline`, `IncidentTransitions`, `ConflictWindows`, `PoolSubmit`, `RouteCacheKey` | as above or smaller | the disagreements of section 5 |

**Bounds, and why they are enough.** The models have no arithmetic on the sizes of their
sets, and each hazard needs few actors. One channel slot makes it full with one job, and two
ids make them collide and queue behind each other; two handlers race each other while the
worker and main race both; two pairs in a matrix have a deadline before, between and after
them. Two writers on one version conflict; a third version tells a repeated state from an
old one. The lists have every fault `PutGraph` and `ValidateGraph` look for, alone, and some
that meet two checks at once; two accepted imports give a version to be mistaken. Three
inputs on two workers leave one to be handed out, or not, after a cancellation; one id twice
writes one result twice. Five tasks fill two workers and two places of the pool's channel
and leave one submitter waiting; a queue of two is full while both slots are taken. Four
pairs and two restarts resume a resumed matrix. Two cache places and three trips make every
order of eviction. Two times a window is where periods straddle it, and two registrations
are a limiter or budget in use and the one that replaces it. Three values under two names
leave one to be pruned while another is copied. Four records make a list of two drop twice.
`MaxVersion`, `MaxImports`, `MaxPushes`, `MaxPuts`, `MaxRestarts`, `MaxRecords`,
`LastInstant` and `MaxTime` are the counters' only bounds; actions that would exceed them
are disabled, and no property is about reaching them. For the searches, four nodes are the
smallest network with two disjoint routes and a bridge between them, which is what a label
that is dropped too early needs; the fifth lies behind the target.

**Conditions.** `RouteIsRight` and `IsochroneIsRight` claim the best answer only where
nobody overtakes (`NoOvertaking`: entering an edge later never makes one leave it earlier)
and, for routes, where the heuristic never overestimates; without them `LabelsAreReal` and
the first half of `IsochroneIsRight` claim what still holds, that the answer can be driven
in the time given. Both kinds of network are in the run. `AlternativesAreRight` is stated
where nobody overtakes, and says that alternatives come in the order of their times but for
ties: the candidate found late can only be cheaper than a result whose time an earlier
result has too. Without "but for ties" it is false, as the scenario `Ties` of
`MCNetworkQueries` shows; nothing in the code or its documents promises more. `CostsAgree` is
stated where the factors divide the duration of the edge (`CostsAssumption`), since seconds
are whole numbers here and floats in the code. `RefusedForAReason` compares the checks of
`PutGraph` with those of `ValidateGraph` on every list, lengths that are not finite apart, and
says that on what JSON can carry they agree. `WindowWithinLimit` and `TwoPeriodsAtMost` are
about each limiter and each budget, and count every request but the late ones, those that come
to its lock after a request of a later time. `LatestIsNewest` is about observations
that arrive in the order of their times, `CountsAreExact` about windows that do not begin
before what was pruned. `ActivationReplacesWhatWasSeen` is run with clients that leave
`version` out of a new incident or write 1. Section 5 says what happens otherwise.

**Fairness.** `AnalysisJobs`: weak fairness of the worker, of main's wait for the drain
(handlers finish or the 15 s timer of `Shutdown` fires) and of its exit. Handlers, clients,
signals and the deadline have none: a shutdown completes although handlers hang. The
`JobQueueFull` run makes handlers fair as well, so that its counterexample is not one that
merely stops. `BatchValidation`: weak fairness of the scheduling goroutine and of each
worker, whose calls read a map and return. `MCWorkers`: weak fairness of each goroutine that
has begun a `Submit`, of each worker of the pool, of `Close` once it has begun, of `Run` and
of the goroutines it starts, which includes that the functions they were given return.
Nobody has to begin a `Submit`, push, close, import or cancel. The searches run on the
goroutine that asked. Where a select has two ready cases Go chooses at random; only one
property relies on that, and strong fairness says it: `Run`, which looks into an empty queue
every 20 ms, does at one of these selects find that its context is done
(`scheduler.go:41-47`).

`CHECK_DEADLOCK FALSE` is in every configuration because every instance may stop: the
process exits, a query ends, a bound is reached, a pool nobody uses stands still.
Symmetry is used in `MCIncidents` and `MCTables` only, for sets no behaviour tells apart,
and never together with liveness.

## 4. Proofs

TLC's runs are instances; the theorems below hold for every value of the constants that the
named assumptions allow, without the runs' symmetry. The bounds `MaxVersion`, `MaxImports`,
`MaxPushes`, `MaxRestarts`, `MaxTime` and the like stay in the guards, but may be any number.
Each theorem's property is one a run checks, under the same name, except in
`PartsKeepTheirSpecs`.

| Theorem | Statement | Module |
| --- | --- | --- |
| `TypeCorrect` | `Spec => []TypeOK` | `AnalysisJobsProofs` |
| `NoAcceptedJobIsLost` | `Spec => []AcceptedJobsAreHeld` | |
| `JobsRunAtMostOnce` | `Spec => []NoJobRunsTwice` | |
| `RunningIsOwned` | `Spec => []RunningIsTheWorkers` | |
| `OutcomesStayWhole` | `Spec => []OutcomesAreWhole` | |
| `FinishedJobsStay` | `Spec => TerminalIsFinal` | |
| `ImplementsLifecycle` | `Spec => LifecycleSpec` | |
| `NoTaskIsLostOrRunTwice` | `PoolSpec => []TasksAreInOnePlace` | `WorkerProofs` |
| `KeepsThePromise` | `PoolSpec => TaskPoolSpec` | |
| `SweepsReportWhatTheyStored` | `Spec => SweepReportsWhatItStored` | `IncidentProofs` |
| `VersionsDoTell` | `HonestClaims => (Spec => []VersionTellsStatesApart)` | |
| `ActivationsReplaceWhatWasSeen` | `HonestClaims => (Spec => ActivationReplacesWhatWasSeen)` | |
| `ReportsAreWhole` | `ServiceSpec => []ReportIsWhole` | |
| `DominantIsAlwaysFirst` | `ServiceSpec => []DominantIsFirst` | |
| `PartsKeepTheirSpecs` | `ServiceSpec => Spec` | |
| `StoredGraphsAreImports` | `Spec => []GraphsAreImports` | `BatchValidationProofs` |
| `RefusalsAreIssues` | `Spec => []RefusedForAReason` | |
| `RunAccounts` | `Spec => []RunAccountsForInputs` | |
| `AnswersAreWhole` | `Spec => []BatchAnswersAreWhole` | |
| `SchedulerStaysSound` | `SchedulerSpec => []SchedulerIsSound` | `WorkerProofs` |
| `RunAccountsForEnvelopes` | `SchedulerSpec => []RunLosesAtMostOne` | |
| `NothingIsSkipped` | `CheckpointSpec => []ResumeSkipsNothing` | |
| `TheMostRecentAreHeld` | `RoutingSpec => []HoldsTheMostRecent` | `TableProofs` |
| `CachedIsComputed` | `RoutingSpec => []EntriesAreComputed` | |
| `AnswersAreLive` | `TTLSpec => HitIsLive` | |
| `EstimatesAreCurrent` | `TrafficSpec => []LatestIsNewest` | |
| `EventsAreCounted` | `TrafficSpec => []CountsAreExact` | |
| `WindowsAreLimited` | `QuotaSpec => []WindowWithinLimit` | `TableProofs` |
| `TwoPeriodsAreTheMost` | `QuotaSpec => []TwoPeriodsAtMost` | |
| `LabelsAreAlwaysReal` | `Spec => []LabelsAreReal` | `NetworkQueriesProofs` |
| `RouteIsAlwaysRight` | `Spec => []RouteIsRight` | |
| `IsochroneIsAlwaysRight` | `Spec => []IsochroneIsRight` | |
| `AlternativesAreAlwaysRight` | `Spec => []AlternativesAreRight` | |
| `ConnectivityIsRight` | `Spec => []LabelsAreComponents` | |
| `ClustersAreAlwaysRight` | `Spec => []ClustersAreRight` | |
| `CostsAlwaysAgree` | `Spec => []CostsAgree` | |

Each proof strengthens the property to an inductive invariant and has one case per action;
steps that touch none of an invariant's variables go through one lemma. What the
strengthening is, and why it is needed:

*Jobs.* `TypeOK` is not inductive: a handler that is about to enqueue must hold an id,
and so must a worker that is not waiting; `TypeInv` adds both. `AcceptedJobsAreHeld` says
that the accepted queued jobs are those in the channel or in the worker's hand. To see that
a step keeps it one must know that what a handler offers is stored as queued and has not
been accepted before (`HandlersOffer`), that two handlers never offer the same id
(`HandlersApart`), that accepted jobs are in the store, so that no new submission can draw
their ids (`AcceptedAreStored`), that the worker only ever holds accepted jobs
(`WorkerAccepted`), and that its copy of the job it runs agrees with the store
(`CopyAgrees`), so that writing the copy back moves the status the way the worker thinks.
Together with the three properties these make `IInv`. Whole outcomes need three more
(`OInv`): every stored job is whole for its status, not only the finished ones; so is the
worker's copy; and the local `err` of `runJob` agrees with the copy's result at every step
of it, which is what makes `Finish` write one of the two. `FinishedJobsStay` and
`ImplementsLifecycle` use `IInv` and a classification of steps by what they do to stored
jobs; for the refinement every step is shown to be one event of `JobLifecycle` or a stutter.

*Worker pool.* `TasksAreInOnePlace` is inductive as it stands. The refinement needs beside it
that a worker which has returned did so with the channel closed and empty
(`GoneLeaveNothing`), or `Close` might return before a task was done. That no more tasks run
than there are workers comes from an injection of the running tasks into the workers.

*Incidents.* A sweep's account is kept step by step: what it has stored and what is left of
its list are together what it will report. For `If-Match`, nothing may have been shown with
a version beyond the stored one (`ShownIsPast`), so that the version a write makes is new;
and an activation under way compares with a state that was shown (`SeenWasShown`). Both
theorems have a hypothesis on a constant, `HonestClaims == ClaimedVersions \subseteq {0, 1}`:
clients that create an incident leave `version` out or write 1. It is needed because the
reply to a creation repeats the version its body claims (`service.go:101`) while 1 is stored;
without it both properties are false, as section 5 says. `SweepsReportWhatTheyStored` has
none.

*Graphs and batches.* `Sound` says what `PutGraph` and `ValidateGraph` look for without the
order in which either looks; `OkIsSound` and `NoIssuesIsSound` show that each of them finds
a problem exactly when the import is not sound, lengths that are not finite apart, which
with `StoreInv` (a graph is its last accepted import, which was sound) gives
`RefusalsAreIssues`. For `Run`, an input is with one worker at most and has an outcome once
that worker has called (`InputsAreHeld`), one that was handed out and has neither was
dropped at the cancellation (`NothingLeftOut`), the counters agree with the outcomes that
have been recorded (`TallyAgrees`), and the calls begun after the cancellation are no more
than the workers past their test of it (`LateIsBounded`). The batch adds that a report not
yet stored, or stored, is empty or of an imported graph, and the empty one makes its call
fail.

*Scheduler and checkpoint.* The order of the queue is that of the sort with the number of
the push where it is a tie; inserting one envelope after all it is not before keeps it
(`PlaceOfNew`). Jobs are bounded because each slot taken is one goroutine at one of its four
places (`SlotsAreTaken`); nothing but one envelope is lost because pushes are the sum of what
is processed, queued, in `Run`'s hand, with a goroutine, or dropped (`EnvelopesAreCounted`).
The checkpoint needs that what is before its last pair, and before the persisted one, was
computed.

*Tables.* The LRU's list is as long as the history of keys or the capacity allows and has
the same keys in its places (`Agrees`), and the history names each key once. Entries are
computed for their keys because a handler that has missed holds a request and what it has
read was there (`HandlersHaveRead`). In the TTL cache an entry, held or copied, expires when
its value was put to, and what a `Prune` dropped has expired. The observations of a
`TrafficIndex` are a tail of what was reported. Events that are no longer kept were before
the horizon and are counted as removed.

*Quota.* A limiter still has every grant that a window not yet over may hold, the late ones
too (`LimiterInv`). What a budget has let through in the period that runs is counted as
used; in the stretch of a window before that period it was at most the limit, and none is of
a later time (`BudgetInv`). Any stretch as long as a window meets at most two such periods.
Requests of times before the first period, which `Register` begins at a time it has read
earlier, are counted in it. A registration that replaces a limiter or budget installs one
that has let nothing through (`NewIsUnused`), and the one it replaces keeps what it had.
That requests are counted at all is `Numbered`: the numbers tell the requests of one time
apart, so each one let through is a new element of the set the limits are stated about. The
whole `QuotaInv` was found with TLC before it was proved.

*Induction and recursion.* The library's induction theorems take an operator as a parameter,
which the installed provers cannot instantiate. `RoadNetworkProofs` states induction about
sets instead (`SetInduction`: a set with 0 that is closed under successor contains `Nat`;
`SubsetInduction`: the same for the subsets of a finite set), from the well-foundedness of
`<`, and recursion about functions (`PrimitiveRecursion`, `SetRecursion`: a function with
these equations exists). With them the recursive functions of `RoadNetwork` and the fold in
`Seconds` get the equations they are written with: `TimesAlongDef` (the times along a path),
`ArrivalsDef`, `ArrivalsLeast` and `ArrivalsClosed` (the set of arrivals is the least one
that is closed under driving on), `SecondsFold`.

*Searches.* `Route` and `Reachable` share the invariant of their loop, `LoopInv`: a node with
a cost is in the heap with that cost, or each of its open edges leads to a node that costs no
more than going there, or is still in the list the loop goes through. When the heap is empty
every arrival of the reference is at a node with a label that is no later (`LoopIsComplete`):
that the earlier arrival is as good rests on `NoOvertaking`, which `EarlierIsNoLater` extends
from one second to any wait. That an answer can be driven is `LabelsInv`: each label has a
path, the time along it is the label's, and it ends at the label's node. A target that is
popped under a safe heuristic is the earliest because any earlier arrival would have a prefix
that ends at a node in the heap with a smaller sum (`TargetIsEarliest`). `RouteIsRight` by
itself says nothing until the search ends, hence `RouteSearchInvariant`.

*Alternatives.* With each round the best route besides the first must still be to come: for
every leg of the first route that has been removed, the best detour around it is a result or
a candidate (`Answered`), and a path that differs from the first misses one of its legs. So
after all legs of the first route the cheapest candidate is the second best. A later
candidate may be cheaper than a result only if it ties with an earlier one (`Tied`), which is
what is left of the order. The inner search is the shortest path of the network without the
leg; that one exists comes from the finiteness of simple paths.

*Components and clusters.* A node that has a label and is in the queue no more has given the
label to its neighbours; nodes of one label cannot be told apart by any set that is closed
under edges; each label has a seed that is smaller than every node labelled later. When the
queue and the nodes are done, a label's nodes are the smallest closed set around its seed.
For clusters: what is in no cluster yet is farther from every seed than the radius.

*Answers about incidents.* The two loops of `Conflicts` visit each pair of places of the
listing once, and every incident has one place in it, so each pair in force that shares an
edge is reported once, whichever way round. Sorting is a permutation in order, by counting
for each incident the places before it; so the first in force on the edge outranks the rest,
and `ActiveFor`'s first has its priority. Answers are about the incidents they were asked of:
the actions that change these void them.

*Costs.* Going through the incidents in some order multiplies the numerators and the
denominators of their factors, or ends at a closure. A product over a finite set is that of
the set without an element times the element's factor, whichever element (`Products`), so the
loops (`ThroughIs`, `SpeedFactorIs`) and the fold of `RoadNetwork`, which divides after each
incident (`SlowedInAnyOrder`), all come to the duration over the numerators times the
denominators. The fold needs `CostsAssumption`: with divisions that leave a rest, whole
numbers would differ where the code's floats differ in their last digits only.

*Assumptions.* Capacities, limits, slots, windows and sizes are numbers, positive where the
code makes them so; `Workers` is finite and not empty; limits in policies are natural
numbers (`PolicyAssumption`); marks such as `NoJob`, `NoInput`, `NoTask` and `NoGraph` are
none of the values they are told apart from; the lists of an import are sequences
(`ListsAssumption`), and a request lists datasets (`RequestAssumption`). Incidents differ in
their ids, as the keys of a map do, and have whole priorities (`AnswersAssumption`).
Networks are finite, their edges join nodes they have, and durations and speed factors are
not negative (`WellFormed`): `PutGraph` (`store.go:91-96`) and the validation of edges and
incidents (`types.go:139`, `types.go:198`) refuse others. Departures are not the zero time,
which is refused (`types.go:236`, `engine.go:139`), and heuristics, radii and positions are
whole numbers, no heuristic negative. In the scenarios of route searches and isochrones no
edge takes zero seconds (`CostAssumption`): a base duration is positive and is divided by a
positive factor, so this only says that whole seconds have not been rounded to none. In a
route search none takes longer than `Horizon`, which may be any number, and `RouteIsRight`
compares with the arrivals up to it. Alternatives are asked of networks in which nobody
overtakes (`FairAssumption`), as above. TLC evaluates each of the assumptions on the
instance of a run.

*Only model-checked.*

- Liveness (`AcceptedJobsFinish`, `ShutdownCompletes`, `RunReturns`, `WorkEnds`,
  `QueriesEnd`, and that `Close` returns): TLAPS proves nothing that rests on fairness or
  `ENABLED`.
- That the models miss no interleaving or order the code has is a matter of reading; TLC's
  runs with the `Fault` definitions show that each property can fail.

## 5. What the models say about the code

Shown by a run whose property TLC finds violated:

- *A job that does not fit stays queued.* `CreateJob` stores the job, then finds the
  channel full and returns an error (`service.go:127`); the job reads `queued` for ever
  (`QueuedJobsGoOn`, against `README.md:54`).
- *The deadline does not bound every job.* Only the matrix loop looks at the context
  (`service.go:191`), so an isochrone or centrality job whose 30 s are over succeeds
  (`DeadlineBoundsAnalysis`, against `README.md:54`).
- *Activation skips the table.* `ActivateIncident` sets the status without `Transition`
  (`service.go:110`), so a revoked incident becomes active (`TransitionsAreLegal`, against
  `state.go:22` and the table under it).
- *A conflict may not overlap.* `windowsOverlap` takes the zero end of an open window for
  an instant (`resolver.go:106`), so two incidents in force together are reported with
  `overlaps` false (`ConflictsOverlap`, against `resolver.go:11`).
- *Submit panics.* A `Submit` past its first look at `closed` sends, in its select, on the
  channel that `Close` has closed meanwhile (`pool.go:56`; `SubmitReturnsAnError`, against
  `pool.go:48`).
- *The cache key is not the request.* `routeCacheKey` leaves out `AvoidTolls` and
  `MaxSlope` (`route_service.go:27`; `AnswersTheRequest`, against its own comment at line 9).

Read in the code and in the models as they stand, without a run of their own:

- A dataset reads version 1 when it is created and version 1 again after its first import
  (`store.go`, `PutGraph`), so its version does not tell an empty dataset from an imported
  one; the versions of graphs count imports.
- A batch validation whose request is cancelled returns no error: the reports made so far
  are answered with status 200 (`dispatcher.go`, `batch_service.go:22`). When a dataset has
  no graph, its empty report is stored before the error is seen (`batch_service.go:25`); the
  handler then answers with the error alone. `respond` compares with an error of
  its own, which is never `context.Canceled` (`handler.go:213`).
- A created incident is shown with the version its client wrote, and stored with 1
  (`service.go:101`, `store.go:140`): with 2 among `ClaimedVersions` a client that uses
  what it was shown as `If-Match` replaces a state it has not seen.
- `Authorize` reads the clock before the limiter's lock (`quota.go:70`): two calls in the
  other order get more than the limit into one window, since the later one has dropped
  what the earlier one must count. `WindowWithinLimit` and `TwoPeriodsAtMost` leave such late
  requests out; with them in the count TLC finds the first violated.
- `Register` looks into a map and writes to it without a lock (`quota.go:54-59`), and the
  handler of `POST /api/v1/quota/policies` runs on any number of goroutines. Two first
  registrations of a tenant can both find no limiter or budget, and the second replaces one
  that is in use: the two properties are of each limiter and budget, and a tenant may be let
  through by both. TLC finds them violated when they are stated of the tenant.
- `Register` keeps the limits of the policy it replaces (`quota.go:54`; line 47 says
  "installs or replaces"), and a call between its writes meets a nil budget. `job.Queue`
  (`queue.go:51`) has no lock either. Accesses to such tables are modelled as atomic, in every
  order; that the Go runtime may also end the process when it meets two of them at once is not.
- `PutGraph` lets a length through that is infinite or not a number (`types.go:139` refuses
  only those of zero or less), which `ValidateGraph` reports (`validation.go:55`). No request
  body can carry one; a caller of the package could.
- The tasks of a `Pool` run under `context.Background()` (`pool.go:44`), while `pool.go:12-13`
  says that it "propagates cancellation through the context": a task cannot be cancelled.
- `Cursor` returns the pair computed last, where its comment promises the next
  (`checkpoint.go:36`): a resume computes one pair twice. `Restore` looks for a float where
  `Persist` wrote an int (`checkpoint.go:70`): without a pass through JSON the count
  restarts at zero. Neither makes a resume skip a pair.
- `TrafficIndex` keeps the reports that arrived last, so a late report can push out a
  newer one (`network.go:52`).
- `TTLCache.Get` judges an entry after unlocking (`ttl.go:32`) and may miss a key that a
  `Put` kept live throughout.
- `ClusterNodes` compares each node with the seed of its cluster, not with the others of
  it, so two nodes of a cluster may be up to two radii apart; `cluster.go:15` says
  "pairwise distance".
- An isochrone keeps the earliest arrival per node and never waits (`engine.go:165`), so a
  node behind an edge that opens later can be missing; a route can be missing the same
  way. A heuristic of 15 m/s overestimates on faster roads (`engine.go:106`).
- A snapshot reads graph and incidents under two locks (`service.go:64`), so a route may
  mix two moments; `README.md:59` says versions cannot mix during a request. A cached route
  is returned after its dataset has changed (`route_service.go:13`).

## 6. Not modelled

- Floats: costs are whole seconds and networks are chosen so that divisions are exact; the
  `1e-9` tolerance of the stale test compares equal there. Distances are those of points on
  a line, or a table of estimates.
- Statistics over floats, which keep no state and which nothing calls: `Heatmap`,
  `ODMatrix`, reliability, profiles, forecasts, `TopNodes`, `ValidateDemand`,
  `AggregateMatrix`. A model of them would repeat their sums.
- Geometry (spherical, planar, projections) and the ranking in `path.go`, which has no
  caller; `KRoutes` ranks by itself.
- Vehicle classes, a traffic estimator behind `CostCalculator` (none is ever set), the
  wording of errors.
- `BatchTransition`, `MustTransition`, `ValidateLifecycle`, `SleepCtx`, `Remaining`,
  `Reset` and other helpers without a caller or without an effect on state.
- Reports, exports, HTTP parsing, configuration, the web page: no state of their own. What
  handlers check is part of the operations they call.
- Unsynchronised access as such: reads and writes of an unlocked map are interleaved whole;
  torn accesses and the runtime's own detection of concurrent map writes are left out.

## 7. Plan

Done: sections 2 to 4; every invariant and action property of the passing runs is proved.
What is left, in the order of what it would say:

1. *Abstract specifications* for the dispatcher (a parallel for) and the LRU (a map with a
   recency order), each as a property of the detailed module, and proved like
   `KeepsThePromise` from the invariants there are.
2. *Costs with a rest*: a bound on how far the ways to compute a cost may differ when every
   division rounds, in place of `CostsAssumption`.
3. *Alternatives where somebody overtakes*: which of their properties remain. The inner
   search is then no longer a shortest path, so it has to be composed of `RouteSearch`.
