\* Two handlers, two ids, a channel that holds one job, matrices of two pairs
\* and centrality jobs, one dataset with a graph and one that gets its graph
\* while jobs wait or run.  The channel fills, ids collide, submissions race
\* the worker and the shutdown.  No symmetry: liveness is checked too.  The
\* process may stop.
SPECIFICATION FairSpec
CONSTANTS
    h1 = h1
    h2 = h2
    j1 = j1
    j2 = j2
    Handlers = {h1, h2}
    JobIds = {j1, j2}
    Datasets = {"demo", "other"}
    Demo = "demo"
    Types = {"od_matrix", "centrality"}
    QueueCap = 1
    Pairs = 2
    NoJob = "none"
CHECK_DEADLOCK FALSE
INVARIANTS
    TypeOK
    AcceptedJobsAreHeld
    NoJobRunsTwice
    RunningIsTheWorkers
    OutcomesAreWhole
PROPERTIES
    TerminalIsFinal
    LifecycleSpec
    AcceptedJobsFinish
    ShutdownCompletes
