\* Five submissions, two workers and a channel that holds two: submitters wait
\* on a full channel while Close runs.  Two slots, a queue of two, four pushes
\* of three jobs in any order.  Two restarts in
\* a matrix of four pairs.  No symmetry: liveness is checked too.  Nobody
\* has to submit, close, push or cancel, so all may stand still.
SPECIFICATION FairSpec
CONSTANTS
    Tasks = {t1, t2, t3, t4, t5}
    Workers = {w1, w2}
    QueueCap = 2
    NoTask = NoTask
    Gone = Gone
    Jobs = {j1, j2, j3}
    Priorities = {0, 2}
    Instants = {1, 2}
    Limit = 2
    Slots = 2
    MaxPushes = 4
    NoEnvelope = NoEnvelope
    Total = 4
    MaxRestarts = 2
CHECK_DEADLOCK FALSE
INVARIANTS
    TasksAreInOnePlace
    SchedulerIsSound
    RunLosesAtMostOne
    ResumeSkipsNothing
PROPERTIES
    TaskPoolSpec
    WorkEnds
