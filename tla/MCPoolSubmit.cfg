\* What a Submit that overlaps Close does.
SPECIFICATION Spec
CONSTANTS
    Tasks = {t1, t2, t3, t4, t5}
    Workers = {w1, w2}
    QueueCap = 2
    NoTask = NoTask
    Gone = Gone
    Jobs = {j1, j2, j3}
    Priorities = {0, 2}
    Instants = {1, 2}
    Limit = 2
    Slots = 2
    MaxPushes = 4
    NoEnvelope = NoEnvelope
    Total = 4
    MaxRestarts = 2
CHECK_DEADLOCK FALSE
INVARIANTS
    SubmitReturnsAnError
