\* What becomes of a job whose 30 seconds are over before its analysis begins.
SPECIFICATION Spec
CONSTANTS
    h1 = h1
    h2 = h2
    j1 = j1
    j2 = j2
    Handlers = {h1, h2}
    JobIds = {j1, j2}
    Datasets = {"demo"}
    Demo = "demo"
    Types = {"od_matrix", "isochrone"}
    QueueCap = 1
    Pairs = 1
    NoJob = "none"
CHECK_DEADLOCK FALSE
PROPERTIES
    DeadlineBoundsAnalysis
