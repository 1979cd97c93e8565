\* What becomes of a stored job whose id does not fit in the channel.
SPECIFICATION AllFairSpec
CONSTANTS
    h1 = h1
    h2 = h2
    j1 = j1
    j2 = j2
    Handlers = {h1, h2}
    JobIds = {j1, j2}
    Datasets = {"demo"}
    Demo = "demo"
    Types = {"od_matrix"}
    QueueCap = 1
    Pairs = 1
    NoJob = "none"
CHECK_DEADLOCK FALSE
PROPERTIES
    QueuedJobsGoOn
